---------------------------- MODULE Merge_proofs ----------------------------
(***************************************************************************)
(* What the three-way merge keeps, where it cannot panic and that it ends  *)
(* with the textbook's result, for texts of any length and any two diffs   *)
(* of them.                                                                *)
(***************************************************************************)
EXTENDS Merge, Alignments_proofs

Sides == {"ancestor", "ours", "theirs"}

(***************************************************************************)
(* Where the first n ranges of one side end, when they stand one after the *)
(* other, and that they do: each begins where those before it end, unless  *)
(* there is nothing in it.                                                 *)
(***************************************************************************)
SideLens(rs, side) == [i \in DOMAIN rs |-> rs[i][side].len]
Place(rs, side, n) == SumUpTo(SideLens(rs, side), n)
EndOf(rs, side) == Place(rs, side, Len(rs))

Tiled(rs, side) ==
  \A i \in 1..Len(rs) : rs[i][side].len # 0 => rs[i][side].offset = Place(rs, side, i - 1)

TextOf(side) ==
  IF side = "ancestor" THEN ancestor ELSE IF side = "ours" THEN ours ELSE theirs

-----------------------------------------------------------------------------
(* The inductive invariant *)

(* The rest of an item after n of the items of a diff have been handed out, *)
(* from the places x and y on; and an iterator that stands there.           *)
Rest(item, n, ds, x, y) ==
  IF item = None THEN x = OldUpTo(ds, n) /\ y = NewUpTo(ds, n)
  ELSE LET diff == item[1]
       IN  /\ diff \in DiffRange
           /\ diff.kind = "Equal" => diff.old.len = diff.new.len
           /\ InOld(diff) => diff.old.offset = x
           /\ InNew(diff) => diff.new.offset = y
           /\ x + OldLen(diff) = OldUpTo(ds, n) /\ y + NewLen(diff) = NewUpTo(ds, n)

StandsAt(item, n, ds, x, y) ==
  /\ n \in 0..Len(ds)
  /\ Rest(item, n, ds, x, y)
  /\ IF item = None THEN n = Len(ds) ELSE ~IsEmpty(item[1])

(* What a range of the walk has on the sides that its kind leaves out. *)
Shape(m) ==
  /\ m \in Ranges3
  /\ m.kind \in {"Equal", "Ancestor", "AncestorOurs", "AncestorTheirs", "Ours", "Theirs"}
  /\ m.kind # "Equal" => \A side \in Sides \ SidesOf(m.kind) : m[side].len = 0

Given ==
  /\ <<ancestor, ours, theirs>> \in Inputs
  /\ ourSolution \in Solutions[<<ancestor, ours>>]
  /\ theirSolution \in Solutions[<<ancestor, theirs>>]

(* The walk takes up all three texts, from the places where both iterators *)
(* are, which agree on the ancestor.                                       *)
WalkInv ==
  /\ walk \in Seq(Ranges3) /\ \A n \in 1..Len(walk) : Shape(walk[n])
  /\ \A side \in Sides : Tiled(walk, side)
  /\ stage = "walk" =>
       /\ StandsAt(ourItem, ourNext, ourSolution, EndOf(walk, "ancestor"), EndOf(walk, "ours"))
       /\ StandsAt(theirItem, theirNext, theirSolution, EndOf(walk, "ancestor"), EndOf(walk, "theirs"))
       /\ region = NoRegion /\ merged = <<>>
  /\ stage # "walk" => \A side \in Sides : EndOf(walk, side) = Len(TextOf(side))

(* What is in the region leads from place x to place y. *)
Bridges(range, x, y) ==
  IF range = None THEN x = y
  ELSE /\ range[1] \in Ranges
       /\ x + range[1].len = y
       /\ range[1].len # 0 => range[1].offset = x

(* What has been merged and the region after it are what has been gathered; *)
(* a region that has lines of the ancestor also has a side.                 *)
GatherInv ==
  stage = "gather" =>
    /\ at <= Len(walk) + 1 /\ DOMAIN region = Sides
    /\ \A side \in Sides : /\ Tiled(merged, side)
                           /\ Bridges(region[side], EndOf(merged, side), Place(walk, side, at - 1))
    /\ region.ancestor # None => region.ours # None \/ region.theirs # None

MergedInv ==
  stage = "cleanup" /\ at = 1 =>
    \A side \in Sides : Tiled(merged, side) /\ EndOf(merged, side) = Len(TextOf(side))

MInv == TypeOK /\ Given /\ WalkInv /\ GatherInv /\ MergedInv

-----------------------------------------------------------------------------
(* Places and tiles *)

(* Where the first n ranges end on a side, step by step. *)
LEMMA PlaceFacts ==
  ASSUME NEW rs \in Seq(Ranges3), NEW side \in Sides
  PROVE  /\ Place(rs, side, 0) = 0
         /\ \A n \in 0..Len(rs) : Place(rs, side, n) \in Nat
         /\ \A n \in 1..Len(rs) :
              /\ rs[n][side] \in Ranges
              /\ Place(rs, side, n) = Place(rs, side, n - 1) + rs[n][side].len
<1> DEFINE lens == SideLens(rs, side)
<1>1. \A m \in Ranges3 : m[side] \in Ranges
  BY DEF Ranges3, Sides
<1>2. Len(rs) \in Nat /\ DOMAIN rs = 1..Len(rs) /\ \A n \in 1..Len(rs) : rs[n] \in Ranges3
  OBVIOUS
<1>3. \A n \in 1..Len(rs) : rs[n][side] \in Ranges /\ rs[n][side].len \in Nat
  BY <1>1, <1>2 DEF Ranges
<1>4. lens \in [1..Len(rs) -> Nat] /\ \A n \in 1..Len(rs) : lens[n] = rs[n][side].len
  BY <1>2, <1>3 DEF SideLens
<1> HIDE DEF lens
<1>5. lens \in Seq(Nat) /\ Len(lens) = Len(rs)
  BY <1>2, <1>4, RowIsSeq
<1>6. \A n \in 0..Len(rs) : SumUpTo(lens, n) \in Nat
  BY <1>5, SumUpToType
<1>7. SumUpTo(lens, 0) = 0 /\ \A n \in 1..Len(rs) : SumUpTo(lens, n) = SumUpTo(lens, n - 1) + lens[n]
  BY SumUpToRecurrence
<1> QED
  BY <1>3, <1>4, <1>6, <1>7 DEF Place, lens

(* The places in a row that starts like another one. *)
LEMMA PlacePrefix ==
  ASSUME NEW rs \in Seq(Ranges3), NEW qs \in Seq(Ranges3), NEW side \in Sides,
         Len(rs) <= Len(qs), \A i \in 1..Len(rs) : qs[i] = rs[i],
         NEW n \in 0..Len(rs)
  PROVE  Place(qs, side, n) = Place(rs, side, n)
<1> DEFINE p == [i \in 0..Len(rs) |-> Place(rs, side, i)]
           lens == SideLens(qs, side)
<1>1. Len(rs) \in Nat /\ Len(qs) \in Nat /\ DOMAIN qs = 1..Len(qs) /\ n \in Nat
  OBVIOUS
<1>2. p[0] = 0 /\ p[n] = Place(rs, side, n)
  BY <1>1, PlaceFacts
<1>3. ASSUME NEW i \in 1..n PROVE p[i] = p[i - 1] + lens[i]
  <2>1. i \in 1..Len(rs) /\ i \in 0..Len(rs) /\ i - 1 \in 0..Len(rs) /\ i \in DOMAIN qs
    BY <1>1
  <2>2. lens[i] = rs[i][side].len
    BY <2>1 DEF SideLens
  <2>3. Place(rs, side, i) = Place(rs, side, i - 1) + rs[i][side].len
    BY <2>1, PlaceFacts
  <2> QED
    BY <2>1, <2>2, <2>3
<1> HIDE DEF p, lens
<1>4. SumUpTo(lens, n) = p[n]
  BY <1>1, <1>2, <1>3, SumUpToUnique
<1> QED
  BY <1>2, <1>4 DEF Place, lens

(* A row with one more range. *)
LEMMA TiledAppend ==
  ASSUME NEW rs \in Seq(Ranges3), NEW m \in Ranges3, NEW side \in Sides,
         Tiled(rs, side), m[side].len # 0 => m[side].offset = EndOf(rs, side)
  PROVE  /\ Tiled(Append(rs, m), side)
         /\ EndOf(Append(rs, m), side) = EndOf(rs, side) + m[side].len
<1> DEFINE qs == Append(rs, m)
<1>1. /\ qs \in Seq(Ranges3) /\ Len(rs) \in Nat /\ Len(qs) = Len(rs) + 1
      /\ qs[Len(rs) + 1] = m /\ \A i \in 1..Len(rs) : qs[i] = rs[i]
  OBVIOUS
<1> HIDE DEF qs
<1>2. \A n \in 0..Len(rs) : Place(qs, side, n) = Place(rs, side, n)
  BY <1>1, PlacePrefix
<1>3. Len(rs) \in 0..Len(rs) /\ Len(qs) \in 1..Len(qs) /\ Len(qs) - 1 = Len(rs)
  BY <1>1
<1>4. Place(qs, side, Len(qs)) = Place(qs, side, Len(rs)) + m[side].len
  BY <1>1, <1>3, PlaceFacts
<1>5. EndOf(qs, side) = EndOf(rs, side) + m[side].len
  BY <1>2, <1>3, <1>4 DEF EndOf
<1>6. ASSUME NEW i \in 1..Len(qs), qs[i][side].len # 0 PROVE qs[i][side].offset = Place(qs, side, i - 1)
  <2>1. CASE i \in 1..Len(rs)
    <3>1. i - 1 \in 0..Len(rs) /\ qs[i] = rs[i]
      BY <1>1, <2>1
    <3> QED
      BY <1>2, <1>6, <2>1, <3>1 DEF Tiled
  <2>2. CASE i = Len(rs) + 1
    <3>1. i - 1 = Len(rs) /\ qs[i] = m
      BY <1>1, <2>2
    <3> QED
      BY <1>2, <1>3, <1>6, <3>1 DEF EndOf
  <2> QED
    BY <1>1, <2>1, <2>2
<1> QED
  BY <1>5, <1>6 DEF Tiled, qs

(* A row of none. *)
LEMMA TiledEmpty ==
  ASSUME NEW side \in Sides
  PROVE  Tiled(<<>>, side) /\ EndOf(<<>>, side) = 0
<1> DEFINE rs == <<>>
<1>1. rs \in Seq(Ranges3) /\ Len(rs) = 0 /\ 1..Len(rs) = {}
  OBVIOUS
<1> HIDE DEF rs
<1>2. Place(rs, side, 0) = 0
  BY <1>1, PlaceFacts
<1>3. Tiled(rs, side) /\ EndOf(rs, side) = 0
  BY <1>1, <1>2 DEF Tiled, EndOf
<1> QED
  BY <1>3 DEF rs

(* The first n lines of a text. *)
Beginning(text, n) == SubSeq(text, 1, n)

(* A beginning of a text and the slice after it are a longer beginning. *)
LEMMA SliceAfter ==
  ASSUME NEW T, NEW text \in Seq(T), NEW x \in Nat, NEW l \in Nat, x + l <= Len(text),
         NEW r \in Ranges, r.len = l, l # 0 => r.offset = x
  PROVE  /\ Beginning(text, x + l) = Join(Beginning(text, x), AsSlice(text, r))
         /\ AsSlice(text, r) \in Seq(T)
<1> DEFINE a == SubSeq(text, 1, x)
           b == AsSlice(text, r)
           c == SubSeq(text, 1, x + l)
<1>1. Len(text) \in Nat /\ r.offset \in Nat /\ \A i \in 1..Len(text) : text[i] \in T
  BY DEF Ranges
<1>2. a \in Seq(T) /\ Len(a) = x /\ \A i \in 1..x : a[i] = text[i]
  BY <1>1
<1>3. c \in Seq(T) /\ Len(c) = x + l /\ \A i \in 1..x + l : c[i] = text[i]
  BY <1>1
<1>4. b = [i \in 1..l |-> text[r.offset + i]]
  BY SliceElements
<1>5. \A i \in 1..l : text[r.offset + i] = text[x + i] /\ text[x + i] \in T /\ x + i \in 1..x + l
  BY <1>1
<1>6. b \in [1..l -> T] /\ \A i \in 1..l : b[i] = text[x + i]
  BY <1>4, <1>5
<1> HIDE DEF a, b, c
<1>7. b \in Seq(T) /\ Len(b) = l
  BY <1>6, RowIsSeq
<1>8. \A i \in 1..Len(a) : c[i] = a[i]
  BY <1>2, <1>3
<1>9. \A i \in 1..Len(b) : c[Len(a) + i] = b[i]
  BY <1>2, <1>3, <1>5, <1>6, <1>7
<1>10. c = a \o b
  BY ZenonT(60), <1>2, <1>3, <1>7, <1>8, <1>9, ConcatElements
<1> QED
  BY <1>7, <1>10 DEF a, b, c, Beginning, Join

(* Ranges that tile a text have all of it between them. *)
LEMMA TilesMakeText ==
  ASSUME NEW T, NEW text \in Seq(T), NEW rs \in Seq(Ranges3), NEW side \in Sides,
         Tiled(rs, side), EndOf(rs, side) = Len(text)
  PROVE  FlattenSeq([n \in DOMAIN rs |-> AsSlice(text, rs[n][side])]) = text
<1> DEFINE parts == [n \in DOMAIN rs |-> AsSlice(text, rs[n][side])]
           g == [n \in 0..Len(rs) |-> Beginning(text, Place(rs, side, n))]
<1>1. Len(rs) \in Nat /\ DOMAIN rs = 1..Len(rs) /\ Len(parts) = Len(rs) /\ Len(text) \in Nat
  OBVIOUS
<1>2. ASSUME NEW n \in 1..Len(rs) PROVE g[n] = Join(g[n - 1], parts[n]) /\ parts[n] \in Seq(T)
  <2> DEFINE x == Place(rs, side, n - 1)
             r == rs[n][side]
             l == r.len
  <2>1. n \in 0..Len(rs) /\ n - 1 \in 0..Len(rs)
    BY <1>1
  <2>2. x \in Nat /\ r \in Ranges /\ Place(rs, side, n) = x + r.len
    BY <2>1, PlaceFacts
  <2>3. x + r.len <= Len(text)
    <3> DEFINE lens == SideLens(rs, side)
    <3>1. \A m \in 1..Len(rs) : rs[m][side].len \in Nat
      BY PlaceFacts DEF Ranges
    <3>2. lens \in [1..Len(rs) -> Nat]
      BY <1>1, <3>1 DEF SideLens
    <3> HIDE DEF lens
    <3>3. lens \in Seq(Nat) /\ Len(lens) = Len(rs)
      BY <1>1, <3>2, RowIsSeq
    <3>4. SumUpTo(lens, n) <= SumUpTo(lens, Len(lens))
      BY <2>1, <3>3, SumUpToMonotonic
    <3> QED
      BY <2>2, <3>3, <3>4 DEF Place, EndOf, lens
  <2>4. r.len # 0 => r.offset = x
    BY DEF Tiled
  <2>5. l \in Nat /\ x + l <= Len(text) /\ (l # 0 => r.offset = x) /\ r.len = l
    BY <2>2, <2>3, <2>4 DEF Ranges
  <2>6. parts[n] = AsSlice(text, r) /\ g[n] = Beginning(text, x + l) /\ g[n - 1] = Beginning(text, x)
    BY <1>1, <2>1, <2>2
  <2>7. x \in Nat /\ r \in Ranges
    BY <2>2
  <2> HIDE DEF x, r, l, parts, g
  <2>8. Beginning(text, x + l) = Join(Beginning(text, x), AsSlice(text, r))
    BY SMTT(60), <2>5, <2>7, SliceAfter
  <2>9. AsSlice(text, r) \in Seq(T)
    BY <2>5, <2>7, SliceAfter
  <2> QED
    BY <2>6, <2>8, <2>9
<1>3. CASE Len(rs) = 0
  <2>1. parts = <<>> /\ Len(text) = 0
    <3>1. EndOf(rs, side) = 0
      BY <1>3, PlaceFacts DEF EndOf
    <3> QED
      BY <1>1, <1>3, <3>1
  <2>2. text = <<>>
    BY <2>1
  <2>3. FlattenSeq(parts) = parts
    BY <1>1, <1>3 DEF FlattenSeq
  <2> QED
    BY <2>1, <2>2, <2>3
<1>4. CASE Len(rs) # 0
  <2> DEFINE n == Len(rs)
  <2>1. n \in Nat \ {0} /\ 1 \in 1..n /\ 1 - 1 = 0 /\ 0 \in 0..n /\ n \in 0..n
    BY <1>1, <1>4
  <2>2. g[0] = <<>> /\ g[n] = text
    <3>1. g[0] = SubSeq(text, 1, 0)
      BY <2>1, PlaceFacts DEF Beginning
    <3>2. g[n] = SubSeq(text, 1, Len(text))
      BY <2>1 DEF EndOf, Beginning
    <3>3. SubSeq(text, 1, 0) = <<>> /\ SubSeq(text, 1, Len(text)) = text
      <4> HIDE DEF n
      <4> QED
        BY <1>1
    <3> QED
      BY <3>1, <3>2, <3>3
  <2>3. Len(parts) = n
    BY <1>1
  <2> HIDE DEF parts, g
  <2>4. \A i \in 1..n : g[i] = Join(g[i - 1], parts[i]) /\ parts[i] \in Seq(T)
    BY <1>2
  <2> HIDE DEF n
  <2>5. g[1] = parts[1]
    <3>1. g[1] = Join(g[0], parts[1]) /\ parts[1] \in Seq(T)
      BY <2>1, <2>4
    <3> QED
      BY <2>2, <3>1 DEF Join
  <2>6. ASSUME NEW i \in 2..n PROVE g[i] = g[i - 1] \o parts[i]
    <3>1. i \in 1..n
      BY <2>1
    <3> QED
      BY <2>4, <3>1 DEF Join
  <2>7. Flattens(g, parts)
    BY <2>1, <2>3, <2>5, <2>6 DEF Flattens
  <2>8. FlattenSeq(parts) = g[n]
    BY <2>3, <2>7, FlatExists
  <2> QED
    BY <2>2, <2>8 DEF parts
<1> QED
  BY <1>3, <1>4

-----------------------------------------------------------------------------
(* The two diffs and the iterators on them *)

(* What the merge uses of a diff. *)
Fits(ds, s, t) ==
  /\ ds \in Seq(DiffRange)
  /\ OldUpTo(ds, Len(ds)) = Len(s) /\ NewUpTo(ds, Len(ds)) = Len(t)
  /\ \A i \in 1..Len(ds) :
       /\ ~IsEmpty(ds[i])
       /\ ds[i].kind = "Equal" => ds[i].old.len = ds[i].new.len
       /\ InOld(ds[i]) => ds[i].old.offset = OldUpTo(ds, i - 1)
       /\ InNew(ds[i]) => ds[i].new.offset = NewUpTo(ds, i - 1)

(* A diff without empty items fits the two texts: each of its items begins
   where those before it end, and takes something. *)
LEMMA DiffFits ==
  ASSUME NEW ds \in Seq(DiffRange), NEW s, NEW t, Aligns(ds, s, t),
         \A i \in DOMAIN ds : ~IsEmpty(ds[i])
  PROVE  Fits(ds, s, t)
<1>1. /\ Contiguous(ds, s, t) /\ Covers(ds, s, t) /\ EquatesEqual(ds, s, t)
      /\ \A i \in DOMAIN ds : ~IsEmpty(ds[i])
  BY DEF Aligns
<1>2. ds \in Seq(Matching(s, t))
  BY <1>1, EquatesMatching
<1>3. DOMAIN ds = 1..Len(ds) /\ \A i \in 1..Len(ds) : ds[i] \in Matching(s, t)
  BY <1>2
<1>4. \A i \in 1..Len(ds) : ds[i].kind = "Equal" => ds[i].old.len = ds[i].new.len
  BY <1>3 DEF Matching, IsEdit
<1> QED
  BY <1>1, <1>3, <1>4 DEF Fits, Contiguous, Covers

(* The two diffs that are given do. *)
LEMMA SolutionsFit ==
  ASSUME Given
  PROVE  Fits(ourSolution, ancestor, ours) /\ Fits(theirSolution, ancestor, theirs)
<1> DEFINE texts == <<ancestor, ours, theirs>>
<1>1. texts \in Inputs /\ texts[1] = ancestor /\ texts[2] = ours /\ texts[3] = theirs
  BY DEF Given
<1>2. /\ ourSolution \in Seq(DiffRange) /\ Aligns(ourSolution, ancestor, ours)
      /\ \A i \in DOMAIN ourSolution : ~IsEmpty(ourSolution[i])
  BY <1>1, MergeAssumption DEF Given
<1>3. /\ theirSolution \in Seq(DiffRange) /\ Aligns(theirSolution, ancestor, theirs)
      /\ \A i \in DOMAIN theirSolution : ~IsEmpty(theirSolution[i])
  BY <1>1, MergeAssumption DEF Given
<1> QED
  BY <1>2, <1>3, DiffFits

(* The next item, when the one at hand is used up. *)
LEMMA RefillStands ==
  ASSUME NEW ds, NEW s, NEW t, Fits(ds, s, t), NEW n \in 0..Len(ds),
         NEW item, NEW x \in Nat, NEW y \in Nat, Rest(item, n, ds, x, y)
  PROVE  StandsAt(Refill(item, ds, n), Count(item, ds, n), ds, x, y)
<1>1. ds \in Seq(DiffRange) /\ Len(ds) \in Nat /\ n \in Nat /\ n <= Len(ds)
  BY DEF Fits
<1>2. CASE ~UsedUp(item)
  <2>1. Refill(item, ds, n) = item /\ Count(item, ds, n) = n /\ item # None /\ ~IsEmpty(item[1])
    BY <1>2 DEF Refill, Count, UsedUp
  <2> QED
    BY <2>1 DEF StandsAt
<1>3. CASE UsedUp(item)
  <2>1. x = OldUpTo(ds, n) /\ y = NewUpTo(ds, n)
    <3>1. CASE item = None
      BY <3>1 DEF Rest
    <3>2. CASE item # None
      <4> DEFINE diff == item[1]
      <4>1. /\ diff \in DiffRange /\ IsEmpty(diff)
            /\ diff.kind = "Equal" => diff.old.len = diff.new.len
            /\ x + OldLen(diff) = OldUpTo(ds, n) /\ y + NewLen(diff) = NewUpTo(ds, n)
        BY <1>3, <3>2 DEF Rest, UsedUp
      <4> HIDE DEF diff
      <4>2. diff.kind \in {"Equal", "Delete", "Insert"}
        BY <4>1 DEF DiffRange
      <4>3. OldLen(diff) = 0 /\ NewLen(diff) = 0
        BY <4>1, <4>2, ItemLens DEF IsEmpty
      <4> QED
        BY <4>1, <4>3
    <3> QED
      BY <3>1, <3>2
  <2>2. CASE n < Len(ds)
    <3> DEFINE diff == ds[n + 1]
    <3>1. Refill(item, ds, n) = <<diff>> /\ Count(item, ds, n) = n + 1
      BY <1>1, <1>3, <2>2 DEF Refill, Count, NextOf, Some, Min2
    <3>2. <<diff>> # None /\ <<diff>>[1] = diff
      BY DEF None
    <3>3. n + 1 \in 1..Len(ds) /\ n + 1 \in 0..Len(ds) /\ (n + 1) - 1 = n
      BY <1>1, <2>2
    <3>4. diff \in DiffRange
      BY <1>1, <3>3
    <3>5. /\ ~IsEmpty(diff)
          /\ diff.kind = "Equal" => diff.old.len = diff.new.len
          /\ InOld(diff) => diff.old.offset = x
          /\ InNew(diff) => diff.new.offset = y
      BY <2>1, <3>3 DEF Fits
    <3>6. /\ OldUpTo(ds, n + 1) = x + OldLen(diff)
          /\ NewUpTo(ds, n + 1) = y + NewLen(diff)
      BY <1>1, <2>1, <3>3, UpToNext
    <3> HIDE DEF diff
    <3>7. Rest(<<diff>>, n + 1, ds, x, y)
      BY <3>2, <3>4, <3>5, <3>6 DEF Rest
    <3>8. StandsAt(<<diff>>, n + 1, ds, x, y)
      BY <3>2, <3>3, <3>5, <3>7 DEF StandsAt
    <3> QED
      BY <3>1, <3>8
  <2>3. CASE n >= Len(ds)
    <3>1. Refill(item, ds, n) = None /\ Count(item, ds, n) = Len(ds) /\ n = Len(ds)
      BY <1>1, <1>3, <2>3 DEF Refill, Count, NextOf, Min2
    <3>2. Rest(None, Len(ds), ds, x, y)
      BY <2>1, <3>1 DEF Rest
    <3>3. StandsAt(None, Len(ds), ds, x, y)
      BY <1>1, <3>2 DEF StandsAt
    <3> QED
      BY <3>1, <3>3
  <2> QED
    BY <1>1, <2>2, <2>3
<1> QED
  BY <1>2, <1>3

(* Where an iterator stands is in both texts. *)
LEMMA StandsInText ==
  ASSUME NEW ds, NEW s, NEW t, Fits(ds, s, t), NEW n, NEW item,
         NEW x \in Nat, NEW y \in Nat, StandsAt(item, n, ds, x, y)
  PROVE  /\ item = None => x = Len(s) /\ y = Len(t)
         /\ item # None => /\ item[1] \in DiffRange
                           /\ x + OldLen(item[1]) <= Len(s)
                           /\ LenOf(item[1]) # 0
<1>1. ds \in Seq(DiffRange) /\ n \in 0..Len(ds)
  BY DEF Fits, StandsAt
<1>2. OldUpTo(ds, n) <= OldUpTo(ds, Len(ds))
  BY <1>1, UpToType
<1>3. OldUpTo(ds, Len(ds)) = Len(s) /\ NewUpTo(ds, Len(ds)) = Len(t)
  BY DEF Fits
<1>4. CASE item = None
  BY <1>3, <1>4 DEF StandsAt, Rest
<1>5. CASE item # None
  <2>1. item[1] \in DiffRange /\ x + OldLen(item[1]) = OldUpTo(ds, n) /\ ~IsEmpty(item[1])
    BY <1>5 DEF StandsAt, Rest
  <2> QED
    BY <1>2, <1>3, <1>5, <2>1 DEF IsEmpty
<1> QED
  BY <1>4, <1>5

-----------------------------------------------------------------------------
(* The walk *)

(* Where the walk stands in the three texts, and that both diffs fit. *)
LEMMA WhileWalking ==
  ASSUME MInv, stage = "walk"
  PROVE  /\ Fits(ourSolution, ancestor, ours) /\ Fits(theirSolution, ancestor, theirs)
         /\ EndOf(walk, "ancestor") \in Nat /\ EndOf(walk, "ours") \in Nat
         /\ EndOf(walk, "theirs") \in Nat
         /\ StandsAt(ourItem, ourNext, ourSolution, EndOf(walk, "ancestor"), EndOf(walk, "ours"))
         /\ StandsAt(theirItem, theirNext, theirSolution, EndOf(walk, "ancestor"), EndOf(walk, "theirs"))
<1>1. Fits(ourSolution, ancestor, ours) /\ Fits(theirSolution, ancestor, theirs)
  BY SolutionsFit DEF MInv
<1>2. walk \in Seq(Ranges3) /\ Len(walk) \in 0..Len(walk)
  BY DEF MInv, WalkInv
<1>3. \A side \in Sides : EndOf(walk, side) \in Nat
  BY <1>2, PlaceFacts DEF EndOf
<1>4. EndOf(walk, "ancestor") \in Nat /\ EndOf(walk, "ours") \in Nat /\ EndOf(walk, "theirs") \in Nat
  BY <1>3 DEF Sides
<1> QED
  BY <1>1, <1>4 DEF MInv, WalkInv

(* The iterators go on by what the new range has of each text. *)
OnBy(newOurs, newTheirs, m) ==
  /\ Rest(newOurs, ourNext, ourSolution,
          EndOf(walk, "ancestor") + m.ancestor.len, EndOf(walk, "ours") + m.ours.len)
  /\ Rest(newTheirs, theirNext, theirSolution,
          EndOf(walk, "ancestor") + m.ancestor.len, EndOf(walk, "theirs") + m.theirs.len)

FitsOn(m) ==
  /\ Shape(m)
  /\ m.ancestor.len # 0 => m.ancestor.offset = EndOf(walk, "ancestor")
  /\ m.ours.len # 0 => m.ours.offset = EndOf(walk, "ours")
  /\ m.theirs.len # 0 => m.theirs.offset = EndOf(walk, "theirs")

(* An item at hand is an item of the diff. *)
LEMMA StandsType ==
  ASSUME NEW item, NEW n, NEW ds, NEW x, NEW y, StandsAt(item, n, ds, x, y)
  PROVE  n \in 0..Len(ds) /\ (item # None => item[1] \in DiffRange)
BY DEF StandsAt, Rest

(* What is consumed of both diffs and added to the ranges belongs together:
   then the walk stands right after the step too. *)
LEMMA WalkOn ==
  ASSUME MInv, Walking, NEW newOurs, NEW newTheirs, NEW m,
         FitsOn(m), OnBy(newOurs, newTheirs, m), Consume(newOurs, newTheirs, m)
  PROVE  MInv'
<1>1. /\ stage = "walk" /\ stage' = "walk"
      /\ UNCHANGED <<inputs, at, region, merged, output, conflicts>>
  BY DEF Walking
<1>2. /\ walk' = Append(walk, m)
      /\ ourItem' = Refill(newOurs, ourSolution, ourNext)
      /\ ourNext' = Count(newOurs, ourSolution, ourNext)
      /\ theirItem' = Refill(newTheirs, theirSolution, theirNext)
      /\ theirNext' = Count(newTheirs, theirSolution, theirNext)
  BY DEF Consume
<1>3. walk \in Seq(Ranges3) /\ m \in Ranges3 /\ walk' \in Seq(Ranges3) /\ Shape(m)
  BY <1>2 DEF MInv, WalkInv, FitsOn, Shape
<1>4. \A n \in 1..Len(walk') : Shape(walk'[n])
  <2>1. \A n \in 1..Len(walk) : Shape(walk[n])
    BY DEF MInv, WalkInv
  <2>2. ASSUME NEW n \in 1..Len(Append(walk, m)) PROVE Append(walk, m)[n] = m \/ \E i \in 1..Len(walk) : Append(walk, m)[n] = walk[i]
    BY <1>3
  <2> QED
    BY <1>2, <1>3, <2>1, <2>2
<1>5. ASSUME NEW side \in Sides
      PROVE  Tiled(walk', side) /\ EndOf(walk', side) = EndOf(walk, side) + m[side].len
  <2>1. Tiled(walk, side)
    BY DEF MInv, WalkInv
  <2>2. m[side].len # 0 => m[side].offset = EndOf(walk, side)
    BY DEF FitsOn, Sides
  <2> QED
    BY <1>2, <1>3, <2>1, <2>2, TiledAppend
<1> DEFINE a == EndOf(walk, "ancestor") + m.ancestor.len
           b == EndOf(walk, "ours") + m.ours.len
           c == EndOf(walk, "theirs") + m.theirs.len
<1>6. EndOf(walk', "ancestor") = a /\ EndOf(walk', "ours") = b /\ EndOf(walk', "theirs") = c
  BY <1>5 DEF Sides
<1>7. a \in Nat /\ b \in Nat /\ c \in Nat
  <2>1. m.ancestor.len \in Nat /\ m.ours.len \in Nat /\ m.theirs.len \in Nat
    BY <1>3 DEF Ranges3, Ranges
  <2> QED
    BY <1>1, <2>1, WhileWalking
<1>8. Rest(newOurs, ourNext, ourSolution, a, b) /\ Rest(newTheirs, theirNext, theirSolution, a, c)
  BY DEF OnBy
<1> HIDE DEF a, b, c
<1>9. ourNext \in 0..Len(ourSolution) /\ theirNext \in 0..Len(theirSolution)
  BY DEF MInv, TypeOK
<1>10. StandsAt(ourItem', ourNext', ourSolution, a, b)
  <2>1. Fits(ourSolution, ancestor, ours)
    BY <1>1, WhileWalking
  <2> QED
    BY <1>2, <1>7, <1>8, <1>9, <2>1, RefillStands
<1>11. StandsAt(theirItem', theirNext', theirSolution, a, c)
  <2>1. Fits(theirSolution, ancestor, theirs)
    BY <1>1, WhileWalking
  <2> QED
    BY <1>2, <1>7, <1>8, <1>9, <2>1, RefillStands
<1>12. UNCHANGED <<ancestor, ours, theirs, ourSolution, theirSolution, style>>
  BY <1>1 DEF inputs
<1>13. WalkInv'
  BY <1>1, <1>3, <1>4, <1>5, <1>6, <1>10, <1>11, <1>12 DEF MInv, WalkInv
<1>14. TypeOK'
  <2>1. /\ ourNext' \in 0..Len(ourSolution) /\ (ourItem' # None => ourItem'[1] \in DiffRange)
        /\ theirNext' \in 0..Len(theirSolution) /\ (theirItem' # None => theirItem'[1] \in DiffRange)
    BY <1>10, <1>11, StandsType
  <2> QED
    BY <1>1, <1>3, <1>12, <2>1 DEF MInv, TypeOK
<1>15. Given'
  BY <1>12 DEF MInv, Given
<1>16. GatherInv' /\ MergedInv'
  BY <1>1 DEF GatherInv, MergedInv
<1> QED
  BY <1>13, <1>14, <1>15, <1>16 DEF MInv

(* The walk begins at the beginnings. *)
LEMMA InitMInv ==
  ASSUME Init
  PROVE  MInv
<1>1. /\ ourItem = NextOf(ourSolution, 0) /\ ourNext = Min2(1, Len(ourSolution))
      /\ theirItem = NextOf(theirSolution, 0) /\ theirNext = Min2(1, Len(theirSolution))
      /\ walk = <<>> /\ at = 1 /\ region = NoRegion /\ merged = <<>>
      /\ output = <<>> /\ conflicts = 0 /\ stage = "walk"
  BY DEF Init
<1>2. Given
  <2>1. PICK texts \in Inputs :
          /\ ancestor = texts[1] /\ ours = texts[2] /\ theirs = texts[3]
          /\ ourSolution \in Solutions[<<texts[1], texts[2]>>]
          /\ theirSolution \in Solutions[<<texts[1], texts[3]>>]
    BY DEF Init
  <2>2. texts = <<texts[1], texts[2], texts[3]>>
    BY MergeAssumption
  <2> QED
    BY <2>1, <2>2 DEF Given
<1>3. Fits(ourSolution, ancestor, ours) /\ Fits(theirSolution, ancestor, theirs)
  BY <1>2, SolutionsFit
<1>4. ASSUME NEW ds, NEW s, NEW t, Fits(ds, s, t)
      PROVE  StandsAt(NextOf(ds, 0), Min2(1, Len(ds)), ds, 0, 0)
  <2>1. ds \in Seq(DiffRange) /\ 0 \in 0..Len(ds) /\ 0 \in Nat
    BY <1>4 DEF Fits
  <2>2. Rest(None, 0, ds, 0, 0)
    BY <2>1, UpToType DEF Rest
  <2>3. StandsAt(Refill(None, ds, 0), Count(None, ds, 0), ds, 0, 0)
    BY <1>4, <2>1, <2>2, RefillStands
  <2>4. Refill(None, ds, 0) = NextOf(ds, 0) /\ Count(None, ds, 0) = Min2(1, Len(ds))
    BY DEF Refill, Count, UsedUp
  <2> QED
    BY <2>3, <2>4
<1>5. /\ StandsAt(ourItem, ourNext, ourSolution, 0, 0)
      /\ StandsAt(theirItem, theirNext, theirSolution, 0, 0)
  BY <1>1, <1>3, <1>4
<1>6. \A side \in Sides : Tiled(walk, side) /\ EndOf(walk, side) = 0
  BY <1>1, TiledEmpty
<1>7. EndOf(walk, "ancestor") = 0 /\ EndOf(walk, "ours") = 0 /\ EndOf(walk, "theirs") = 0
  BY <1>6 DEF Sides
<1>8. walk \in Seq(Ranges3) /\ 1..Len(walk) = {} /\ merged \in Seq(Ranges3)
  BY <1>1
<1>9. WalkInv
  BY <1>1, <1>5, <1>6, <1>7, <1>8 DEF WalkInv
<1>10. TypeOK
  <2>1. /\ ourNext \in 0..Len(ourSolution) /\ (ourItem # None => ourItem[1] \in DiffRange)
        /\ theirNext \in 0..Len(theirSolution) /\ (theirItem # None => theirItem[1] \in DiffRange)
    BY <1>5, StandsType
  <2>2. \A side \in DOMAIN region : region[side] = None
    BY <1>1 DEF NoRegion
  <2> QED
    BY <1>1, <1>8, <2>1, <2>2 DEF TypeOK
<1>11. GatherInv /\ MergedInv
  BY <1>1 DEF GatherInv, MergedInv
<1> QED
  BY <1>2, <1>9, <1>10, <1>11 DEF MInv

(* The range that is walked over when one side has an Insert. *)
LEMMA TakeOursMInv ==
  ASSUME MInv, TakeOurs
  PROVE  MInv'
<1> DEFINE o == ourItem[1]
           m == Range3("Ours", EmptyRange, o.new, EmptyRange)
           x == EndOf(walk, "ancestor")
           y == EndOf(walk, "ours")
           z == EndOf(walk, "theirs")
<1>1. /\ Walking /\ ourItem # None /\ o.kind = "Insert" /\ stage = "walk"
      /\ Consume(None, theirItem, m)
  BY DEF TakeOurs, Is, Walking
<1>2. x \in Nat /\ y \in Nat /\ z \in Nat
  BY <1>1, WhileWalking
<1>3. Rest(ourItem, ourNext, ourSolution, x, y) /\ Rest(theirItem, theirNext, theirSolution, x, z)
  BY <1>1, WhileWalking DEF StandsAt
<1> HIDE DEF x, y, z
<1>4. /\ o \in DiffRange /\ (InNew(o) => o.new.offset = y)
      /\ x + OldLen(o) = OldUpTo(ourSolution, ourNext)
      /\ y + NewLen(o) = NewUpTo(ourSolution, ourNext)
  BY <1>1, <1>3 DEF Rest
<1>5. /\ o.new \in Ranges /\ o.new.len \in Nat /\ o.new.offset = y
      /\ OldLen(o) = 0 /\ NewLen(o) = o.new.len
  BY <1>1, <1>4, ItemLens
<1>6. /\ m.kind = "Ours" /\ m.ancestor = EmptyRange /\ m.ours = o.new /\ m.theirs = EmptyRange
      /\ m["ancestor"] = EmptyRange /\ m["theirs"] = EmptyRange
      /\ EmptyRange \in Ranges /\ EmptyRange.len = 0
  BY DEF Range3, EmptyRange, MkRange, Ranges
<1>7. m \in Ranges3
  BY <1>5, <1>6 DEF Range3, Ranges3, Kinds3
<1>8. FitsOn(m)
  <2>1. Shape(m)
    BY <1>6, <1>7 DEF Shape, Sides, SidesOf
  <2> QED
    BY <1>5, <1>6, <2>1 DEF FitsOn, x, y, z
<1>9. OnBy(None, theirItem, m)
  <2>1. Rest(None, ourNext, ourSolution, x + 0, y + o.new.len)
    BY <1>2, <1>4, <1>5 DEF Rest
  <2>2. x + 0 = x /\ z + 0 = z
    BY <1>2
  <2> QED
    BY <1>3, <1>6, <2>1, <2>2 DEF OnBy, x, y, z
<1> HIDE DEF m, o
<1> QED
  BY <1>1, <1>8, <1>9, WalkOn

(* The same of their insertion. *)
LEMMA TakeTheirsMInv ==
  ASSUME MInv, TakeTheirs
  PROVE  MInv'
<1> DEFINE t == theirItem[1]
           m == Range3("Theirs", EmptyRange, EmptyRange, t.new)
           x == EndOf(walk, "ancestor")
           y == EndOf(walk, "ours")
           z == EndOf(walk, "theirs")
<1>1. /\ Walking /\ theirItem # None /\ t.kind = "Insert" /\ stage = "walk"
      /\ Consume(ourItem, None, m)
  BY DEF TakeTheirs, Is, Walking
<1>2. x \in Nat /\ y \in Nat /\ z \in Nat
  BY <1>1, WhileWalking
<1>3. Rest(ourItem, ourNext, ourSolution, x, y) /\ Rest(theirItem, theirNext, theirSolution, x, z)
  BY <1>1, WhileWalking DEF StandsAt
<1> HIDE DEF x, y, z
<1>4. /\ t \in DiffRange /\ (InNew(t) => t.new.offset = z)
      /\ x + OldLen(t) = OldUpTo(theirSolution, theirNext)
      /\ z + NewLen(t) = NewUpTo(theirSolution, theirNext)
  BY <1>1, <1>3 DEF Rest
<1>5. /\ t.new \in Ranges /\ t.new.len \in Nat /\ t.new.offset = z
      /\ OldLen(t) = 0 /\ NewLen(t) = t.new.len
  BY <1>1, <1>4, ItemLens
<1>6. /\ m.kind = "Theirs" /\ m.ancestor = EmptyRange /\ m.ours = EmptyRange /\ m.theirs = t.new
      /\ m["ancestor"] = EmptyRange /\ m["ours"] = EmptyRange
      /\ EmptyRange \in Ranges /\ EmptyRange.len = 0
  BY DEF Range3, EmptyRange, MkRange, Ranges
<1>7. m \in Ranges3
  BY <1>5, <1>6 DEF Range3, Ranges3, Kinds3
<1>8. FitsOn(m)
  <2>1. Shape(m)
    BY <1>6, <1>7 DEF Shape, Sides, SidesOf
  <2> QED
    BY <1>5, <1>6, <2>1 DEF FitsOn, x, y, z
<1>9. OnBy(ourItem, None, m)
  <2>1. Rest(None, theirNext, theirSolution, x + 0, z + t.new.len)
    BY <1>2, <1>4, <1>5 DEF Rest
  <2>2. x + 0 = x /\ y + 0 = y
    BY <1>2
  <2> QED
    BY <1>3, <1>6, <2>1, <2>2 DEF OnBy, x, y, z
<1> HIDE DEF m, t
<1> QED
  BY <1>1, <1>8, <1>9, WalkOn

(* What is left of an item after the first len lines of it. *)
LEMMA ShrunkFrontItem ==
  ASSUME NEW diff \in DiffRange, NEW len
  PROVE  LET rest == ShrunkFront(diff, len)
         IN  /\ rest.kind = diff.kind
             /\ rest.old = IF InOld(diff) THEN ShrinkFront(diff.old, len) ELSE diff.old
             /\ rest.new = IF InNew(diff) THEN ShrinkFront(diff.new, len) ELSE diff.new
             /\ rest = [kind |-> rest.kind, old |-> rest.old, new |-> rest.new]
<1> DEFINE o == IF InOld(diff) THEN ShrinkFront(diff.old, len) ELSE diff.old
           n == IF InNew(diff) THEN ShrinkFront(diff.new, len) ELSE diff.new
           f == [x \in {"kind", "old", "new"} |->
                   IF x = "new" THEN n ELSE IF x = "old" THEN o ELSE diff[x]]
<1>1. ShrunkFront(diff, len) = [diff EXCEPT !.old = o, !.new = n]
  BY DEF ShrunkFront, ForEach
<1> HIDE DEF o, n
<1>2. [diff EXCEPT !.old = o, !.new = n] = f
  BY DEF DiffRange
<1>3. f = [kind |-> diff.kind, old |-> o, new |-> n]
  OBVIOUS
<1>4. ShrunkFront(diff, len) = [kind |-> diff.kind, old |-> o, new |-> n]
  BY <1>1, <1>2, <1>3
<1> QED
  BY <1>4 DEF o, n

(* What is left of an item of which some lines have been consumed. *)
LEMMA ShrunkRest ==
  ASSUME NEW item, item # None, item[1].kind \in {"Equal", "Delete"},
         NEW n, NEW ds, NEW x \in Nat, NEW y \in Nat, Rest(item, n, ds, x, y),
         NEW len \in Nat, len <= item[1].old.len,
         NEW l, l = IF item[1].kind = "Equal" THEN len ELSE 0
  PROVE  Rest(Some(ShrunkFront(item[1], len)), n, ds, x + len, y + l)
<1> DEFINE diff == item[1]
           rest == ShrunkFront(diff, len)
<1>1. /\ diff \in DiffRange
      /\ diff.kind = "Equal" => diff.old.len = diff.new.len
      /\ InOld(diff) => diff.old.offset = x
      /\ InNew(diff) => diff.new.offset = y
      /\ x + OldLen(diff) = OldUpTo(ds, n) /\ y + NewLen(diff) = NewUpTo(ds, n)
  BY DEF Rest
<1>2. /\ diff.kind \in {"Equal", "Delete"} /\ len <= diff.old.len
      /\ l = IF diff.kind = "Equal" THEN len ELSE 0
  OBVIOUS
<1> HIDE DEF diff
<1>3. /\ rest.kind = diff.kind
      /\ rest.old = IF InOld(diff) THEN ShrinkFront(diff.old, len) ELSE diff.old
      /\ rest.new = IF InNew(diff) THEN ShrinkFront(diff.new, len) ELSE diff.new
      /\ rest = [kind |-> rest.kind, old |-> rest.old, new |-> rest.new]
  BY <1>1, ShrunkFrontItem
<1> HIDE DEF rest
<1>4. /\ diff.old.offset \in Nat /\ diff.old.len \in Nat /\ diff.new \in Ranges
      /\ diff.new.offset \in Nat /\ diff.new.len \in Nat
  BY <1>1, ItemLens
<1>5. InOld(diff) /\ InOld(rest)
  BY <1>2, <1>3 DEF InOld
<1>6. rest.old = MkRange(x + len, diff.old.len - len)
  BY <1>1, <1>3, <1>5 DEF ShrinkFront
<1>7. CASE diff.kind = "Equal"
  <2>1. InNew(diff) /\ InNew(rest) /\ l = len /\ rest.kind = "Equal"
    BY <1>2, <1>3, <1>7 DEF InNew
  <2>2. rest.new = MkRange(y + len, diff.old.len - len)
    BY <1>1, <1>3, <1>7, <2>1 DEF ShrinkFront
  <2>3. rest \in DiffRange
    BY <1>2, <1>3, <1>4, <1>6, <2>1, <2>2 DEF DiffRange, Ranges, MkRange
  <2>4. OldLen(rest) = diff.old.len - len /\ NewLen(rest) = diff.old.len - len
    BY <1>5, <1>6, <2>1, <2>2 DEF OldLen, NewLen, MkRange
  <2>5. OldLen(diff) = diff.old.len /\ NewLen(diff) = diff.old.len
    BY <1>1, <1>7, ItemLens
  <2>6. (x + len) + OldLen(rest) = OldUpTo(ds, n) /\ (y + l) + NewLen(rest) = NewUpTo(ds, n)
    BY <1>1, <1>4, <2>1, <2>4, <2>5
  <2>7. rest.old.len = rest.new.len /\ rest.old.offset = x + len /\ rest.new.offset = y + l
    BY <1>6, <2>1, <2>2 DEF MkRange
  <2>8. <<rest>> # None /\ <<rest>>[1] = rest
    BY DEF None
  <2>9. Rest(<<rest>>, n, ds, x + len, y + l)
    BY <2>3, <2>6, <2>7, <2>8 DEF Rest
  <2> QED
    BY <2>9 DEF Some, diff, rest
<1>8. CASE diff.kind = "Delete"
  <2>1. ~InNew(diff) /\ ~InNew(rest) /\ l = 0 /\ rest.kind = "Delete" /\ rest.new = diff.new
    BY <1>2, <1>3, <1>8 DEF InNew
  <2>3. rest \in DiffRange
    BY <1>2, <1>3, <1>4, <1>6, <2>1 DEF DiffRange, Ranges, MkRange
  <2>4. OldLen(rest) = diff.old.len - len /\ NewLen(rest) = 0
    BY <1>5, <1>6, <2>1 DEF OldLen, NewLen, MkRange
  <2>5. OldLen(diff) = diff.old.len /\ NewLen(diff) = 0
    BY <1>1, <1>8, ItemLens
  <2>6. (x + len) + OldLen(rest) = OldUpTo(ds, n) /\ (y + l) + NewLen(rest) = NewUpTo(ds, n)
    BY <1>1, <1>4, <2>1, <2>4, <2>5
  <2>7. rest.old.offset = x + len
    BY <1>6 DEF MkRange
  <2>8. <<rest>> # None /\ <<rest>>[1] = rest
    BY DEF None
  <2>9. Rest(<<rest>>, n, ds, x + len, y + l)
    BY <2>1, <2>3, <2>6, <2>7, <2>8 DEF Rest
  <2> QED
    BY <2>9 DEF Some, diff, rest
<1> QED
  BY <1>2, <1>7, <1>8

(* What a pair of stretches of the ancestor is, by what each side did. *)
LEMMA PairedFacts ==
  ASSUME NEW o \in DiffRange, NEW t \in DiffRange, NEW len \in Nat,
         o.kind \in {"Equal", "Delete"}, t.kind \in {"Equal", "Delete"}
  PROVE  LET m == Paired(o, t, len)
         IN  /\ Shape(m)
             /\ m.ancestor.len = len /\ m.ancestor.offset = o.old.offset
             /\ m.ours.len = IF o.kind = "Equal" THEN len ELSE 0
             /\ m.ours.len # 0 => m.ours.offset = o.new.offset
             /\ m.theirs.len = IF t.kind = "Equal" THEN len ELSE 0
             /\ m.theirs.len # 0 => m.theirs.offset = t.new.offset
<1> DEFINE a == SliceTo(o.old, len)
           our == SliceTo(o.new, len)
           their == SliceTo(t.new, len)
<1>1. /\ a \in Ranges /\ a.len = len /\ a.offset = o.old.offset
      /\ our \in Ranges /\ our.len = len /\ our.offset = o.new.offset
      /\ their \in Ranges /\ their.len = len /\ their.offset = t.new.offset
      /\ EmptyRange \in Ranges /\ EmptyRange.len = 0
  BY DEF SliceTo, MkRange, EmptyRange, Ranges, DiffRange
<1>2. Paired(o, t, len) =
        IF o.kind = "Equal"
        THEN IF t.kind = "Equal" THEN Range3("Equal", a, our, their)
                                 ELSE Range3("AncestorOurs", a, our, EmptyRange)
        ELSE IF t.kind = "Equal" THEN Range3("AncestorTheirs", a, EmptyRange, their)
                                 ELSE Range3("Ancestor", a, EmptyRange, EmptyRange)
  BY DEF Paired
<1> HIDE DEF a, our, their
<1>3. CASE o.kind = "Equal" /\ t.kind = "Equal"
  <2> DEFINE m == Range3("Equal", a, our, their)
  <2>1. Paired(o, t, len) = m
    BY <1>2, <1>3
  <2>2. m.kind = "Equal" /\ m.ancestor = a /\ m.ours = our /\ m.theirs = their /\ m \in Ranges3
    BY <1>1 DEF Range3, Ranges3, Kinds3
  <2> HIDE DEF m
  <2>3. Shape(m)
    BY <2>2 DEF Shape
  <2> QED
    BY <1>1, <1>3, <2>1, <2>2, <2>3
<1>4. CASE o.kind = "Equal" /\ t.kind = "Delete"
  <2> DEFINE m == Range3("AncestorOurs", a, our, EmptyRange)
  <2>1. Paired(o, t, len) = m
    BY <1>2, <1>4
  <2>2. /\ m.kind = "AncestorOurs" /\ m.ancestor = a /\ m.ours = our /\ m.theirs = EmptyRange
        /\ m["theirs"] = EmptyRange /\ m \in Ranges3
    BY <1>1 DEF Range3, Ranges3, Kinds3
  <2> HIDE DEF m
  <2>3. Shape(m)
    BY <1>1, <2>2 DEF Shape, SidesOf, Sides
  <2> QED
    BY <1>1, <1>4, <2>1, <2>2, <2>3
<1>5. CASE o.kind = "Delete" /\ t.kind = "Equal"
  <2> DEFINE m == Range3("AncestorTheirs", a, EmptyRange, their)
  <2>1. Paired(o, t, len) = m
    BY <1>2, <1>5
  <2>2. /\ m.kind = "AncestorTheirs" /\ m.ancestor = a /\ m.ours = EmptyRange /\ m.theirs = their
        /\ m["ours"] = EmptyRange /\ m \in Ranges3
    BY <1>1 DEF Range3, Ranges3, Kinds3
  <2> HIDE DEF m
  <2>3. Shape(m)
    BY <1>1, <2>2 DEF Shape, SidesOf, Sides
  <2> QED
    BY <1>1, <1>5, <2>1, <2>2, <2>3
<1>6. CASE o.kind = "Delete" /\ t.kind = "Delete"
  <2> DEFINE m == Range3("Ancestor", a, EmptyRange, EmptyRange)
  <2>1. Paired(o, t, len) = m
    BY <1>2, <1>6
  <2>2. /\ m.kind = "Ancestor" /\ m.ancestor = a /\ m.ours = EmptyRange /\ m.theirs = EmptyRange
        /\ m \in Ranges3
    BY <1>1 DEF Range3, Ranges3, Kinds3
  <2> HIDE DEF m
  <2>3. Shape(m)
    BY <1>1, <2>2 DEF Shape, SidesOf, Sides
  <2> QED
    BY <1>1, <1>6, <2>1, <2>2, <2>3
<1> QED
  BY <1>3, <1>4, <1>5, <1>6

(* Both items are about the same lines of the ancestor; the shorter one is
   consumed and the longer one shrinks. *)
LEMMA PairMInv ==
  ASSUME MInv, Pair
  PROVE  MInv'
<1> DEFINE o == ourItem[1]
           t == theirItem[1]
           len == Min2(o.old.len, t.old.len)
           m == Paired(o, t, len)
           x == EndOf(walk, "ancestor")
           y == EndOf(walk, "ours")
           z == EndOf(walk, "theirs")
<1>1. /\ Walking /\ ourItem # None /\ theirItem # None /\ stage = "walk"
      /\ o.kind \in {"Equal", "Delete"} /\ t.kind \in {"Equal", "Delete"}
      /\ Consume(Some(ShrunkFront(o, len)), Some(ShrunkFront(t, len)), m)
  BY DEF Pair, Is, Walking
<1>2. x \in Nat /\ y \in Nat /\ z \in Nat
  BY <1>1, WhileWalking
<1>3. Rest(ourItem, ourNext, ourSolution, x, y) /\ Rest(theirItem, theirNext, theirSolution, x, z)
  BY <1>1, WhileWalking DEF StandsAt
<1> HIDE DEF x, y, z
<1>4. /\ o \in DiffRange /\ (InOld(o) => o.old.offset = x) /\ (InNew(o) => o.new.offset = y)
      /\ t \in DiffRange /\ (InOld(t) => t.old.offset = x) /\ (InNew(t) => t.new.offset = z)
  BY <1>1, <1>3 DEF Rest
<1>5. len \in Nat /\ len <= o.old.len /\ len <= t.old.len
  <2>1. o.old.len \in Nat /\ t.old.len \in Nat
    BY <1>4, ItemLens
  <2> QED
    BY <2>1 DEF Min2
<1>6. /\ Rest(Some(ShrunkFront(o, len)), ourNext, ourSolution,
              x + len, y + (IF o.kind = "Equal" THEN len ELSE 0))
      /\ Rest(Some(ShrunkFront(t, len)), theirNext, theirSolution,
              x + len, z + (IF t.kind = "Equal" THEN len ELSE 0))
  <2> HIDE DEF len
  <2> QED
    BY <1>1, <1>2, <1>3, <1>5, ShrunkRest
<1> HIDE DEF o, t, len
<1>7. /\ Shape(m)
      /\ m.ancestor.len = len /\ m.ancestor.offset = o.old.offset
      /\ m.ours.len = IF o.kind = "Equal" THEN len ELSE 0
      /\ m.ours.len # 0 => m.ours.offset = o.new.offset
      /\ m.theirs.len = IF t.kind = "Equal" THEN len ELSE 0
      /\ m.theirs.len # 0 => m.theirs.offset = t.new.offset
  BY <1>1, <1>4, <1>5, PairedFacts
<1> HIDE DEF m
<1>8. FitsOn(m)
  BY <1>1, <1>4, <1>7 DEF FitsOn, InOld, InNew, x, y, z
<1>9. OnBy(Some(ShrunkFront(o, len)), Some(ShrunkFront(t, len)), m)
  BY <1>6, <1>7 DEF OnBy, x, y, z
<1> QED
  BY <1>1, <1>8, <1>9, WalkOn

-----------------------------------------------------------------------------
(* From the walk on *)

(* What the stages after the walk leave as it is. *)
LEMMA AfterWalk ==
  ASSUME MInv, stage # "walk", stage' # "walk", UNCHANGED <<inputs, walkVars>>
  PROVE  WalkInv' /\ Given'
<1>1. UNCHANGED <<ancestor, ours, theirs, ourSolution, theirSolution, walk>>
  BY DEF inputs, walkVars
<1>2. ASSUME NEW side PROVE TextOf(side)' = TextOf(side)
  BY <1>1 DEF TextOf
<1> QED
  BY <1>1, <1>2 DEF MInv, WalkInv, Given

(* Both diffs are used up, so the ranges account for all three texts. *)
LEMMA EndWalkMInv ==
  ASSUME MInv, EndWalk
  PROVE  MInv'
<1>1. /\ ourItem = None /\ theirItem = None /\ stage = "walk" /\ stage' = "gather" /\ at' = 1
      /\ UNCHANGED <<inputs, walkVars, output, conflicts, region, merged>>
  BY DEF EndWalk, StartStage
<1>2. UNCHANGED <<ancestor, ours, theirs, ourSolution, theirSolution, walk,
                   ourNext, theirNext, ourItem, theirItem>>
  BY <1>1 DEF inputs, walkVars
<1>3. region = NoRegion /\ merged = <<>> /\ walk \in Seq(Ranges3)
  BY <1>1 DEF MInv, WalkInv
<1>4. /\ EndOf(walk, "ancestor") = Len(ancestor) /\ EndOf(walk, "ours") = Len(ours)
      /\ EndOf(walk, "theirs") = Len(theirs)
  BY <1>1, WhileWalking, StandsInText
<1>5. ASSUME NEW side \in Sides PROVE EndOf(walk, side) = Len(TextOf(side))
  BY <1>4 DEF Sides, TextOf
<1>6. ASSUME NEW side PROVE TextOf(side)' = TextOf(side)
  BY <1>2 DEF TextOf
<1>7. WalkInv'
  BY <1>1, <1>2, <1>5, <1>6 DEF MInv, WalkInv
<1>8. GatherInv'
  <2>1. DOMAIN NoRegion = Sides /\ NoRegion.ancestor = None /\ \A side \in Sides : NoRegion[side] = None
    BY DEF NoRegion, Sides
  <2>2. ASSUME NEW side \in Sides
        PROVE  Tiled(<<>>, side) /\ Bridges(None, EndOf(<<>>, side), Place(walk, side, 0))
    BY <1>3, TiledEmpty, PlaceFacts DEF Bridges
  <2>3. 1 <= Len(walk) + 1 /\ 1 - 1 = 0
    BY <1>3
  <2> QED
    BY <1>1, <1>2, <1>3, <2>1, <2>2, <2>3 DEF GatherInv
<1>9. TypeOK' /\ Given' /\ MergedInv'
  BY <1>1, <1>2 DEF MInv, TypeOK, Given, MergedInv
<1> QED
  BY <1>7, <1>8, <1>9 DEF MInv

(* A list and one more range. *)
LEMMA AppendIsJoin ==
  ASSUME NEW T, NEW rs \in Seq(T), NEW m \in T
  PROVE  rs \o <<m>> = Append(rs, m) /\ Append(rs, m) \in Seq(T) /\ rs \o <<>> = rs
OBVIOUS

(* What a region may hold when a range is made of it, after the ranges rs. *)
RegionFits(r, rs) ==
  /\ DOMAIN r = Sides
  /\ \A side \in Sides : r[side] # None => r[side][1] \in Ranges
  /\ r.ancestor # None => r.ours # None \/ r.theirs # None
  /\ rs \in Seq(Ranges3) /\ \A side \in Sides : Tiled(rs, side)

(* A region that becomes a range, or is dropped because it takes nothing of
   either side, is the next tile on all three sides. *)
LEMMA RegionMerges ==
  ASSUME NEW r, NEW rs, RegionFits(r, rs), NEW place,
         \A side \in Sides : Bridges(r[side], EndOf(rs, side), place[side])
  PROVE  /\ rs \o CreateMergeRange(r) \in Seq(Ranges3)
         /\ \A side \in Sides : /\ Tiled(rs \o CreateMergeRange(r), side)
                                /\ EndOf(rs \o CreateMergeRange(r), side) = place[side]
<1>1. rs \in Seq(Ranges3) /\ \A side \in Sides : Tiled(rs, side) /\ EndOf(rs, side) \in Nat
  <2>1. rs \in Seq(Ranges3) /\ Len(rs) \in 0..Len(rs)
    BY DEF RegionFits
  <2> QED
    BY <2>1, PlaceFacts DEF RegionFits, EndOf
<1> DEFINE has == {side \in DOMAIN r : r[side] # None}
<1>2. CASE has \subseteq {"ancestor"}
  <2>1. \A side \in Sides : r[side] = None
    BY <1>2 DEF RegionFits, Sides
  <2>2. \A side \in Sides : EndOf(rs, side) = place[side]
    BY <2>1 DEF Bridges
  <2>3. CreateMergeRange(r) = <<>>
    BY <1>2 DEF CreateMergeRange
  <2>4. rs \o <<>> = rs
    BY <1>1
  <2> QED
    BY <1>1, <2>2, <2>3, <2>4
<1>3. CASE ~(has \subseteq {"ancestor"})
  <2>1. PICK kind \in {"Ours", "Theirs", "Conflict"} :
          CreateMergeRange(r) = <<Range3(kind, OrEmpty(r.ancestor), OrEmpty(r.ours), OrEmpty(r.theirs))>>
    BY <1>3 DEF CreateMergeRange
  <2> DEFINE m == Range3(kind, OrEmpty(r.ancestor), OrEmpty(r.ours), OrEmpty(r.theirs))
  <2>2. \A side \in Sides : m[side] = OrEmpty(r[side])
    BY DEF Range3, Sides
  <2>3. ASSUME NEW side \in Sides
        PROVE  /\ OrEmpty(r[side]) \in Ranges
               /\ OrEmpty(r[side]).len # 0 => OrEmpty(r[side]).offset = EndOf(rs, side)
               /\ EndOf(rs, side) + OrEmpty(r[side]).len = place[side]
    <3>1. CASE r[side] = None
      BY <1>1, <3>1 DEF OrEmpty, EmptyRange, MkRange, Ranges, Bridges
    <3>2. CASE r[side] # None
      BY <3>2 DEF OrEmpty, RegionFits, Bridges
    <3> QED
      BY <3>1, <3>2
  <2>4. m \in Ranges3
    <3>1. OrEmpty(r.ancestor) \in Ranges /\ OrEmpty(r.ours) \in Ranges /\ OrEmpty(r.theirs) \in Ranges
      BY <2>3 DEF Sides
    <3> QED
      BY <3>1 DEF Range3, Ranges3, Kinds3
  <2> HIDE DEF m
  <2>5. ASSUME NEW side \in Sides
        PROVE  Tiled(Append(rs, m), side) /\ EndOf(Append(rs, m), side) = place[side]
    <3>1. m[side].len # 0 => m[side].offset = EndOf(rs, side)
      BY <2>2, <2>3
    <3>2. EndOf(rs, side) + m[side].len = place[side]
      BY <2>2, <2>3
    <3> QED
      BY <1>1, <2>4, <3>1, <3>2, TiledAppend
  <2>6. rs \o <<m>> = Append(rs, m) /\ Append(rs, m) \in Seq(Ranges3)
    BY <1>1, <2>4, AppendIsJoin
  <2>7. CreateMergeRange(r) = <<m>>
    BY <2>1 DEF m
  <2> QED
    BY <2>5, <2>6, <2>7
<1> QED
  BY <1>2, <1>3

(* While regions are gathered. *)
LEMMA WhileGathering ==
  ASSUME MInv, stage = "gather"
  PROVE  /\ RegionFits(region, merged)
         /\ walk \in Seq(Ranges3) /\ Len(walk) \in Nat /\ at \in 1..Len(walk) + 1
         /\ \A side \in Sides : Bridges(region[side], EndOf(merged, side), Place(walk, side, at - 1))
<1>1. merged \in Seq(Ranges3) /\ at \in Nat \ {0} /\ walk \in Seq(Ranges3)
  BY DEF MInv, TypeOK, WalkInv
<1>2. at <= Len(walk) + 1 /\ DOMAIN region = Sides
  BY DEF MInv, GatherInv
<1>3. \A side \in Sides : region[side] # None => region[side][1] \in Ranges
  BY <1>2 DEF MInv, TypeOK
<1>4. \A side \in Sides : Tiled(merged, side)
  BY DEF MInv, GatherInv
<1>5. region.ancestor # None => region.ours # None \/ region.theirs # None
  BY DEF MInv, GatherInv
<1>6. RegionFits(region, merged)
  BY <1>1, <1>2, <1>3, <1>4, <1>5 DEF RegionFits
<1>7. \A side \in Sides : Bridges(region[side], EndOf(merged, side), Place(walk, side, at - 1))
  BY DEF MInv, GatherInv
<1> QED
  BY <1>1, <1>2, <1>6, <1>7

(* The open region is closed; the equal range is the next tile after it. *)
LEMMA GatherEqualMInv ==
  ASSUME MInv, GatherEqual
  PROVE  MInv'
<1> DEFINE rs == merged \o CreateMergeRange(region)
           m == walk[at]
<1>1. /\ stage = "gather" /\ stage' = "gather" /\ at <= Len(walk) /\ at' = at + 1
      /\ m.kind = "Equal" /\ region' = NoRegion /\ merged' = rs \o <<m>>
      /\ UNCHANGED <<inputs, walkVars, output, conflicts>>
  BY DEF GatherEqual, Gathering
<1>2. /\ RegionFits(region, merged)
      /\ walk \in Seq(Ranges3) /\ Len(walk) \in Nat /\ at \in 1..Len(walk) + 1
      /\ \A side \in Sides : Bridges(region[side], EndOf(merged, side), Place(walk, side, at - 1))
  BY <1>1, WhileGathering
<1> DEFINE place == [side \in Sides |-> Place(walk, side, at - 1)]
<1>3. \A side \in Sides : Bridges(region[side], EndOf(merged, side), place[side])
  BY <1>2
<1> HIDE DEF place
<1>4. rs \in Seq(Ranges3) /\ \A side \in Sides : Tiled(rs, side) /\ EndOf(rs, side) = place[side]
  BY <1>2, <1>3, RegionMerges
<1> HIDE DEF rs
<1>5. at \in 1..Len(walk) /\ m \in Ranges3
  BY <1>1, <1>2
<1> HIDE DEF m
<1>6. merged' = Append(rs, m) /\ merged' \in Seq(Ranges3)
  BY <1>1, <1>4, <1>5, AppendIsJoin
<1>7. ASSUME NEW side \in Sides
      PROVE  Tiled(merged', side) /\ EndOf(merged', side) = Place(walk, side, at)
  <2>1. /\ m[side] = walk[at][side]
        /\ place[side] = Place(walk, side, at - 1)
    BY DEF m, place
  <2>2. walk[at][side].len # 0 => walk[at][side].offset = Place(walk, side, at - 1)
    BY <1>5 DEF MInv, WalkInv, Tiled
  <2>3. Place(walk, side, at) = Place(walk, side, at - 1) + walk[at][side].len
    BY <1>2, <1>5, PlaceFacts
  <2>4. Tiled(rs, side) /\ (m[side].len # 0 => m[side].offset = EndOf(rs, side))
    BY <1>4, <2>1, <2>2
  <2>5. Tiled(Append(rs, m), side) /\ EndOf(Append(rs, m), side) = EndOf(rs, side) + m[side].len
    BY <1>4, <1>5, <2>4, TiledAppend
  <2> QED
    BY <1>4, <1>6, <2>1, <2>3, <2>5
<1>8. UNCHANGED <<ancestor, ours, theirs, ourSolution, theirSolution, walk, ourNext, theirNext,
                   ourItem, theirItem, conflicts>>
  BY <1>1 DEF inputs, walkVars
<1>9. WalkInv' /\ Given'
  BY <1>1, AfterWalk
<1>10. NoRegion.ancestor = None /\ DOMAIN NoRegion = Sides /\ \A side \in Sides : NoRegion[side] = None
  BY DEF NoRegion, Sides
<1>11. GatherInv'
  <2>1. at' <= Len(walk) + 1 /\ at' - 1 = at
    BY <1>1, <1>5
  <2>2. \A side \in Sides : Bridges(NoRegion[side], EndOf(merged', side), Place(walk, side, at))
    BY <1>7, <1>10 DEF Bridges
  <2> QED
    BY <1>1, <1>7, <1>8, <1>10, <2>1, <2>2 DEF GatherInv
<1>12. TypeOK'
  <2>1. at' \in Nat \ {0}
    BY <1>1, <1>5
  <2> QED
    BY <1>1, <1>6, <1>8, <1>10, <2>1 DEF MInv, TypeOK
<1>13. MergedInv'
  BY <1>1 DEF MergedInv
<1> QED
  BY <1>9, <1>11, <1>12, <1>13 DEF MInv

(* One more range in the region. *)
LEMMA BridgesOn ==
  ASSUME NEW range, NEW next \in Ranges, NEW x \in Nat, NEW y \in Nat, Bridges(range, x, y),
         next.len # 0 => next.offset = y
  PROVE  /\ Bridges(SetOrMerge(range, next), x, y + next.len)
         /\ SetOrMerge(range, next) # None /\ SetOrMerge(range, next)[1] \in Ranges
         /\ Joins(range, next)
<1>1. next.len \in Nat /\ next.offset \in Nat /\ <<next>> # None /\ <<next>>[1] = next
  BY DEF Ranges, None
<1>2. CASE range = None \/ range[1].len = 0
  <2>1. SetOrMerge(range, next) = <<next>>
    BY <1>2 DEF SetOrMerge, Some
  <2>2. x = y
    BY <1>2 DEF Bridges, Ranges
  <2>3. Bridges(<<next>>, x, y + next.len)
    BY <1>1, <2>2 DEF Bridges
  <2>4. Joins(range, next)
    BY <1>2 DEF Joins
  <2> QED
    BY <1>1, <2>1, <2>3, <2>4
<1>3. CASE range # None /\ range[1].len # 0
  <2> DEFINE r == range[1]
             g == GrowDown(r, next.len)
  <2>1. r \in Ranges /\ x + r.len = y /\ r.offset = x
    BY <1>3 DEF Bridges
  <2>2. SetOrMerge(range, next) = <<g>>
    BY <1>3 DEF SetOrMerge, Some
  <2>3. g \in Ranges /\ g.offset = x /\ g.len = r.len + next.len /\ r.len \in Nat
    BY <1>1, <2>1 DEF GrowDown, MkRange, Ranges
  <2> HIDE DEF g
  <2>4. <<g>> # None /\ <<g>>[1] = g
    BY DEF None
  <2>5. Bridges(<<g>>, x, y + next.len)
    BY <1>1, <2>1, <2>3, <2>4 DEF Bridges
  <2>6. Joins(range, next)
    BY <2>1 DEF Joins, RangeEnd
  <2> QED
    BY <2>2, <2>3, <2>4, <2>5, <2>6
<1> QED
  BY <1>2, <1>3

(* The change is joined to the region, which stays a bridge to where the
   ranges gathered so far lead. *)
LEMMA GatherChangeMInv ==
  ASSUME MInv, GatherChange
  PROVE  MInv'
<1> DEFINE m == walk[at]
           sides == SidesOf(m.kind)
<1>1. /\ stage = "gather" /\ stage' = "gather" /\ at <= Len(walk) /\ at' = at + 1
      /\ m.kind # "Equal" /\ merged' = merged
      /\ region' = [side \in DOMAIN region |->
                      IF side \in sides THEN SetOrMerge(region[side], m[side]) ELSE region[side]]
      /\ UNCHANGED <<inputs, walkVars, output, conflicts>>
  BY DEF GatherChange, Gathering
<1>2. /\ RegionFits(region, merged)
      /\ walk \in Seq(Ranges3) /\ Len(walk) \in Nat /\ at \in 1..Len(walk) + 1
      /\ \A side \in Sides : Bridges(region[side], EndOf(merged, side), Place(walk, side, at - 1))
  BY <1>1, WhileGathering
<1>3. at \in 1..Len(walk) /\ at \in 0..Len(walk) /\ at - 1 \in 0..Len(walk) /\ m \in Ranges3
  BY <1>1, <1>2
<1>4. Shape(m)
  BY <1>3 DEF MInv, WalkInv
<1>5. DOMAIN region = Sides
  BY <1>2 DEF RegionFits
<1>6. ASSUME NEW side \in Sides
      PROVE  /\ Bridges(region'[side], EndOf(merged, side), Place(walk, side, at))
             /\ region'[side] # None => region'[side][1] \in Ranges
             /\ side \in sides => region'[side] # None
             /\ side \notin sides => region'[side] = region[side]
  <2> DEFINE x == EndOf(merged, side)
             y == Place(walk, side, at - 1)
  <2>1. Bridges(region[side], x, y)
    BY <1>2
  <2>2. /\ m[side] \in Ranges /\ m[side].len \in Nat
        /\ y \in Nat /\ Place(walk, side, at) = y + m[side].len
    <3>1. /\ \A n \in 0..Len(walk) : Place(walk, side, n) \in Nat
          /\ \A n \in 1..Len(walk) :
               walk[n][side] \in Ranges /\ Place(walk, side, n) = Place(walk, side, n - 1) + walk[n][side].len
      BY <1>2, PlaceFacts
    <3> QED
      BY <1>3, <3>1 DEF Ranges
  <2>3. x \in Nat
    <3>1. merged \in Seq(Ranges3) /\ Len(merged) \in 0..Len(merged)
      BY <1>2 DEF RegionFits
    <3> QED
      BY <3>1, PlaceFacts DEF EndOf
  <2>4. m[side].len # 0 => m[side].offset = y
    BY <1>3 DEF MInv, WalkInv, Tiled
  <2> HIDE DEF x, y, m
  <2>5. CASE side \in sides
    <3>1. region'[side] = SetOrMerge(region[side], m[side])
      BY <1>1, <1>5, <2>5
    <3>2. /\ Bridges(SetOrMerge(region[side], m[side]), x, y + m[side].len)
          /\ SetOrMerge(region[side], m[side]) # None /\ SetOrMerge(region[side], m[side])[1] \in Ranges
      BY <2>1, <2>2, <2>3, <2>4, BridgesOn
    <3> QED
      BY <2>2, <2>5, <3>1, <3>2 DEF x
  <2>6. CASE side \notin sides
    <3>1. region'[side] = region[side]
      BY <1>1, <1>5, <2>6
    <3>2. m[side].len = 0
      BY <1>1, <1>4, <2>6 DEF Shape
    <3>3. Place(walk, side, at) = y
      BY <2>2, <3>2
    <3>4. region[side] # None => region[side][1] \in Ranges
      BY <1>2 DEF RegionFits
    <3> QED
      BY <2>1, <2>6, <3>1, <3>3, <3>4 DEF x
  <2> QED
    BY <2>5, <2>6
<1>7. UNCHANGED <<ancestor, ours, theirs, ourSolution, theirSolution, walk, ourNext, theirNext,
                   ourItem, theirItem, conflicts>>
  BY <1>1 DEF inputs, walkVars
<1>8. WalkInv' /\ Given'
  BY <1>1, AfterWalk
<1>9. DOMAIN region' = Sides
  BY <1>1, <1>5
<1>10. region'.ancestor # None => region'.ours # None \/ region'.theirs # None
  <2>1. "ancestor" \in Sides /\ "ours" \in Sides /\ "theirs" \in Sides
    BY DEF Sides
  <2>2. "ancestor" \in sides => "ours" \in sides \/ "theirs" \in sides
    BY DEF SidesOf
  <2>3. region.ancestor # None => region.ours # None \/ region.theirs # None
    BY <1>2 DEF RegionFits
  <2> HIDE DEF sides, m
  <2>4. region'["ancestor"] # None => region'["ours"] # None \/ region'["theirs"] # None
    BY <1>6, <2>1, <2>2, <2>3
  <2> QED
    BY <2>4
<1>11. GatherInv'
  <2>1. at' <= Len(walk) + 1 /\ at' - 1 = at
    BY <1>1, <1>3
  <2>2. \A side \in Sides : Tiled(merged, side)
    BY <1>2 DEF RegionFits
  <2>3. \A side \in Sides : Bridges(region'[side], EndOf(merged, side), Place(walk, side, at))
    BY <1>6
  <2> QED
    BY <1>1, <1>7, <1>9, <1>10, <2>1, <2>2, <2>3 DEF GatherInv
<1>12. TypeOK'
  <2>1. at' \in Nat \ {0}
    BY <1>1, <1>3
  <2>2. \A side \in DOMAIN region' : region'[side] # None => region'[side][1] \in Ranges
    BY <1>6, <1>9
  <2> QED
    BY <1>1, <1>7, <2>1, <2>2 DEF MInv, TypeOK
<1>13. MergedInv'
  BY <1>1 DEF MergedInv
<1> QED
  BY <1>8, <1>11, <1>12, <1>13 DEF MInv

(* The last region is closed; then all ranges have been gathered. *)
LEMMA EndGatherMInv ==
  ASSUME MInv, EndGather
  PROVE  MInv'
<1> DEFINE rs == merged \o CreateMergeRange(region)
<1>1. /\ stage = "gather" /\ stage' = "cleanup" /\ at > Len(walk) /\ at' = 1
      /\ region' = NoRegion /\ merged' = rs
      /\ UNCHANGED <<inputs, walkVars, output, conflicts>>
  BY DEF EndGather, StartStage
<1>2. /\ RegionFits(region, merged)
      /\ walk \in Seq(Ranges3) /\ Len(walk) \in Nat /\ at \in 1..Len(walk) + 1
      /\ \A side \in Sides : Bridges(region[side], EndOf(merged, side), Place(walk, side, at - 1))
  BY <1>1, WhileGathering
<1>3. at - 1 = Len(walk)
  BY <1>1, <1>2
<1> DEFINE place == [side \in Sides |-> EndOf(walk, side)]
<1>4. \A side \in Sides : Bridges(region[side], EndOf(merged, side), place[side])
  BY <1>2, <1>3 DEF EndOf
<1> HIDE DEF place
<1>5. rs \in Seq(Ranges3) /\ \A side \in Sides : Tiled(rs, side) /\ EndOf(rs, side) = place[side]
  BY <1>2, <1>4, RegionMerges
<1> HIDE DEF rs
<1>6. \A side \in Sides : place[side] = Len(TextOf(side))
  BY <1>1 DEF MInv, WalkInv, place
<1>7. UNCHANGED <<ancestor, ours, theirs, ourSolution, theirSolution, walk, ourNext, theirNext,
                   ourItem, theirItem, conflicts>>
  BY <1>1 DEF inputs, walkVars
<1>8. WalkInv' /\ Given'
  BY <1>1, AfterWalk
<1>9. ASSUME NEW side PROVE TextOf(side)' = TextOf(side)
  BY <1>7 DEF TextOf
<1>10. MergedInv' /\ GatherInv'
  BY <1>1, <1>5, <1>6, <1>9 DEF MergedInv, GatherInv
<1>11. TypeOK'
  <2>1. \A side \in DOMAIN NoRegion : NoRegion[side] = None
    BY DEF NoRegion
  <2> QED
    BY <1>1, <1>5, <1>7, <2>1 DEF MInv, TypeOK
<1> QED
  BY <1>8, <1>10, <1>11 DEF MInv

(* A settled conflict is a range again. *)
LEMMA CleanedType ==
  ASSUME NEW m \in Ranges3
  PROVE  Cleaned(m) \in Ranges3
<1>1. EmptyRange \in Ranges /\ m.ours \in Ranges /\ m.theirs \in Ranges
  BY DEF EmptyRange, MkRange, Ranges, Ranges3
<1> DEFINE both == Range3("Both", EmptyRange, m.ours, m.theirs)
           t == Range3("Theirs", EmptyRange, EmptyRange, m.theirs)
           o == Range3("Ours", EmptyRange, m.ours, EmptyRange)
<1>2. both \in Ranges3 /\ t \in Ranges3 /\ o \in Ranges3
  BY <1>1 DEF Range3, Ranges3, Kinds3
<1>3. Cleaned(m) \in {m, both, t, o}
  <2>1. CASE m.kind # "Conflict"
    BY <2>1 DEF Cleaned
  <2>2. CASE m.kind = "Conflict"
    <3> HIDE DEF both, t, o
    <3>1. Cleaned(m) = IF AsSlice(ours, m.ours) = AsSlice(theirs, m.theirs) THEN both
                       ELSE IF AsSlice(ancestor, m.ancestor) = AsSlice(ours, m.ours) THEN t
                       ELSE IF AsSlice(ancestor, m.ancestor) = AsSlice(theirs, m.theirs) THEN o
                       ELSE m
      BY <2>2, Zenon DEF Cleaned, both, t, o
    <3> QED
      BY <3>1
  <2> QED
    BY <2>1, <2>2
<1> HIDE DEF both, t, o
<1> QED
  BY <1>2, <1>3

(* A conflict that is settled keeps the range of every side. *)
LEMMA CleanupMInv ==
  ASSUME MInv, Cleanup
  PROVE  MInv'
<1>1. /\ stage = "cleanup" /\ stage' = "cleanup" /\ at <= Len(merged) /\ at' = at + 1
      /\ merged' = [merged EXCEPT ![at] = Cleaned(merged[at])]
      /\ UNCHANGED <<inputs, walkVars, region, output, conflicts>>
  BY DEF Cleanup
<1>2. merged \in Seq(Ranges3) /\ at \in Nat \ {0}
  BY DEF MInv, TypeOK
<1>3. at \in 1..Len(merged) /\ merged[at] \in Ranges3
  BY <1>1, <1>2
<1>4. Cleaned(merged[at]) \in Ranges3
  BY <1>3, CleanedType
<1>5. merged' \in Seq(Ranges3)
  BY <1>1, <1>2, <1>3, <1>4
<1>6. UNCHANGED <<ancestor, ours, theirs, ourSolution, theirSolution, walk, ourNext, theirNext,
                   ourItem, theirItem>>
  BY <1>1 DEF inputs, walkVars
<1>7. WalkInv' /\ Given'
  BY <1>1, AfterWalk
<1>8. at' \in Nat \ {0} /\ at' # 1
  BY <1>1, <1>2
<1>9. TypeOK'
  BY <1>1, <1>5, <1>6, <1>8 DEF MInv, TypeOK
<1>10. GatherInv' /\ MergedInv'
  BY <1>1, <1>8 DEF GatherInv, MergedInv
<1> QED
  BY <1>7, <1>9, <1>10 DEF MInv

(* The stages after that, which only read the ranges. *)
LEMMA OutputMInv ==
  ASSUME MInv, EndCleanup \/ Output \/ Return
  PROVE  MInv'
<1>1. /\ stage \in {"cleanup", "output"} /\ stage' \in {"output", "done"}
      /\ UNCHANGED <<inputs, walkVars, region, merged>>
      /\ at' = 1 \/ at' = at + 1
      /\ conflicts' \in {conflicts, conflicts + 1, conflicts + 0}
  BY DEF EndCleanup, Output, Return, StartStage
<1>2. UNCHANGED <<ancestor, ours, theirs, ourSolution, theirSolution, walk, ourNext, theirNext,
                   ourItem, theirItem>>
  BY <1>1 DEF inputs, walkVars
<1>3. WalkInv' /\ Given'
  BY <1>1, AfterWalk
<1>4. at' \in Nat \ {0} /\ conflicts' \in Nat
  BY <1>1 DEF MInv, TypeOK
<1>5. TypeOK'
  BY <1>1, <1>2, <1>4 DEF MInv, TypeOK
<1>6. GatherInv' /\ MergedInv'
  BY <1>1 DEF GatherInv, MergedInv
<1> QED
  BY <1>3, <1>5, <1>6 DEF MInv

(* Every step keeps the invariant, ... *)
LEMMA NextMInv ==
  ASSUME MInv, [Next]_mvars
  PROVE  MInv'
<1>1. CASE Next
  BY <1>1, TakeOursMInv, TakeTheirsMInv, PairMInv, EndWalkMInv, GatherEqualMInv, GatherChangeMInv,
     EndGatherMInv, CleanupMInv, OutputMInv DEF Next
<1>2. CASE UNCHANGED mvars
  <2>1. UNCHANGED <<ancestor, ours, theirs, ourSolution, theirSolution, stage, ourNext, theirNext,
                    ourItem, theirItem, walk, at, region, merged, output, conflicts>>
    BY <1>2 DEF mvars, inputs, walkVars
  <2>2. ASSUME NEW side PROVE TextOf(side)' = TextOf(side)
    BY <2>1 DEF TextOf
  <2> QED
    BY <2>1, <2>2 DEF MInv, TypeOK, Given, WalkInv, GatherInv, MergedInv
<1> QED
  BY <1>1, <1>2

(* ... so it holds always. *)
LEMMA MInvHolds == Spec => []MInv
BY InitMInv, NextMInv, PTL DEF Spec

-----------------------------------------------------------------------------
(* What follows *)

(***************************************************************************)
(* The cursors, the offsets of all ranges and the gathered region stay     *)
(* what their types say: no subtraction of lengths goes below zero.        *)
(***************************************************************************)
THEOREM MergeTypeCorrect == Spec => []TypeOK
<1>1. MInv => TypeOK
  BY DEF MInv
<1> QED
  BY <1>1, MInvHolds, PTL

(***************************************************************************)
(* Whatever the texts and the two diffs of them are, the merge ranges      *)
(* that the walk leads to account for every line of the three texts        *)
(* exactly once and in order.                                              *)
(***************************************************************************)
THEOREM MergeLosesNothing == Spec => []LosesNothing
<1>1. ASSUME MInv, stage = "cleanup", at = 1, NEW side \in Sides, NEW text, text = TextOf(side)
      PROVE  FlattenSeq([n \in DOMAIN merged |-> AsSlice(text, merged[n][side])]) = text
  <2>1. text \in Seq(Symbol)
    <3>1. <<ancestor, ours, theirs>> \in Seq(Symbol) \X Seq(Symbol) \X Seq(Symbol)
      BY <1>1, MergeAssumption DEF MInv, Given
    <3> QED
      BY <1>1, <3>1 DEF TextOf
  <2>2. Tiled(merged, side) /\ EndOf(merged, side) = Len(text)
    BY <1>1 DEF MInv, MergedInv
  <2>3. merged \in Seq(Ranges3)
    BY <1>1 DEF MInv, TypeOK
  <2> QED
    BY <2>1, <2>2, <2>3, TilesMakeText
<1>2. MInv => LosesNothing
  <2> SUFFICES ASSUME MInv, stage = "cleanup", at = 1
               PROVE  /\ Concatenated(ancestor, "ancestor") = ancestor
                      /\ Concatenated(ours, "ours") = ours
                      /\ Concatenated(theirs, "theirs") = theirs
    BY DEF LosesNothing
  <2>1. /\ "ancestor" \in Sides /\ ancestor = TextOf("ancestor")
        /\ "ours" \in Sides /\ ours = TextOf("ours")
        /\ "theirs" \in Sides /\ theirs = TextOf("theirs")
    BY DEF Sides, TextOf
  <2>2. Concatenated(ancestor, "ancestor") = ancestor
    BY <1>1, <2>1 DEF Concatenated
  <2>3. Concatenated(ours, "ours") = ours
    BY <1>1, <2>1 DEF Concatenated
  <2>4. Concatenated(theirs, "theirs") = theirs
    BY <1>1, <2>1 DEF Concatenated
  <2> QED
    BY <2>2, <2>3, <2>4
<1> QED
  BY <1>2, MInvHolds, PTL

(***************************************************************************)
(* The panics of the walk and of the gathering are out of reach: with the  *)
(* inserts taken, either both diffs are used up or both are at an Equal or *)
(* a Delete, at the same place in the ancestor (the unreachable!() and the *)
(* assertions of merge_solutions); and a range of the walk is adjacent to  *)
(* what is in the region already (the assertion of set_or_merge_range).    *)
(***************************************************************************)
WalkStands ==
  stage = "walk" =>
    \/ ourItem = None /\ theirItem = None
    \/ Is(ourItem, {"Insert"}) \/ Is(theirItem, {"Insert"})
    \/ /\ Is(ourItem, {"Equal", "Delete"}) /\ Is(theirItem, {"Equal", "Delete"})
       /\ ourItem[1].old.offset = theirItem[1].old.offset

GatherStands ==
  stage = "gather" /\ at <= Len(walk) =>
    \A side \in SidesOf(walk[at].kind) : Joins(region[side], walk[at][side])

NeverPanics == WalkStands /\ GatherStands

(* In no state of the merge does one of these panics stand next. *)
THEOREM MergeNeverPanics == Spec => []NeverPanics
<1>1. ASSUME MInv PROVE WalkStands
  <2> SUFFICES ASSUME stage = "walk", ~(ourItem = None /\ theirItem = None),
                      ~Is(ourItem, {"Insert"}), ~Is(theirItem, {"Insert"})
               PROVE  /\ Is(ourItem, {"Equal", "Delete"}) /\ Is(theirItem, {"Equal", "Delete"})
                      /\ ourItem[1].old.offset = theirItem[1].old.offset
    BY DEF WalkStands
  <2> DEFINE x == EndOf(walk, "ancestor")
             y == EndOf(walk, "ours")
             z == EndOf(walk, "theirs")
  <2>1. /\ x \in Nat /\ y \in Nat /\ z \in Nat
        /\ Fits(ourSolution, ancestor, ours) /\ Fits(theirSolution, ancestor, theirs)
        /\ StandsAt(ourItem, ourNext, ourSolution, x, y)
        /\ StandsAt(theirItem, theirNext, theirSolution, x, z)
    BY <1>1, WhileWalking
  <2> HIDE DEF x, y, z
  <2>2. ASSUME NEW item, NEW n, NEW ds, NEW s, NEW t, NEW v \in Nat, item # None,
               Fits(ds, s, t), StandsAt(item, n, ds, x, v), ~Is(item, {"Insert"})
        PROVE  /\ Is(item, {"Equal", "Delete"}) /\ item[1].old.offset = x /\ x < Len(s)
    <3>1. item[1] \in DiffRange /\ x + OldLen(item[1]) <= Len(s) /\ LenOf(item[1]) # 0
      BY <2>1, <2>2, StandsInText
    <3>2. item[1].kind \in {"Equal", "Delete"}
      BY <2>2, <3>1 DEF Is, DiffRange
    <3>3. item[1].old.offset = x
      BY <2>2, <3>2 DEF StandsAt, Rest, InOld
    <3>4. OldLen(item[1]) \in Nat \ {0}
      BY <3>1, <3>2, ItemLens
    <3>5. x < Len(s)
      <4> DEFINE l == OldLen(item[1])
      <4>1. l \in Nat \ {0} /\ x \in Nat /\ Fits(ds, s, t) /\ x + l <= Len(s)
        BY <2>1, <2>2, <3>1, <3>4
      <4>2. Len(s) \in Nat
        <5>1. ds \in Seq(DiffRange) /\ Len(ds) \in 0..Len(ds) /\ OldUpTo(ds, Len(ds)) = Len(s)
          BY <2>2 DEF Fits
        <5> QED
          BY <5>1, UpToType
      <4> HIDE DEF l
      <4> QED
        BY <4>1, <4>2
    <3> QED
      BY <2>2, <3>2, <3>3, <3>5 DEF Is
  <2>3. ourItem # None => /\ Is(ourItem, {"Equal", "Delete"}) /\ ourItem[1].old.offset = x
                          /\ x < Len(ancestor)
    BY <2>1, <2>2
  <2>4. theirItem # None => /\ Is(theirItem, {"Equal", "Delete"}) /\ theirItem[1].old.offset = x
                            /\ x < Len(ancestor)
    BY <2>1, <2>2
  <2>5. (ourItem = None => x = Len(ancestor)) /\ (theirItem = None => x = Len(ancestor))
    BY <2>1, StandsInText
  <2>6. ourItem # None /\ theirItem # None
    BY <2>1, <2>3, <2>4, <2>5
  <2> QED
    BY <2>3, <2>4, <2>6
<1>2. ASSUME MInv PROVE GatherStands
  <2> SUFFICES ASSUME stage = "gather", at <= Len(walk), NEW side \in SidesOf(walk[at].kind)
               PROVE  Joins(region[side], walk[at][side])
    BY DEF GatherStands
  <2> DEFINE x == EndOf(merged, side)
             y == Place(walk, side, at - 1)
             next == walk[at][side]
  <2>1. side \in Sides
    BY DEF SidesOf, Sides
  <2>2. /\ RegionFits(region, merged) /\ walk \in Seq(Ranges3) /\ Len(walk) \in Nat
        /\ at \in 1..Len(walk) + 1 /\ Bridges(region[side], x, y)
    BY <1>2, <2>1, WhileGathering
  <2>3. at \in 1..Len(walk) /\ at - 1 \in 0..Len(walk)
    BY <2>2
  <2>4. y \in Nat /\ next \in Ranges
    BY <2>1, <2>2, <2>3, PlaceFacts
  <2>5. x \in Nat
    <3>1. merged \in Seq(Ranges3) /\ Len(merged) \in 0..Len(merged)
      BY <2>2 DEF RegionFits
    <3> QED
      BY <2>1, <3>1, PlaceFacts DEF EndOf
  <2>6. next.len # 0 => next.offset = y
    BY <1>2, <2>1, <2>3 DEF MInv, WalkInv, Tiled
  <2> HIDE DEF x, y, next
  <2>7. Joins(region[side], next)
    BY <2>2, <2>4, <2>5, <2>6, BridgesOn
  <2> QED
    BY <2>7 DEF next
<1>3. MInv => NeverPanics
  BY <1>1, <1>2 DEF NeverPanics
<1> QED
  BY <1>3, MInvHolds, PTL

-----------------------------------------------------------------------------
(* The lines that a diff matches *)

(* How far the items reach in the old text grows with their number. *)
LEMMA OldReachGrows ==
  ASSUME NEW ds \in Seq(DiffRange), NEW m \in 0..Len(ds), NEW n \in 0..Len(ds), m <= n
  PROVE  OldUpTo(ds, m) <= OldUpTo(ds, n)
<1> DEFINE S == {l \in Nat : m + l <= Len(ds) => OldUpTo(ds, m) <= OldUpTo(ds, m + l)}
<1>1. m \in Nat /\ n \in Nat /\ Len(ds) \in Nat /\ OldUpTo(ds, m) \in Nat /\ n <= Len(ds)
  BY UpToType
<1>2. 0 \in S
  BY <1>1
<1>3. ASSUME NEW l \in Nat, l \in S PROVE l + 1 \in S
  <2> SUFFICES ASSUME m + (l + 1) <= Len(ds) PROVE OldUpTo(ds, m) <= OldUpTo(ds, m + (l + 1))
    OBVIOUS
  <2>1. m + (l + 1) \in 1..Len(ds) /\ (m + (l + 1)) - 1 = m + l /\ m + l \in 0..Len(ds)
    BY <1>1
  <2>2. OldUpTo(ds, m + (l + 1)) = OldUpTo(ds, m + l) + OldLen(ds[m + (l + 1)])
    BY <2>1, UpToNext
  <2>3. OldUpTo(ds, m + l) \in Nat /\ OldLen(ds[m + (l + 1)]) \in Nat
    BY SMTT(60), <2>1, UpToType, ItemLens
  <2>4. OldUpTo(ds, m) <= OldUpTo(ds, m + l)
    BY <1>1, <1>3, <2>1
  <2> QED
    BY <1>1, <2>2, <2>3, <2>4
<1> HIDE DEF S
<1>4. n - m \in Nat /\ m + (n - m) = n
  BY <1>1
<1>5. n - m \in S
  BY <1>2, <1>3, <1>4, NatSetInduction
<1> QED
  BY <1>1, <1>4, <1>5 DEF S

(* The pairs of places that the n-th item matches, when it is an Equal. *)
MatchedBy(ds, n, p) ==
  /\ n \in DOMAIN ds /\ ds[n].kind = "Equal"
  /\ \E i \in 1..ds[n].old.len : p = <<ds[n].old.offset + i, ds[n].new.offset + i>>

(* A match is a match of an item. *)
LEMMA MatchesAre ==
  ASSUME NEW ds, NEW p
  PROVE  p \in Matches(ds) <=> \E n : MatchedBy(ds, n, p)
BY DEF Matches, MatchedBy

(* Where the n-th item stands that matches a and b. *)
LEMMA MatchPlace ==
  ASSUME NEW ds, NEW s, NEW t, Fits(ds, s, t), NEW n, NEW a, NEW b, MatchedBy(ds, n, <<a, b>>)
  PROVE  /\ n \in 1..Len(ds) /\ ds[n] \in DiffRange /\ ds[n].kind = "Equal"
         /\ OldUpTo(ds, n - 1) \in Nat /\ NewUpTo(ds, n - 1) \in Nat
         /\ OldUpTo(ds, n) = OldUpTo(ds, n - 1) + ds[n].old.len
         /\ NewUpTo(ds, n) = NewUpTo(ds, n - 1) + ds[n].old.len
         /\ \E i \in 1..ds[n].old.len : a = OldUpTo(ds, n - 1) + i /\ b = NewUpTo(ds, n - 1) + i
<1>1. ds \in Seq(DiffRange) /\ n \in DOMAIN ds /\ ds[n].kind = "Equal" /\ Len(ds) \in Nat
  BY DEF Fits, MatchedBy
<1>2. n \in 1..Len(ds) /\ ds[n] \in DiffRange /\ n - 1 \in 0..Len(ds)
  BY <1>1
<1>3. /\ OldUpTo(ds, n - 1) \in Nat /\ NewUpTo(ds, n - 1) \in Nat
  BY <1>1, <1>2, UpToType
<1>4. /\ InOld(ds[n]) /\ InNew(ds[n]) /\ OldLen(ds[n]) = ds[n].old.len /\ NewLen(ds[n]) = ds[n].new.len
  BY <1>1, <1>2, ItemLens
<1>5. /\ ds[n].old.len = ds[n].new.len
      /\ ds[n].old.offset = OldUpTo(ds, n - 1) /\ ds[n].new.offset = NewUpTo(ds, n - 1)
  BY <1>1, <1>2, <1>4 DEF Fits
<1>6. /\ OldUpTo(ds, n) = OldUpTo(ds, n - 1) + OldLen(ds[n])
      /\ NewUpTo(ds, n) = NewUpTo(ds, n - 1) + NewLen(ds[n])
  BY <1>1, <1>2, UpToNext
<1>7. \E i \in 1..ds[n].old.len : <<a, b>> = <<ds[n].old.offset + i, ds[n].new.offset + i>>
  BY DEF MatchedBy
<1>8. \E i \in 1..ds[n].old.len : a = OldUpTo(ds, n - 1) + i /\ b = NewUpTo(ds, n - 1) + i
  BY <1>5, <1>7
<1> QED
  BY <1>1, <1>2, <1>3, <1>4, <1>5, <1>6, <1>8

(* No place of the old text is in two items. *)
LEMMA PlaceInOneItem ==
  ASSUME NEW ds \in Seq(DiffRange), NEW m \in 1..Len(ds), NEW n \in 1..Len(ds), NEW a \in Nat,
         OldUpTo(ds, m - 1) < a, a <= OldUpTo(ds, m), OldUpTo(ds, n - 1) < a, a <= OldUpTo(ds, n)
  PROVE  m = n
<1>1. /\ Len(ds) \in Nat /\ m \in 0..Len(ds) /\ n \in 0..Len(ds)
      /\ m - 1 \in 0..Len(ds) /\ n - 1 \in 0..Len(ds)
  OBVIOUS
<1>2. /\ OldUpTo(ds, m) \in Nat /\ OldUpTo(ds, n) \in Nat
      /\ OldUpTo(ds, m - 1) \in Nat /\ OldUpTo(ds, n - 1) \in Nat
  BY <1>1, UpToType
<1>3. CASE m < n
  <2>1. m <= n - 1
    BY <1>3
  <2>2. OldUpTo(ds, m) <= OldUpTo(ds, n - 1)
    BY <1>1, <2>1, OldReachGrows
  <2> QED
    BY <1>2, <2>2
<1>4. CASE n < m
  <2>1. n <= m - 1
    BY <1>4
  <2>2. OldUpTo(ds, n) <= OldUpTo(ds, m - 1)
    BY <1>1, <2>1, OldReachGrows
  <2> QED
    BY <1>2, <2>2
<1> QED
  BY <1>3, <1>4

(* Matches are places of the two texts, and no line is matched with two. *)
LEMMA MatchesOnce ==
  ASSUME NEW ds, NEW s, NEW t, Fits(ds, s, t), NEW a, NEW b, <<a, b>> \in Matches(ds)
  PROVE  /\ a \in Nat /\ b \in Nat /\ 0 < a /\ a <= Len(s) /\ b <= Len(t)
         /\ \A c : <<a, c>> \in Matches(ds) => c = b
<1>1. PICK n : MatchedBy(ds, n, <<a, b>>)
  BY MatchesAre
<1> DEFINE x == OldUpTo(ds, n - 1)
           y == NewUpTo(ds, n - 1)
           l == ds[n].old.len
<1>2. /\ n \in 1..Len(ds) /\ ds[n] \in DiffRange /\ x \in Nat /\ y \in Nat
      /\ OldUpTo(ds, n) = x + l /\ NewUpTo(ds, n) = y + l
      /\ \E i \in 1..l : a = x + i /\ b = y + i
  BY <1>1, MatchPlace
<1>3. l \in Nat
  BY <1>2, ItemLens
<1>4. /\ ds \in Seq(DiffRange) /\ Len(ds) \in Nat
      /\ OldUpTo(ds, Len(ds)) = Len(s) /\ NewUpTo(ds, Len(ds)) = Len(t)
  BY DEF Fits
<1>5. x + l <= Len(s) /\ Len(s) \in Nat /\ y + l <= Len(t) /\ Len(t) \in Nat
  <2>1. n \in 0..Len(ds) /\ Len(ds) \in 0..Len(ds)
    BY <1>2, <1>4
  <2> QED
    BY <1>2, <1>4, <2>1, UpToType
<1>6. a \in Nat /\ b \in Nat /\ x < a /\ a <= x + l /\ 0 < a /\ a <= Len(s) /\ b <= Len(t)
  <2> HIDE DEF x, y, l
  <2> QED
    BY <1>2, <1>3, <1>5
<1>7. ASSUME NEW c, <<a, c>> \in Matches(ds) PROVE c = b
  <2>1. PICK m : MatchedBy(ds, m, <<a, c>>)
    BY <1>7, MatchesAre
  <2> DEFINE u == OldUpTo(ds, m - 1)
             k == ds[m].old.len
  <2>2. /\ m \in 1..Len(ds) /\ ds[m] \in DiffRange /\ u \in Nat
        /\ OldUpTo(ds, m) = u + k
        /\ \E i \in 1..k : a = u + i /\ c = NewUpTo(ds, m - 1) + i
    BY <2>1, MatchPlace
  <2>3. k \in Nat
    BY <2>2, ItemLens
  <2>4. u < a /\ a <= u + k
    <3> HIDE DEF u, k
    <3> QED
      BY <2>2, <2>3
  <2>5. m = n
    <3>1. OldUpTo(ds, m - 1) < a /\ a <= OldUpTo(ds, m)
      BY <2>2, <2>4
    <3>2. OldUpTo(ds, n - 1) < a /\ a <= OldUpTo(ds, n)
      BY <1>2, <1>6
    <3> QED
      BY <1>2, <1>4, <1>6, <2>2, <3>1, <3>2, PlaceInOneItem
  <2>6. \E i \in 1..l : a = x + i /\ c = y + i
    BY <2>2, <2>5
  <2>7. \E i \in 1..l : a = x + i /\ b = y + i
    BY <1>2
  <2>8. x \in Nat /\ y \in Nat
    BY <1>2
  <2> HIDE DEF x, y, l
  <2> QED
    BY <1>3, <2>6, <2>7, <2>8
<1> QED
  BY <1>6, <1>7

(* The item at hand is what is left of the last one handed out. *)
ItemFrom(item, n, ds) ==
  item # None => /\ n \in 1..Len(ds) /\ item[1].kind = ds[n].kind
                 /\ OldLen(item[1]) <= OldLen(ds[n])

(* The next item is handed out whole. *)
LEMMA RefillFrom ==
  ASSUME NEW ds \in Seq(DiffRange), NEW n \in 0..Len(ds), NEW item, ItemFrom(item, n, ds)
  PROVE  ItemFrom(Refill(item, ds, n), Count(item, ds, n), ds)
<1>1. Len(ds) \in Nat /\ n \in Nat /\ n <= Len(ds)
  OBVIOUS
<1>2. CASE ~UsedUp(item)
  BY <1>2 DEF Refill, Count
<1>3. CASE UsedUp(item) /\ n < Len(ds)
  <2> DEFINE diff == ds[n + 1]
  <2>1. Refill(item, ds, n) = <<diff>> /\ Count(item, ds, n) = n + 1
    BY <1>1, <1>3 DEF Refill, Count, NextOf, Some, Min2
  <2>2. n + 1 \in 1..Len(ds) /\ diff \in DiffRange
    BY <1>1, <1>3
  <2>3. OldLen(diff) \in Nat
    BY <2>2, ItemLens
  <2>4. <<diff>>[1] = diff
    OBVIOUS
  <2> QED
    BY <2>1, <2>2, <2>3, <2>4 DEF ItemFrom
<1>4. CASE UsedUp(item) /\ ~(n < Len(ds))
  BY <1>4 DEF Refill, NextOf, ItemFrom
<1> QED
  BY <1>2, <1>3, <1>4

(* What is left of an item is shorter. *)
LEMMA ShrunkFrom ==
  ASSUME NEW ds \in Seq(DiffRange), NEW n \in 0..Len(ds), NEW item, item # None,
         ItemFrom(item, n, ds), item[1] \in DiffRange, item[1].kind \in {"Equal", "Delete"},
         NEW len \in Nat, len <= item[1].old.len
  PROVE  ItemFrom(Some(ShrunkFront(item[1], len)), n, ds)
<1> DEFINE diff == item[1]
           rest == ShrunkFront(diff, len)
<1>1. /\ n \in 1..Len(ds) /\ diff.kind = ds[n].kind /\ OldLen(diff) <= OldLen(ds[n])
      /\ diff \in DiffRange /\ diff.kind \in {"Equal", "Delete"}
  BY DEF ItemFrom
<1>2. ds[n] \in DiffRange
  BY <1>1
<1> HIDE DEF diff
<1>3. /\ rest.kind = diff.kind
      /\ rest.old = IF InOld(diff) THEN ShrinkFront(diff.old, len) ELSE diff.old
  BY <1>1, ShrunkFrontItem
<1> HIDE DEF rest
<1>4. InOld(diff) /\ InOld(rest) /\ diff.old.len \in Nat /\ OldLen(diff) = diff.old.len
  BY <1>1, <1>3, ItemLens DEF InOld
<1>5. OldLen(rest) = diff.old.len - len
  BY <1>3, <1>4 DEF OldLen, ShrinkFront, MkRange
<1>6. OldLen(ds[n]) \in Nat
  BY <1>2, ItemLens
<1>7. OldLen(rest) <= OldLen(ds[n])
  BY <1>1, <1>4, <1>5, <1>6
<1>8. <<rest>>[1] = rest
  OBVIOUS
<1> QED
  BY <1>1, <1>3, <1>7, <1>8 DEF ItemFrom, Some, rest, diff

(* What the item at hand says of the next lines of the old text: an Equal
   matches them one by one, a Delete none of them. *)
LEMMA ItemMatches ==
  ASSUME NEW ds, NEW s, NEW t, Fits(ds, s, t), NEW item, item # None, NEW n,
         NEW x \in Nat, NEW y \in Nat, StandsAt(item, n, ds, x, y), ItemFrom(item, n, ds),
         item[1].kind \in {"Equal", "Delete"}, NEW j \in Nat, 1 <= j, j <= item[1].old.len
  PROVE  /\ item[1].kind = "Equal" => <<x + j, y + j>> \in Matches(ds)
         /\ item[1].kind = "Delete" => \A b : <<x + j, b>> \notin Matches(ds)
<1> DEFINE diff == item[1]
           u == OldUpTo(ds, n - 1)
           v == NewUpTo(ds, n - 1)
           l == OldLen(ds[n])
<1>1. /\ diff \in DiffRange
      /\ diff.kind = "Equal" => diff.old.len = diff.new.len
      /\ x + OldLen(diff) = OldUpTo(ds, n) /\ y + NewLen(diff) = NewUpTo(ds, n)
  BY DEF StandsAt, Rest
<1>2. n \in 1..Len(ds) /\ diff.kind = ds[n].kind /\ OldLen(diff) <= l
  BY DEF ItemFrom
<1>3. ds \in Seq(DiffRange) /\ Len(ds) \in Nat /\ ds[n] \in DiffRange /\ n - 1 \in 0..Len(ds)
  BY <1>2 DEF Fits
<1>4. u \in Nat /\ v \in Nat /\ OldUpTo(ds, n) = u + l /\ NewUpTo(ds, n) = v + NewLen(ds[n])
  BY <1>2, <1>3, UpToType, UpToNext
<1>5. diff.kind \in {"Equal", "Delete"} /\ j <= diff.old.len
  OBVIOUS
<1>6. OldLen(diff) = diff.old.len /\ diff.old.len \in Nat /\ l \in Nat /\ l = ds[n].old.len
  BY <1>1, <1>2, <1>3, <1>5, ItemLens
<1> DEFINE k == diff.old.len
<1>7. k \in Nat /\ l \in Nat /\ k <= l /\ j <= k /\ x + k = u + l
  BY <1>1, <1>2, <1>4, <1>5, <1>6
<1>8. x + j \in Nat /\ u < x + j /\ x + j <= u + l
  <2> HIDE DEF u, v, l, k
  <2> QED
    BY <1>4, <1>7
<1>9. CASE diff.kind = "Equal"
  <2>1. NewLen(diff) = k /\ ds[n].kind = "Equal" /\ InOld(ds[n]) /\ InNew(ds[n])
        /\ NewLen(ds[n]) = ds[n].new.len
    BY <1>1, <1>2, <1>3, <1>9, ItemLens
  <2>2. ds[n].old.offset = u /\ ds[n].new.offset = v /\ ds[n].old.len = ds[n].new.len
    BY <1>2, <2>1 DEF Fits
  <2>3. y + k = v + l
    BY <1>1, <1>4, <1>6, <2>1, <2>2
  <2> DEFINE i == (x + j) - u
  <2>4. i \in 1..l /\ x + j = u + i /\ y + j = v + i
    <3> HIDE DEF u, v, l, k
    <3> QED
      BY <1>4, <1>7, <1>8, <2>3
  <2>5. <<x + j, y + j>> = <<ds[n].old.offset + i, ds[n].new.offset + i>> /\ i \in 1..ds[n].old.len
    BY <1>6, <2>2, <2>4
  <2>6. n \in DOMAIN ds
    BY <1>2, <1>3
  <2> HIDE DEF i
  <2>7. MatchedBy(ds, n, <<x + j, y + j>>)
    BY <2>1, <2>5, <2>6 DEF MatchedBy
  <2> QED
    BY <1>9, <2>7, MatchesAre
<1>10. CASE diff.kind = "Delete"
  <2>1. ASSUME NEW b, <<x + j, b>> \in Matches(ds) PROVE FALSE
    <3>1. PICK m : MatchedBy(ds, m, <<x + j, b>>)
      BY <2>1, MatchesAre
    <3> DEFINE w == OldUpTo(ds, m - 1)
               h == ds[m].old.len
    <3>2. /\ m \in 1..Len(ds) /\ ds[m] \in DiffRange /\ ds[m].kind = "Equal" /\ w \in Nat
          /\ OldUpTo(ds, m) = w + h
          /\ \E i \in 1..h : x + j = w + i
      BY <3>1, MatchPlace
    <3>3. h \in Nat
      BY <3>2, ItemLens
    <3>4. w < x + j /\ x + j <= w + h
      <4> HIDE DEF w, h
      <4> QED
        BY <3>2, <3>3
    <3>5. m = n
      <4>1. OldUpTo(ds, m - 1) < x + j /\ x + j <= OldUpTo(ds, m)
        BY <3>2, <3>4
      <4>2. OldUpTo(ds, n - 1) < x + j /\ x + j <= OldUpTo(ds, n)
        BY <1>4, <1>8
      <4> QED
        BY <1>2, <1>3, <1>8, <3>2, <4>1, <4>2, PlaceInOneItem
    <3> QED
      BY <1>2, <1>10, <3>2, <3>5
  <2> QED
    BY <1>10, <2>1
<1> QED
  BY <1>5, <1>9, <1>10

-----------------------------------------------------------------------------
(* The lines that both sides keep *)

(* A line of both diffs' matches, or one before or after the texts. *)
LEMMA StableAre ==
  ASSUME NEW a, NEW o, NEW t, NEW ourDiff, NEW theirDiff, NEW line
  PROVE  line \in StableLines(<<a, o, t>>, ourDiff, theirDiff)
           <=> \/ \E m \in Matches(ourDiff), n \in Matches(theirDiff) :
                    m[1] = n[1] /\ line = <<m[1], m[2], n[2]>>
               \/ line = <<0, 0, 0>>
               \/ line = <<Len(a) + 1, Len(o) + 1, Len(t) + 1>>
<1> DEFINE P == Matches(ourDiff)
           Q == Matches(theirDiff)
           both == {<<m[1][1], m[1][2], m[2][2]>> : m \in {x \in P \X Q : x[1][1] = x[2][1]}}
<1>1. line \in StableLines(<<a, o, t>>, ourDiff, theirDiff)
        <=> line \in both \/ line = <<0, 0, 0>> \/ line = <<Len(a) + 1, Len(o) + 1, Len(t) + 1>>
  BY DEF StableLines
<1>2. line \in both <=> \E x \in P \X Q : x[1][1] = x[2][1] /\ line = <<x[1][1], x[1][2], x[2][2]>>
  OBVIOUS
<1> HIDE DEF P, Q
<1>3. (\E x \in P \X Q : x[1][1] = x[2][1] /\ line = <<x[1][1], x[1][2], x[2][2]>>)
        <=> \E m \in P, n \in Q : m[1] = n[1] /\ line = <<m[1], m[2], n[2]>>
  <2>1. ASSUME NEW x \in P \X Q, x[1][1] = x[2][1], line = <<x[1][1], x[1][2], x[2][2]>>
        PROVE  \E m \in P, n \in Q : m[1] = n[1] /\ line = <<m[1], m[2], n[2]>>
    BY <2>1
  <2>2. ASSUME NEW m \in P, NEW n \in Q, m[1] = n[1], line = <<m[1], m[2], n[2]>>
        PROVE  \E x \in P \X Q : x[1][1] = x[2][1] /\ line = <<x[1][1], x[1][2], x[2][2]>>
    <3>1. <<m, n>> \in P \X Q /\ <<m, n>>[1] = m /\ <<m, n>>[2] = n
      OBVIOUS
    <3> QED
      BY <2>2, <3>1
  <2> QED
    BY <2>1, <2>2
<1> QED
  BY <1>1, <1>2, <1>3 DEF P, Q

(* How the stable lines lie: at most one for each line of the ancestor, from
   the one before the first line to the one after the last. *)
Ruled(lines, len) ==
  /\ \A line \in lines : line[1] \in Nat /\ line[1] <= len + 1
  /\ \A one, other \in lines : one[1] = other[1] => one = other

(* A match is a pair. *)
LEMMA MatchIsPair ==
  ASSUME NEW ds, NEW m \in Matches(ds)
  PROVE  m = <<m[1], m[2]>>
<1>1. PICK n : MatchedBy(ds, n, m)
  BY MatchesAre
<1> QED
  BY <1>1 DEF MatchedBy

(* That is how they lie. *)
LEMMA StableRuled ==
  ASSUME NEW T, NEW a \in Seq(T), NEW o, NEW t, NEW ourDiff, NEW theirDiff,
         Fits(ourDiff, a, o), Fits(theirDiff, a, t),
         NEW lines, lines = StableLines(<<a, o, t>>, ourDiff, theirDiff)
  PROVE  /\ Ruled(lines, Len(a))
         /\ <<0, 0, 0>> \in lines /\ <<Len(a) + 1, Len(o) + 1, Len(t) + 1>> \in lines
<1> DEFINE last == <<Len(a) + 1, Len(o) + 1, Len(t) + 1>>
           Kept(line) == \E m \in Matches(ourDiff), n \in Matches(theirDiff) :
                           m[1] = n[1] /\ line = <<m[1], m[2], n[2]>>
<1>1. Len(a) \in Nat
  OBVIOUS
<1>2. \A line : line \in lines <=> Kept(line) \/ line = <<0, 0, 0>> \/ line = last
  BY StableAre
<1>3. ASSUME NEW line, Kept(line)
      PROVE  line[1] \in Nat /\ 0 < line[1] /\ line[1] <= Len(a)
  <2>1. PICK m \in Matches(ourDiff) : line[1] = m[1]
    BY <1>3
  <2>2. <<m[1], m[2]>> \in Matches(ourDiff)
    BY MatchIsPair
  <2> QED
    BY <2>1, <2>2, MatchesOnce
<1>4. ASSUME NEW line, NEW other, Kept(line), Kept(other), line[1] = other[1]
      PROVE  line = other
  <2>1. PICK m \in Matches(ourDiff), n \in Matches(theirDiff) :
          m[1] = n[1] /\ line = <<m[1], m[2], n[2]>>
    BY <1>4
  <2>2. PICK p \in Matches(ourDiff), q \in Matches(theirDiff) :
          p[1] = q[1] /\ other = <<p[1], p[2], q[2]>>
    BY <1>4
  <2>3. m[1] = p[1] /\ n[1] = q[1] /\ n[1] = m[1]
    BY <1>4, <2>1, <2>2
  <2>4. /\ <<m[1], m[2]>> \in Matches(ourDiff) /\ <<m[1], p[2]>> \in Matches(ourDiff)
        /\ <<n[1], n[2]>> \in Matches(theirDiff) /\ <<n[1], q[2]>> \in Matches(theirDiff)
    BY <2>3, MatchIsPair
  <2>5. p[2] = m[2] /\ q[2] = n[2]
    BY <2>4, MatchesOnce
  <2> QED
    BY <2>1, <2>2, <2>3, <2>5
<1>5. last[1] = Len(a) + 1 /\ <<0, 0, 0>>[1] = 0
  OBVIOUS
<1> HIDE DEF Kept, last
<1>6. \A line \in lines : line[1] \in Nat /\ line[1] <= Len(a) + 1
  BY <1>1, <1>2, <1>3, <1>5
<1>7. ASSUME NEW one \in lines, NEW other \in lines, one[1] = other[1] PROVE one = other
  <2>1. CASE Kept(one) /\ Kept(other)
    BY <1>4, <1>7, <2>1
  <2>2. CASE ~Kept(one) /\ ~Kept(other)
    BY <1>1, <1>2, <1>5, <1>7, <2>2
  <2>3. CASE Kept(one) /\ ~Kept(other)
    BY <1>1, <1>2, <1>3, <1>5, <1>7, <2>3
  <2>4. CASE ~Kept(one) /\ Kept(other)
    BY <1>1, <1>2, <1>3, <1>5, <1>7, <2>4
  <2> QED
    BY <2>1, <2>2, <2>3, <2>4
<1>8. Ruled(lines, Len(a))
  BY <1>6, <1>7 DEF Ruled
<1>9. <<0, 0, 0>> \in lines /\ last \in lines
  BY <1>2
<1> QED
  BY <1>8, <1>9 DEF last

(* The next l lines of all three texts are stable ones; and no line of the
   ancestor from x + 1 to q is. *)
Fixed(lines, x, y, z, l) == \A j \in Nat : 1 <= j /\ j <= l => <<x + j, y + j, z + j>> \in lines
Free(lines, x, q) == \A line \in lines : ~(x < line[1] /\ line[1] <= q)

(* Stretches without a stable line, one after the other. *)
LEMMA FreeOn ==
  ASSUME NEW lines, NEW len, Ruled(lines, len), NEW x \in Nat, NEW y \in Nat, NEW z \in Nat,
         Free(lines, x, y), Free(lines, y, z)
  PROVE  Free(lines, x, z)
BY DEF Free, Ruled

(* Where two items keep or delete len lines of the ancestor: those that both *)
(* keep are stable, and no others are.                                       *)
Mark(lines, one, other, x, y, z, len) ==
  /\ one.kind = "Equal" /\ other.kind = "Equal" => Fixed(lines, x, y, z, len)
  /\ ~(one.kind = "Equal" /\ other.kind = "Equal") => Free(lines, x, x + len)

(* Where neither deletes, both keep; where one does, none is stable. *)
LEMMA ItemsMark ==
  ASSUME NEW a, NEW o, NEW t, NEW ourDiff, NEW theirDiff,
         Fits(ourDiff, a, o), Fits(theirDiff, a, t), Len(a) \in Nat,
         NEW lines, lines = StableLines(<<a, o, t>>, ourDiff, theirDiff), Ruled(lines, Len(a)),
         NEW x \in Nat, NEW y \in Nat, NEW z \in Nat,
         NEW our, our # None, our[1].kind \in {"Equal", "Delete"},
         NEW their, their # None, their[1].kind \in {"Equal", "Delete"},
         NEW n, StandsAt(our, n, ourDiff, x, y), ItemFrom(our, n, ourDiff),
         NEW m, StandsAt(their, m, theirDiff, x, z), ItemFrom(their, m, theirDiff),
         NEW len \in Nat, len <= our[1].old.len, len <= their[1].old.len
  PROVE  Mark(lines, our[1], their[1], x, y, z, len)
<1>0. our[1].old.len \in Nat /\ their[1].old.len \in Nat
  <2>1. our[1] \in DiffRange /\ their[1] \in DiffRange
    BY DEF StandsAt, Rest
  <2> QED
    BY <2>1, ItemLens
<1>1. ASSUME NEW j \in Nat, 1 <= j, j <= len, our[1].kind = "Equal", their[1].kind = "Equal"
      PROVE  <<x + j, y + j, z + j>> \in lines
  <2>1. j <= our[1].old.len /\ j <= their[1].old.len
    BY SMTT(60), <1>0, <1>1
  <2>2. <<x + j, y + j>> \in Matches(ourDiff)
    BY <1>1, <2>1, ItemMatches
  <2>3. <<x + j, z + j>> \in Matches(theirDiff)
    BY <1>1, <2>1, ItemMatches
  <2> DEFINE u == <<x + j, y + j>>
             v == <<x + j, z + j>>
  <2>4. u[1] = v[1] /\ <<x + j, y + j, z + j>> = <<u[1], u[2], v[2]>>
    OBVIOUS
  <2>5. u \in Matches(ourDiff) /\ v \in Matches(theirDiff)
    BY <2>2, <2>3
  <2> HIDE DEF u, v
  <2> QED
    BY <2>4, <2>5, StableAre
<1>2. ASSUME ~(our[1].kind = "Equal" /\ their[1].kind = "Equal"),
             NEW line \in lines, x < line[1], line[1] <= x + len
      PROVE  FALSE
  <2>1. line[1] \in Nat
    BY DEF Ruled
  <2> DEFINE j == line[1] - x
  <2>2. j \in Nat /\ 1 <= j /\ j <= len /\ line[1] = x + j
    BY <1>2, <2>1
  <2>3. j <= our[1].old.len /\ j <= their[1].old.len
    <3> DEFINE k == our[1].old.len
               l == their[1].old.len
    <3>1. k \in Nat /\ l \in Nat /\ len <= k /\ len <= l
      BY <1>0
    <3> HIDE DEF j, k, l
    <3>2. j <= k /\ j <= l
      BY <2>2, <3>1
    <3> QED
      BY <3>2 DEF k, l
  <2> HIDE DEF j
  <2>4. CASE line = <<0, 0, 0>>
    BY <1>2, <2>4
  <2>5. CASE line = <<Len(a) + 1, Len(o) + 1, Len(t) + 1>>
    <3>1. line[1] = Len(a) + 1
      BY <2>5
    <3>2. our[1] \in DiffRange /\ x + OldLen(our[1]) <= Len(a)
      BY StandsInText
    <3>3. OldLen(our[1]) = our[1].old.len
      BY <3>2, ItemLens
    <3> QED
      BY SMTT(60), <1>0, <2>2, <2>3, <3>1, <3>2, <3>3
  <2>6. CASE \E p \in Matches(ourDiff), q \in Matches(theirDiff) :
               p[1] = q[1] /\ line = <<p[1], p[2], q[2]>>
    <3>1. PICK p \in Matches(ourDiff), q \in Matches(theirDiff) :
            p[1] = q[1] /\ line = <<p[1], p[2], q[2]>>
      BY <2>6
    <3>2. p[1] = x + j /\ q[1] = x + j
      BY <2>2, <3>1
    <3>3. p = <<p[1], p[2]>> /\ q = <<q[1], q[2]>>
      BY MatchIsPair
    <3>4. <<x + j, p[2]>> \in Matches(ourDiff) /\ <<x + j, q[2]>> \in Matches(theirDiff)
      BY <3>2, <3>3
    <3>5. our[1].kind # "Delete"
      <4> SUFFICES ASSUME our[1].kind = "Delete" PROVE FALSE
        OBVIOUS
      <4>1. \A b : <<x + j, b>> \notin Matches(ourDiff)
        BY <2>2, <2>3, ItemMatches
      <4> QED
        BY <3>4, <4>1
    <3>6. their[1].kind # "Delete"
      <4> SUFFICES ASSUME their[1].kind = "Delete" PROVE FALSE
        OBVIOUS
      <4>1. \A b : <<x + j, b>> \notin Matches(theirDiff)
        BY <2>2, <2>3, ItemMatches
      <4> QED
        BY <3>4, <4>1
    <3> QED
      BY <1>2, <3>5, <3>6
  <2> QED
    BY <2>4, <2>5, <2>6, StableAre
<1> QED
  BY <1>1, <1>2 DEF Mark, Fixed, Free

-----------------------------------------------------------------------------
(* What the textbook has for a line of the ancestor *)

(* A stretch of the lines of a text, and how those of three are settled. *)
Stretch(text, from, to) == SubSeq(text, from + 1, to)
SettledChunk(a, o, t, x, y, z, q, u, v) ==
  Settle(Stretch(a, x, q), Stretch(o, y, u), Stretch(t, z, v))

(* The ancestor's line after the first q, if there is one. *)
LineAfter(a, q) == IF q < Len(a) THEN <<a[q + 1]>> ELSE <<>>

(* The textbook adds this settled chunk and this line at the line l. *)
Adds(row, l, chunk, line) == row[l].chunk = chunk /\ row[l].line = line

(* A stable line comes with the settled chunk since the last one before it. *)
LEMMA AtStable ==
  ASSUME NEW a \in Seq(Symbol), NEW o, NEW t, NEW ourDiff, NEW theirDiff,
         NEW lines, lines = StableLines(<<a, o, t>>, ourDiff, theirDiff), Ruled(lines, Len(a)),
         NEW x \in Nat, NEW y \in Nat, NEW z \in Nat, <<x, y, z>> \in lines,
         NEW q \in Nat, x <= q, q <= Len(a), Free(lines, x, q),
         NEW u \in Nat, NEW v \in Nat, <<q + 1, u + 1, v + 1>> \in lines,
         NEW row, row = ThreeWay(<<a, o, t>>, ourDiff, theirDiff),
         NEW chunk, chunk = SettledChunk(a, o, t, x, y, z, q, u, v)
  PROVE  Adds(row, q + 1, chunk, LineAfter(a, q))
<1> DEFINE texts == <<a, o, t>>
           line == <<q + 1, u + 1, v + 1>>
           last == <<x, y, z>>
           Behind(one) == one[1] < q + 1 /\ \A other \in lines : other[1] < q + 1 => other[1] <= one[1]
<1>1. Len(a) \in Nat /\ q + 1 \in 1..Len(a) + 1 /\ texts[1] = a /\ texts[2] = o /\ texts[3] = t
  OBVIOUS
<1>2. line[1] = q + 1 /\ line[2] = u + 1 /\ line[3] = v + 1 /\ last[1] = x /\ last[2] = y /\ last[3] = z
  OBVIOUS
<1>3. line \in lines /\ last \in lines
  OBVIOUS
<1> HIDE DEF line, last
<1>4. StableAt(lines, q + 1) = line
  <2>1. \A one \in lines : one[1] = q + 1 => one = line
    BY <1>2, <1>3 DEF Ruled
  <2> QED
    BY <1>2, <1>3, <2>1 DEF StableAt
<1>5. Behind(last)
  <2>1. ASSUME NEW other \in lines, other[1] < q + 1 PROVE other[1] <= x
    <3>1. other[1] \in Nat /\ ~(x < other[1] /\ other[1] <= q)
      BY DEF Ruled, Free
    <3> QED
      BY <2>1, <3>1
  <2>2. last[1] < q + 1
    BY <1>2
  <2>3. \A other \in lines : other[1] < q + 1 => other[1] <= last[1]
    BY <1>2, <2>1, Zenon
  <2> QED
    BY <2>2, <2>3
<1>6. \A one \in lines : Behind(one) => one = last
  <2> SUFFICES ASSUME NEW one \in lines, Behind(one) PROVE one = last
    OBVIOUS
  <2>1. one[1] <= last[1] /\ last[1] <= one[1]
    BY <1>3, <1>5
  <2>2. one[1] \in Nat /\ last[1] \in Nat
    BY <1>3 DEF Ruled
  <2>3. one[1] = last[1]
    BY <2>1, <2>2
  <2> QED
    BY <1>3, <2>3 DEF Ruled
<1>7. LastBefore(lines, line[1]) = last
  <2>1. LastBefore(lines, q + 1) = CHOOSE one \in lines : Behind(one)
    BY DEF LastBefore
  <2>2. (CHOOSE one \in lines : Behind(one)) = last
    <3> HIDE DEF Behind
    <3> QED
      BY <1>3, <1>5, <1>6
  <2> QED
    BY <1>2, <2>1, <2>2
<1>8. ChunkBefore(texts, lines, line) = SettledChunk(a, o, t, x, y, z, q, u, v)
  <2>1. ChunkBefore(texts, lines, line)
          = Settle(SubSeq(texts[1], last[1] + 1, line[1] - 1), SubSeq(texts[2], last[2] + 1, line[2] - 1),
                   SubSeq(texts[3], last[3] + 1, line[3] - 1))
    BY <1>7 DEF ChunkBefore
  <2>2. line[1] - 1 = q /\ line[2] - 1 = u /\ line[3] - 1 = v
    BY <1>2
  <2> HIDE DEF texts
  <2> QED
    BY <1>1, <1>2, <2>1, <2>2 DEF SettledChunk, Stretch
<1> DEFINE entry == [chunk |-> ChunkBefore(texts, lines, StableAt(lines, q + 1)),
                     line |-> IF q + 1 <= Len(texts[1]) THEN <<texts[1][q + 1]>> ELSE <<>>]
<1>9. row[q + 1] = entry
  <2>1. \E one \in lines : one[1] = q + 1
    BY <1>2, <1>3
  <2>2. q + 1 \in 1..Len(texts[1]) + 1
    BY <1>1
  <2>3. row = ThreeWay(texts, ourDiff, theirDiff) /\ lines = StableLines(texts, ourDiff, theirDiff)
    OBVIOUS
  <2> HIDE DEF texts
  <2> QED
    BY <2>1, <2>2, <2>3 DEF ThreeWay
<1>10. entry.chunk = ChunkBefore(texts, lines, StableAt(lines, q + 1))
       /\ entry.line = IF q + 1 <= Len(texts[1]) THEN <<texts[1][q + 1]>> ELSE <<>>
  OBVIOUS
<1> HIDE DEF entry, texts
<1>11. row[q + 1].chunk = SettledChunk(a, o, t, x, y, z, q, u, v)
  BY <1>4, <1>8, <1>9, <1>10
<1>12. row[q + 1].line = IF q < Len(a) THEN <<a[q + 1]>> ELSE <<>>
  BY <1>1, <1>9, <1>10
<1> QED
  BY <1>11, <1>12 DEF Adds, LineAfter

(* Another line adds nothing. *)
LEMMA NotStable ==
  ASSUME NEW a \in Seq(Symbol), NEW o, NEW t, NEW ourDiff, NEW theirDiff,
         NEW lines, lines = StableLines(<<a, o, t>>, ourDiff, theirDiff),
         NEW x \in Nat, NEW q \in Nat, q <= Len(a), Free(lines, x, q),
         NEW l \in Nat, x < l, l <= q,
         NEW row, row = ThreeWay(<<a, o, t>>, ourDiff, theirDiff)
  PROVE  row[l].chunk = Clean(<<>>) /\ row[l].line = <<>>
<1> DEFINE texts == <<a, o, t>>
<1>1. Len(a) \in Nat /\ l \in 1..Len(texts[1]) + 1
  OBVIOUS
<1>2. ~(\E line \in lines : line[1] = l)
  BY DEF Free
<1>3. row = ThreeWay(texts, ourDiff, theirDiff) /\ lines = StableLines(texts, ourDiff, theirDiff)
  OBVIOUS
<1> HIDE DEF texts
<1>4. row[l] = [chunk |-> Clean(<<>>), line |-> <<>>]
  BY <1>1, <1>2, <1>3 DEF ThreeWay
<1> QED
  BY <1>4

(* The textbook has an entry for each line of the ancestor and one more. *)
LEMMA TextbookDomain ==
  ASSUME NEW T, NEW a \in Seq(T), NEW o, NEW t, NEW ourDiff, NEW theirDiff
  PROVE  DOMAIN ThreeWay(<<a, o, t>>, ourDiff, theirDiff) = 1..Len(a) + 1
<1> DEFINE texts == <<a, o, t>>
<1>1. texts[1] = a
  OBVIOUS
<1> HIDE DEF texts
<1>2. DOMAIN ThreeWay(texts, ourDiff, theirDiff) = 1..Len(texts[1]) + 1
  BY DEF ThreeWay
<1> QED
  BY <1>1, <1>2 DEF texts

(* The stable lines are lines of all three texts, or next to one. *)
LEMMA StableInTexts ==
  ASSUME NEW T, NEW a \in Seq(T), NEW o \in Seq(T), NEW t \in Seq(T), NEW ourDiff, NEW theirDiff,
         Fits(ourDiff, a, o), Fits(theirDiff, a, t),
         NEW line \in StableLines(<<a, o, t>>, ourDiff, theirDiff)
  PROVE  /\ line[1] \in Nat /\ line[1] <= Len(a) + 1
         /\ line[2] \in Nat /\ line[2] <= Len(o) + 1
         /\ line[3] \in Nat /\ line[3] <= Len(t) + 1
<1>1. Len(a) \in Nat /\ Len(o) \in Nat /\ Len(t) \in Nat
  OBVIOUS
<1>2. CASE line = <<0, 0, 0>>
  <2>1. line[1] = 0 /\ line[2] = 0 /\ line[3] = 0
    BY <1>2
  <2> QED
    BY <1>1, <2>1
<1>3. CASE line = <<Len(a) + 1, Len(o) + 1, Len(t) + 1>>
  <2>1. line[1] = Len(a) + 1 /\ line[2] = Len(o) + 1 /\ line[3] = Len(t) + 1
    BY <1>3
  <2> QED
    BY <1>1, <2>1
<1>4. CASE \E m \in Matches(ourDiff), n \in Matches(theirDiff) :
             m[1] = n[1] /\ line = <<m[1], m[2], n[2]>>
  <2>1. PICK m \in Matches(ourDiff), n \in Matches(theirDiff) :
          m[1] = n[1] /\ line = <<m[1], m[2], n[2]>>
    BY <1>4
  <2>2. <<m[1], m[2]>> \in Matches(ourDiff) /\ <<n[1], n[2]>> \in Matches(theirDiff)
    BY MatchIsPair
  <2>3. m[1] \in Nat /\ m[1] <= Len(a) /\ m[2] \in Nat /\ m[2] <= Len(o)
    BY <2>2, MatchesOnce
  <2>4. n[2] \in Nat /\ n[2] <= Len(t)
    BY <2>2, MatchesOnce
  <2>5. line[1] = m[1] /\ line[2] = m[2] /\ line[3] = n[2]
    BY <2>1
  <2> QED
    BY <1>1, <2>3, <2>4, <2>5
<1> QED
  BY <1>2, <1>3, <1>4, StableAre

(* There is a last stable line before each line of the ancestor. *)
LEMMA LastIsStable ==
  ASSUME NEW lines, NEW len, Ruled(lines, len), <<0, 0, 0>> \in lines, NEW l \in Nat, l # 0
  PROVE  LastBefore(lines, l) \in lines
<1> DEFINE Behind(one) == one[1] < l /\ \A other \in lines : other[1] < l => other[1] <= one[1]
           S == {l - one[1] : one \in {other \in lines : other[1] < l}}
<1>1. \A one \in lines : one[1] \in Nat
  BY DEF Ruled
<1>2. S \subseteq Nat /\ S # {}
  <2>1. <<0, 0, 0>>[1] = 0 /\ 0 < l
    OBVIOUS
  <2>2. l - <<0, 0, 0>>[1] \in S
    BY <2>1
  <2>3. ASSUME NEW one \in lines, one[1] < l PROVE l - one[1] \in Nat
    BY <1>1, <2>3
  <2> QED
    BY <2>2, <2>3
<1>3. PICK d1 \in S : \A e \in S : d1 <= e
  <2> HIDE DEF S
  <2> QED
    BY <1>2, LeastNatural
<1>4. PICK one \in lines : one[1] < l /\ d1 = l - one[1]
  OBVIOUS
<1>5. ASSUME NEW other \in lines, other[1] < l PROVE other[1] <= one[1]
  <2>1. l - other[1] \in S
    BY <1>5
  <2>2. l - one[1] <= l - other[1]
    BY <1>3, <1>4, <2>1
  <2> QED
    BY <1>1, <2>2
<1>6. Behind(one)
  BY <1>4, <1>5
<1>7. LastBefore(lines, l) = CHOOSE other \in lines : Behind(other)
  BY DEF LastBefore
<1> HIDE DEF Behind
<1> QED
  BY <1>6, <1>7

-----------------------------------------------------------------------------
(* What is written *)

Markers == {"<", "|", "=", ">"}
Pieces == [line : Symbol] \cup [marker : Markers]

(* Lines that are written. *)
LEMMA LinesType ==
  ASSUME NEW ids \in Seq(Symbol)
  PROVE  /\ Lines(ids) \in Seq(Pieces) /\ Len(Lines(ids)) = Len(ids)
         /\ \A n \in 1..Len(ids) : Lines(ids)[n] = [line |-> ids[n]]
<1>1. Len(ids) \in Nat /\ DOMAIN ids = 1..Len(ids) /\ \A n \in 1..Len(ids) : ids[n] \in Symbol
  OBVIOUS
<1>2. \A n \in 1..Len(ids) : [line |-> ids[n]] \in Pieces
  BY <1>1 DEF Pieces
<1> DEFINE f == Lines(ids)
<1>3. f = [n \in 1..Len(ids) |-> [line |-> ids[n]]]
  BY <1>1 DEF Lines
<1>4. f \in [1..Len(ids) -> Pieces] /\ \A n \in 1..Len(ids) : f[n] = [line |-> ids[n]]
  BY <1>2, <1>3
<1> HIDE DEF f
<1>5. f \in Seq(Pieces) /\ Len(f) = Len(ids)
  BY <1>1, <1>4, RowIsSeq
<1> QED
  BY <1>4, <1>5 DEF f

(* They are written one after the other. *)
LEMMA LinesJoin ==
  ASSUME NEW a \in Seq(Symbol), NEW b \in Seq(Symbol)
  PROVE  Lines(Join(a, b)) = Join(Lines(a), Lines(b))
<1> DEFINE c == a \o b
           f == Lines(a)
           g == Lines(b)
           h == Lines(c)
<1>1. /\ c \in Seq(Symbol) /\ Len(c) = Len(a) + Len(b) /\ Len(a) \in Nat /\ Len(b) \in Nat
      /\ \A i \in 1..Len(a) : c[i] = a[i]
      /\ \A i \in 1..Len(b) : c[Len(a) + i] = b[i]
  OBVIOUS
<1> HIDE DEF c
<1>2. /\ f \in Seq(Pieces) /\ Len(f) = Len(a) /\ \A n \in 1..Len(a) : f[n] = [line |-> a[n]]
  BY LinesType
<1>3. /\ g \in Seq(Pieces) /\ Len(g) = Len(b) /\ \A n \in 1..Len(b) : g[n] = [line |-> b[n]]
  BY LinesType
<1>4. /\ h \in Seq(Pieces) /\ Len(h) = Len(c) /\ \A n \in 1..Len(c) : h[n] = [line |-> c[n]]
  BY <1>1, LinesType
<1> HIDE DEF f, g, h
<1>5. \A i \in 1..Len(f) : h[i] = f[i]
  BY <1>1, <1>2, <1>4
<1>6. \A i \in 1..Len(g) : h[Len(f) + i] = g[i]
  <2> SUFFICES ASSUME NEW i \in 1..Len(g) PROVE h[Len(f) + i] = g[i]
    OBVIOUS
  <2>1. i \in 1..Len(b) /\ Len(a) + i \in 1..Len(c)
    BY <1>1, <1>3
  <2> QED
    BY SMTT(60), <1>1, <1>2, <1>3, <1>4, <2>1
<1>7. Len(h) = Len(f) + Len(g)
  BY <1>1, <1>2, <1>3, <1>4
<1>8. h = f \o g
  BY ZenonT(60), <1>2, <1>3, <1>4, <1>5, <1>6, <1>7, ConcatElements
<1> QED
  BY <1>8 DEF Join, c, f, g, h

(* A marker is written too. *)
LEMMA MarkerType ==
  ASSUME NEW char \in Markers
  PROVE  Marker(char) \in Seq(Pieces)
<1>1. [marker |-> char] \in Pieces
  BY DEF Pieces
<1> QED
  BY <1>1 DEF Marker

(* What is written between the markers of a conflict. *)
LEMMA ConflictType ==
  ASSUME NEW a \in Seq(Symbol), NEW o \in Seq(Symbol), NEW t \in Seq(Symbol)
  PROVE  ConflictLines(a, o, t) \in Seq(Pieces)
<1>1. /\ Marker("<") \in Seq(Pieces) /\ Marker("|") \in Seq(Pieces)
      /\ Marker("=") \in Seq(Pieces) /\ Marker(">") \in Seq(Pieces)
  <2>1. "<" \in Markers /\ "|" \in Markers /\ "=" \in Markers /\ ">" \in Markers
    BY Zenon DEF Markers
  <2> QED
    BY <2>1, MarkerType
<1>2. Lines(a) \in Seq(Pieces) /\ Lines(o) \in Seq(Pieces) /\ Lines(t) \in Seq(Pieces)
  BY LinesType
<1> DEFINE m1 == Marker("<")
           m2 == Marker("|")
           m3 == Marker("=")
           m4 == Marker(">")
           f == Lines(a)
           g == Lines(o)
           h == Lines(t)
           b == IF style = "Diff3" THEN m2 \o f ELSE <<>>
<1>3. b \in Seq(Pieces)
  BY <1>1, <1>2
<1>4. ConflictLines(a, o, t) = m1 \o g \o b \o m3 \o h \o m4
  BY DEF ConflictLines
<1> HIDE DEF m1, m2, m3, m4, f, g, h, b
<1>5. ASSUME NEW p \in Seq(Pieces), NEW q \in Seq(Pieces) PROVE p \o q \in Seq(Pieces)
  OBVIOUS
<1>6. m1 \o g \o b \o m3 \o h \o m4 \in Seq(Pieces)
  BY <1>1, <1>2, <1>3, <1>5 DEF m1, m2, m3, m4, f, g, h
<1> QED
  BY <1>4, <1>6

(* What is written for a settled chunk. *)
LEMMA RenderedType ==
  ASSUME NEW a \in Seq(Symbol), NEW o \in Seq(Symbol), NEW t \in Seq(Symbol)
  PROVE  /\ Rendered(Settle(a, o, t)) \in Seq(Pieces)
         /\ Settle(a, o, t).conflict \in BOOLEAN
<1>1. ASSUME NEW ids \in Seq(Symbol)
      PROVE  Rendered(Clean(ids)) = Lines(ids) /\ Clean(ids).conflict = FALSE
  BY DEF Rendered, Clean
<1> DEFINE c == [conflict |-> TRUE, original |-> a, ours |-> o, theirs |-> t]
<1>2. Rendered(c) = ConflictLines(a, o, t) /\ c.conflict = TRUE
  BY DEF Rendered
<1> HIDE DEF c
<1>3. Settle(a, o, t) \in {Clean(o), Clean(t), c}
  BY DEF Settle, c
<1>4. CASE Settle(a, o, t) = c
  BY <1>2, <1>4, ConflictType
<1>5. CASE Settle(a, o, t) = Clean(o)
  BY <1>1, <1>5, LinesType
<1>6. CASE Settle(a, o, t) = Clean(t)
  BY <1>1, <1>6, LinesType
<1> QED
  BY <1>3, <1>4, <1>5, <1>6

-----------------------------------------------------------------------------
(* The textbook's result, line by line of the ancestor *)

(* The result that the entries add up to, and the one of the first n. *)
PartsOf(row) == [l \in DOMAIN row |-> Rendered(row[l].chunk) \o Lines(row[l].line)]
TextUpTo(row, n) == FlattenSeq(SubSeq(PartsOf(row), 1, n))
ConflictsUpTo(row, n) == Cardinality({l \in 1..n : row[l].chunk.conflict})

One(conflict) == IF conflict THEN 1 ELSE 0

Typed(row, n) ==
  /\ DOMAIN row = 1..n
  /\ \A l \in 1..n : /\ Rendered(row[l].chunk) \in Seq(Pieces)
                     /\ row[l].line \in Seq(Symbol)
                     /\ row[l].chunk.conflict \in BOOLEAN

(* The entries of the textbook are settled chunks and lines. *)
LEMMA TextbookTyped ==
  ASSUME NEW a \in Seq(Symbol), NEW o \in Seq(Symbol), NEW t \in Seq(Symbol),
         NEW ourDiff, NEW theirDiff, Fits(ourDiff, a, o), Fits(theirDiff, a, t)
  PROVE  Typed(ThreeWay(<<a, o, t>>, ourDiff, theirDiff), Len(a) + 1)
<1> DEFINE texts == <<a, o, t>>
           row == ThreeWay(texts, ourDiff, theirDiff)
           lines == StableLines(texts, ourDiff, theirDiff)
<1>1. /\ Len(a) \in Nat /\ Len(o) \in Nat /\ Len(t) \in Nat
      /\ texts[1] = a /\ texts[2] = o /\ texts[3] = t
  OBVIOUS
<1>2. DOMAIN row = 1..Len(a) + 1
  BY TextbookDomain
<1>3. Ruled(lines, Len(a)) /\ <<0, 0, 0>> \in lines
  BY StableRuled
<1>4. ASSUME NEW line \in lines
      PROVE  /\ line[1] \in Nat /\ line[1] <= Len(a) + 1
             /\ line[2] \in Nat /\ line[2] <= Len(o) + 1
             /\ line[3] \in Nat /\ line[3] <= Len(t) + 1
  BY StableInTexts
<1>5. ASSUME NEW ids \in Seq(Symbol), NEW i \in Nat, NEW j \in Nat, j <= Len(ids) + 1
      PROVE  SubSeq(ids, i + 1, j - 1) \in Seq(Symbol)
  <2>1. Len(ids) \in Nat /\ \A k \in 1..Len(ids) : ids[k] \in Symbol
    OBVIOUS
  <2>2. \A k \in (i + 1)..(j - 1) : k \in 1..Len(ids)
    BY <1>5, <2>1
  <2> QED
    BY <1>5, <2>1, <2>2
<1>6. row = [l \in 1..Len(texts[1]) + 1 |->
               IF \E line \in lines : line[1] = l
               THEN [chunk |-> ChunkBefore(texts, lines, StableAt(lines, l)),
                     line |-> IF l <= Len(texts[1]) THEN <<texts[1][l]>> ELSE <<>>]
               ELSE [chunk |-> Clean(<<>>), line |-> <<>>]]
  BY DEF ThreeWay
<1> HIDE DEF texts, row, lines
<1>7. ASSUME NEW l \in 1..Len(a) + 1, NEW line \in lines, line[1] = l
      PROVE  /\ Rendered(row[l].chunk) \in Seq(Pieces)
             /\ row[l].line \in Seq(Symbol)
             /\ row[l].chunk.conflict \in BOOLEAN
  <2> DEFINE at1 == StableAt(lines, l)
             last == LastBefore(lines, at1[1])
  <2>1. at1 \in lines /\ at1[1] = l
    BY <1>7 DEF StableAt
  <2>2. last \in lines
    <3>1. l \in Nat /\ l # 0
      BY <1>1
    <3> QED
      BY <1>3, <2>1, <3>1, LastIsStable
  <2> DEFINE e == [chunk |-> ChunkBefore(texts, lines, at1),
                   line |-> IF l <= Len(texts[1]) THEN <<texts[1][l]>> ELSE <<>>]
  <2>3. row[l] = e
    BY <1>1, <1>6, <1>7
  <2>4. e.chunk = ChunkBefore(texts, lines, at1)
        /\ e.line = IF l <= Len(texts[1]) THEN <<texts[1][l]>> ELSE <<>>
    OBVIOUS
  <2> HIDE DEF e, at1, last
  <2>5. ChunkBefore(texts, lines, at1)
          = Settle(SubSeq(texts[1], last[1] + 1, at1[1] - 1), SubSeq(texts[2], last[2] + 1, at1[2] - 1),
                   SubSeq(texts[3], last[3] + 1, at1[3] - 1))
    BY DEF ChunkBefore, last
  <2>6. SubSeq(a, last[1] + 1, at1[1] - 1) \in Seq(Symbol)
    BY <1>4, <1>5, <2>1, <2>2
  <2>7. SubSeq(o, last[2] + 1, at1[2] - 1) \in Seq(Symbol)
    BY <1>4, <1>5, <2>1, <2>2
  <2>8. SubSeq(t, last[3] + 1, at1[3] - 1) \in Seq(Symbol)
    BY <1>4, <1>5, <2>1, <2>2
  <2>9. e.line \in Seq(Symbol)
    <3>1. CASE l <= Len(a)
      <4>1. a[l] \in Symbol /\ e.line = <<a[l]>>
        BY <1>1, <2>4, <3>1
      <4> QED
        BY <4>1
    <3>2. CASE ~(l <= Len(a))
      BY <1>1, <2>4, <3>2
    <3> QED
      BY <3>1, <3>2
  <2>10. ChunkBefore(texts, lines, at1)
          = Settle(SubSeq(a, last[1] + 1, at1[1] - 1), SubSeq(o, last[2] + 1, at1[2] - 1),
                   SubSeq(t, last[3] + 1, at1[3] - 1))
    BY <1>1, <2>5
  <2> DEFINE u == SubSeq(a, last[1] + 1, at1[1] - 1)
             v == SubSeq(o, last[2] + 1, at1[2] - 1)
             w == SubSeq(t, last[3] + 1, at1[3] - 1)
  <2>11. u \in Seq(Symbol) /\ v \in Seq(Symbol) /\ w \in Seq(Symbol) /\ row[l].chunk = Settle(u, v, w)
    BY <2>3, <2>4, <2>6, <2>7, <2>8, <2>10
  <2> HIDE DEF u, v, w
  <2> QED
    BY <2>3, <2>9, <2>11, RenderedType
<1>8. ASSUME NEW l \in 1..Len(a) + 1, ~(\E line \in lines : line[1] = l)
      PROVE  /\ Rendered(row[l].chunk) \in Seq(Pieces)
             /\ row[l].line \in Seq(Symbol)
             /\ row[l].chunk.conflict \in BOOLEAN
  <2>1. row[l] = [chunk |-> Clean(<<>>), line |-> <<>>]
    BY <1>1, <1>6, <1>8
  <2>2. row[l].chunk = Clean(<<>>) /\ row[l].line = <<>>
    BY <2>1
  <2>3. <<>> \in Seq(Symbol)
    OBVIOUS
  <2>4. Rendered(Clean(<<>>)) = Lines(<<>>) /\ Clean(<<>>).conflict = FALSE
    BY DEF Rendered, Clean
  <2>5. Lines(<<>>) \in Seq(Pieces)
    BY <2>3, LinesType
  <2> QED
    BY <2>2, <2>3, <2>4, <2>5
<1>9. \A l \in 1..Len(a) + 1 : /\ Rendered(row[l].chunk) \in Seq(Pieces)
                               /\ row[l].line \in Seq(Symbol)
                               /\ row[l].chunk.conflict \in BOOLEAN
  BY <1>7, <1>8
<1>10. Typed(row, Len(a) + 1)
  BY <1>2, <1>9 DEF Typed
<1> QED
  BY <1>10 DEF row, texts

(* How text and conflicts add up. *)
LEMMA TextAddsUp ==
  ASSUME NEW n \in Nat, NEW row, Typed(row, n)
  PROVE  /\ TextUpTo(row, 0) = <<>> /\ TextUpTo(row, n) = FlattenSeq(PartsOf(row))
         /\ \A l \in 0..n : TextUpTo(row, l) \in Seq(Pieces)
         /\ \A l \in 1..n : TextUpTo(row, l)
              = Join(TextUpTo(row, l - 1), Join(Rendered(row[l].chunk), Lines(row[l].line)))
<1> DEFINE parts == PartsOf(row)
<1>1. ASSUME NEW l \in 1..n
      PROVE  /\ parts[l] = Join(Rendered(row[l].chunk), Lines(row[l].line)) /\ parts[l] \in Seq(Pieces)
  <2>1. Rendered(row[l].chunk) \in Seq(Pieces) /\ Lines(row[l].line) \in Seq(Pieces)
    BY LinesType DEF Typed
  <2>2. parts[l] = Join(Rendered(row[l].chunk), Lines(row[l].line))
    BY DEF PartsOf, Join, Typed
  <2> QED
    BY <2>1, <2>2, JoinAssociates
<1>2. parts = [l \in 1..n |-> parts[l]]
  BY DEF PartsOf, Typed
<1> HIDE DEF parts
<1>3. parts \in [1..n -> Seq(Pieces)]
  BY <1>1, <1>2
<1>4. parts \in Seq(Seq(Pieces)) /\ Len(parts) = n
  BY <1>3, RowIsSeq
<1>5. SubSeq(parts, 1, 0) = <<>> /\ SubSeq(parts, 1, n) = parts
  BY <1>4, WholeSeq
<1>6. TextUpTo(row, 0) = <<>> /\ TextUpTo(row, n) = FlattenSeq(PartsOf(row))
  BY <1>5, FlatEmpty DEF TextUpTo, parts
<1>7. ASSUME NEW m \in 0..n, m < n
      PROVE  /\ TextUpTo(row, m) \in Seq(Pieces) /\ TextUpTo(row, m + 1) \in Seq(Pieces)
             /\ TextUpTo(row, m + 1) = Join(TextUpTo(row, m), parts[m + 1])
  <2> DEFINE s == SubSeq(parts, 1, m)
             more == SubSeq(parts, 1, m + 1)
             part == parts[m + 1]
  <2>1. s \in Seq(Seq(Pieces)) /\ part \in Seq(Pieces) /\ more = Append(s, part)
    BY <1>4, <1>7, PrefixNext
  <2> HIDE DEF s, more, part
  <2>2. FlattenSeq(s) \in Seq(Pieces) /\ FlattenSeq(more) = Join(FlattenSeq(s), part)
    <3>1. FlattenSeq(Append(s, part)) = Join(FlattenSeq(s), part)
      BY <2>1, FlatOneMore
    <3>2. FlattenSeq(s) \in Seq(Pieces)
      BY <2>1, FlatAppend
    <3> QED
      BY <2>1, <3>1, <3>2
  <2>3. FlattenSeq(more) \in Seq(Pieces)
    BY <2>1, <2>2, JoinAssociates
  <2> QED
    BY <2>2, <2>3 DEF TextUpTo, s, more, part, parts
<1>8. ASSUME NEW l \in 1..n
      PROVE  /\ TextUpTo(row, l) \in Seq(Pieces)
             /\ TextUpTo(row, l)
                  = Join(TextUpTo(row, l - 1), Join(Rendered(row[l].chunk), Lines(row[l].line)))
  <2>1. l - 1 \in 0..n /\ l - 1 < n /\ (l - 1) + 1 = l
    OBVIOUS
  <2>2. TextUpTo(row, l) \in Seq(Pieces) /\ TextUpTo(row, l) = Join(TextUpTo(row, l - 1), parts[l])
    BY <1>7, <2>1
  <2> QED
    BY <1>1, <2>2
<1>9. TextUpTo(row, 0) \in Seq(Pieces)
  <2>1. <<>> \in Seq(Pieces)
    OBVIOUS
  <2> QED
    BY <1>6, <2>1
<1>10. \A l \in 0..n : TextUpTo(row, l) \in Seq(Pieces)
  <2>1. \A l \in 0..n : l = 0 \/ l \in 1..n
    OBVIOUS
  <2> QED
    BY <1>8, <1>9, <2>1
<1> QED
  BY <1>6, <1>8, <1>10

(* How the conflicts add up. *)
LEMMA ConflictsAddUp ==
  ASSUME NEW n \in Nat, NEW row, Typed(row, n)
  PROVE  /\ ConflictsUpTo(row, 0) = 0
         /\ ConflictsUpTo(row, n) = Cardinality({l \in DOMAIN row : row[l].chunk.conflict})
         /\ \A l \in 0..n : ConflictsUpTo(row, l) \in Nat
         /\ \A l \in 1..n : ConflictsUpTo(row, l)
              = ConflictsUpTo(row, l - 1) + One(row[l].chunk.conflict)
<1> DEFINE C(l) == {i \in 1..l : row[i].chunk.conflict}
<1>1. ASSUME NEW l \in Nat PROVE IsFiniteSet(C(l)) /\ Cardinality(C(l)) \in Nat
  <2>1. IsFiniteSet(1..l)
    BY FS_Interval
  <2>2. C(l) \subseteq 1..l
    OBVIOUS
  <2> HIDE DEF C
  <2>3. IsFiniteSet(C(l))
    BY <2>1, <2>2, FS_Subset
  <2> QED
    BY <2>3, FS_CardinalityType
<1>2. C(0) = {}
  OBVIOUS
<1>3. ConflictsUpTo(row, 0) = 0
  BY <1>2, FS_EmptySet DEF ConflictsUpTo
<1>4. ConflictsUpTo(row, n) = Cardinality({l \in DOMAIN row : row[l].chunk.conflict})
  BY DEF ConflictsUpTo, Typed
<1>5. ASSUME NEW l \in 1..n
      PROVE  ConflictsUpTo(row, l) = ConflictsUpTo(row, l - 1) + One(row[l].chunk.conflict)
  <2>1. l - 1 \in Nat /\ l \in Nat /\ row[l].chunk.conflict \in BOOLEAN
    BY DEF Typed
  <2>2. CASE row[l].chunk.conflict
    <3>1. C(l) = C(l - 1) \cup {l}
      BY <2>1, <2>2
    <3>2. l \notin C(l - 1)
      BY <2>1
    <3>3. Cardinality(C(l - 1) \cup {l}) = Cardinality(C(l - 1)) + 1
      <4> HIDE DEF C
      <4> QED
        BY <1>1, <2>1, <3>2, FS_AddElement
    <3> QED
      BY <2>2, <3>1, <3>3 DEF ConflictsUpTo, One
  <2>3. CASE ~row[l].chunk.conflict
    <3>1. C(l) = C(l - 1)
      BY <2>1, <2>3
    <3>2. Cardinality(C(l - 1)) \in Nat
      BY <1>1, <2>1
    <3>3. ConflictsUpTo(row, l) = ConflictsUpTo(row, l - 1) /\ ConflictsUpTo(row, l - 1) \in Nat
      BY <3>1, <3>2 DEF ConflictsUpTo
    <3> QED
      BY <2>3, <3>3 DEF One
  <2> QED
    BY <2>1, <2>2, <2>3
<1>6. \A l \in 0..n : ConflictsUpTo(row, l) \in Nat
  <2> SUFFICES ASSUME NEW l \in 0..n PROVE ConflictsUpTo(row, l) \in Nat
    OBVIOUS
  <2>1. l \in Nat
    OBVIOUS
  <2>2. Cardinality(C(l)) \in Nat
    BY <1>1, <2>1
  <2> QED
    BY <2>2 DEF ConflictsUpTo
<1> QED
  BY <1>3, <1>4, <1>5, <1>6

(* Three texts, their two diffs, the stable lines and the textbook's row. *)
Merging(a, o, t, ourDiff, theirDiff, lines, row) ==
  /\ a \in Seq(Symbol) /\ o \in Seq(Symbol) /\ t \in Seq(Symbol)
  /\ lines = StableLines(<<a, o, t>>, ourDiff, theirDiff) /\ Ruled(lines, Len(a))
  /\ row = ThreeWay(<<a, o, t>>, ourDiff, theirDiff) /\ Typed(row, Len(a) + 1)

(* Nothing is written for nothing. *)
LEMMA NothingWritten ==
  /\ Lines(<<>>) = <<>> /\ Rendered(Clean(<<>>)) = <<>> /\ Clean(<<>>).conflict = FALSE
  /\ Join(<<>>, <<>>) = <<>> /\ \A text \in Seq(Pieces) : Join(text, <<>>) = text
<1>1. <<>> \in Seq(Symbol) /\ Len(<<>>) = 0
  OBVIOUS
<1>2. Lines(<<>>) \in Seq(Pieces) /\ Len(Lines(<<>>)) = 0
  BY <1>1, LinesType
<1>3. Lines(<<>>) = <<>>
  BY <1>2
<1>4. Rendered(Clean(<<>>)) = Lines(<<>>) /\ Clean(<<>>).conflict = FALSE
  BY DEF Rendered, Clean
<1>5. Join(<<>>, <<>>) = <<>> /\ \A text \in Seq(Pieces) : Join(text, <<>>) = text
  BY WholeSeq DEF Join
<1> QED
  BY <1>3, <1>4, <1>5

(* Between stable lines neither text nor conflicts are added. *)
LEMMA SkipFree ==
  ASSUME NEW a, NEW o, NEW t, NEW ourDiff, NEW theirDiff, NEW lines, NEW row,
         Merging(a, o, t, ourDiff, theirDiff, lines, row),
         NEW x \in Nat, NEW q \in Nat, x <= q, q <= Len(a), Free(lines, x, q)
  PROVE  TextUpTo(row, q) = TextUpTo(row, x) /\ ConflictsUpTo(row, q) = ConflictsUpTo(row, x)
<1> DEFINE S == {l \in Nat : x + l <= q => /\ TextUpTo(row, x + l) = TextUpTo(row, x)
                                           /\ ConflictsUpTo(row, x + l) = ConflictsUpTo(row, x)}
           n == Len(a) + 1
<1>1. a \in Seq(Symbol) /\ Len(a) \in Nat /\ n \in Nat /\ Typed(row, n)
  BY DEF Merging
<1>2. 0 \in S
  OBVIOUS
<1>3. ASSUME NEW l \in Nat, l \in S PROVE l + 1 \in S
  <2> DEFINE m == x + (l + 1)
  <2> SUFFICES ASSUME m <= q
               PROVE  /\ TextUpTo(row, m) = TextUpTo(row, x)
                      /\ ConflictsUpTo(row, m) = ConflictsUpTo(row, x)
    OBVIOUS
  <2>1. x + l <= q /\ m - 1 = x + l /\ m \in Nat /\ x < m
    OBVIOUS
  <2>2. /\ TextUpTo(row, x + l) = TextUpTo(row, x)
        /\ ConflictsUpTo(row, x + l) = ConflictsUpTo(row, x)
    BY <1>3, <2>1
  <2>3. m \in 1..n /\ x \in 0..n
    BY <1>1, <2>1
  <2> HIDE DEF m, S, n
  <2>4. row[m].chunk = Clean(<<>>) /\ row[m].line = <<>>
    BY <1>1, <2>1, NotStable DEF Merging
  <2>5. TextUpTo(row, m)
          = Join(TextUpTo(row, m - 1), Join(Rendered(row[m].chunk), Lines(row[m].line)))
    BY <1>1, <2>3, TextAddsUp
  <2>6. TextUpTo(row, m) = Join(TextUpTo(row, x), Join(Rendered(Clean(<<>>)), Lines(<<>>)))
    BY <2>1, <2>2, <2>4, <2>5
  <2>7. TextUpTo(row, x) \in Seq(Pieces)
    BY <1>1, <2>3, TextAddsUp
  <2>8. TextUpTo(row, m) = TextUpTo(row, x)
    BY <2>6, <2>7, NothingWritten
  <2>9. /\ ConflictsUpTo(row, m) = ConflictsUpTo(row, m - 1) + One(row[m].chunk.conflict)
        /\ ConflictsUpTo(row, x) \in Nat
    BY <1>1, <2>3, ConflictsAddUp
  <2>10. One(row[m].chunk.conflict) = 0
    BY <2>4, NothingWritten DEF One
  <2> QED
    BY <2>1, <2>2, <2>8, <2>9, <2>10
<1> HIDE DEF S
<1>4. q - x \in Nat /\ x + (q - x) = q
  OBVIOUS
<1>5. q - x \in S
  BY <1>2, <1>3, <1>4, NatSetInduction
<1> QED
  BY <1>4, <1>5 DEF S

(* The result up to the ancestor's line l is that up to its line x, a chunk
   and some lines. *)
Reached(row, l, x, chunk, line) ==
  /\ TextUpTo(row, l) = Join(Join(TextUpTo(row, x), Rendered(chunk)), Lines(line))
  /\ ConflictsUpTo(row, l) = ConflictsUpTo(row, x) + One(chunk.conflict)

(* A stable line adds the settled chunk before it, and itself. *)
LEMMA ReachStable ==
  ASSUME NEW a, NEW o, NEW t, NEW ourDiff, NEW theirDiff, NEW lines, NEW row,
         Merging(a, o, t, ourDiff, theirDiff, lines, row),
         NEW x \in Nat, NEW y \in Nat, NEW z \in Nat, <<x, y, z>> \in lines,
         NEW q \in Nat, x <= q, q <= Len(a), Free(lines, x, q),
         NEW u \in Nat, NEW v \in Nat, <<q + 1, u + 1, v + 1>> \in lines,
         NEW chunk, chunk = SettledChunk(a, o, t, x, y, z, q, u, v),
         NEW line, line = LineAfter(a, q)
  PROVE  /\ Reached(row, q + 1, x, chunk, line)
         /\ line \in Seq(Symbol) /\ Rendered(chunk) \in Seq(Pieces)
<1> DEFINE n == Len(a) + 1
           m == q + 1
<1>1. a \in Seq(Symbol) /\ Len(a) \in Nat /\ n \in Nat /\ Typed(row, n)
  BY DEF Merging
<1>2. m \in 1..n /\ q \in 0..n /\ x \in 0..n /\ m - 1 = q
  BY <1>1
<1>3. row[m].chunk = chunk /\ row[m].line = line
  <2>1. /\ lines = StableLines(<<a, o, t>>, ourDiff, theirDiff) /\ Ruled(lines, Len(a))
        /\ row = ThreeWay(<<a, o, t>>, ourDiff, theirDiff)
    BY DEF Merging
  <2> HIDE DEF m, n
  <2>2. Adds(row, q + 1, chunk, LineAfter(a, q))
    BY <1>1, <2>1, AtStable
  <2> QED
    BY <2>2 DEF Adds, m
<1> HIDE DEF n, m
<1>4. /\ TextUpTo(row, m)
           = Join(TextUpTo(row, m - 1), Join(Rendered(row[m].chunk), Lines(row[m].line)))
      /\ TextUpTo(row, x) \in Seq(Pieces)
  BY <1>1, <1>2, TextAddsUp
<1>5. ConflictsUpTo(row, m) = ConflictsUpTo(row, m - 1) + One(row[m].chunk.conflict)
  <2>1. \A l \in 1..n : ConflictsUpTo(row, l) = ConflictsUpTo(row, l - 1) + One(row[l].chunk.conflict)
    BY <1>1, ConflictsAddUp
  <2> QED
    BY <1>2, <2>1
<1>6. TextUpTo(row, q) = TextUpTo(row, x) /\ ConflictsUpTo(row, q) = ConflictsUpTo(row, x)
  BY SkipFree
<1>7. line \in Seq(Symbol) /\ Rendered(chunk) \in Seq(Pieces)
  BY <1>2, <1>3, <1>1 DEF Typed
<1>8. Lines(line) \in Seq(Pieces)
  BY <1>7, LinesType
<1> DEFINE text == TextUpTo(row, x)
           p == Rendered(chunk)
           r == Lines(line)
<1>9. TextUpTo(row, m) = Join(text, Join(p, r))
  BY <1>2, <1>3, <1>4, <1>6
<1>10. text \in Seq(Pieces) /\ p \in Seq(Pieces) /\ r \in Seq(Pieces)
  BY <1>4, <1>7, <1>8
<1> HIDE DEF text, p, r
<1>11. Join(Join(text, p), r) = Join(text, Join(p, r))
  BY <1>10, JoinAssociates
<1>12. TextUpTo(row, m) = Join(Join(text, p), r)
  BY <1>9, <1>11
<1>13. ConflictsUpTo(row, m) = ConflictsUpTo(row, x) + One(chunk.conflict)
  BY <1>2, <1>3, <1>5, <1>6
<1>14. Reached(row, m, x, chunk, line)
  BY <1>12, <1>13 DEF Reached, text, p, r
<1> QED
  BY <1>7, <1>14 DEF m

(* Between two stable lines next to each other there is no chunk. *)
LEMMA EmptyChunk ==
  ASSUME NEW a \in Seq(Symbol), NEW o \in Seq(Symbol), NEW t \in Seq(Symbol),
         NEW x \in Nat, NEW y \in Nat, NEW z \in Nat
  PROVE  SettledChunk(a, o, t, x, y, z, x, y, z) = Clean(<<>>)
<1>1. Stretch(a, x, x) = <<>> /\ Stretch(o, y, y) = <<>> /\ Stretch(t, z, z) = <<>>
  BY WholeSeq DEF Stretch
<1> QED
  BY <1>1 DEF SettledChunk, Settle

(* The stretch of i lines after the first q and the line after it. *)
GoesOn(a, q, i) ==
  /\ Stretch(a, q, q + i) \in Seq(Symbol) /\ <<a[q + i + 1]>> \in Seq(Symbol)
  /\ Stretch(a, q, q + (i + 1)) = Join(Stretch(a, q, q + i), <<a[q + i + 1]>>)

(* A stretch and one more line. *)
LEMMA StretchOn ==
  ASSUME NEW a \in Seq(Symbol), NEW q \in Nat, NEW i \in Nat, q + i < Len(a)
  PROVE  GoesOn(a, q, i)
<1> DEFINE s == SubSeq(a, q + 1, q + i)
           e == a[q + i + 1]
           r == SubSeq(a, q + 1, q + (i + 1))
<1>1. Len(a) \in Nat /\ \A k \in 1..Len(a) : a[k] \in Symbol
  OBVIOUS
<1>2. s \in Seq(Symbol) /\ Len(s) = i /\ \A k \in 1..i : s[k] = a[q + k]
  BY <1>1
<1>3. r \in Seq(Symbol) /\ Len(r) = i + 1 /\ \A k \in 1..i + 1 : r[k] = a[q + k]
  BY <1>1
<1>4. e \in Symbol /\ r[i + 1] = e
  <2>1. q + i + 1 \in 1..Len(a) /\ i + 1 \in 1..i + 1 /\ q + i + 1 = q + (i + 1)
    BY <1>1
  <2> QED
    BY <1>1, <1>3, <2>1
<1> HIDE DEF s, e, r
<1>5. r = Append(s, e)
  <2>1. \A k \in 1..Len(s) : r[k] = s[k]
    BY SMTT(60), <1>2, <1>3
  <2> QED
    BY <1>2, <1>3, <1>4, <2>1, AppendByElements
<1>6. s \o <<e>> = Append(s, e) /\ <<e>> \in Seq(Symbol)
  BY <1>2, <1>4, AppendIsConcat
<1> QED
  BY <1>2, <1>5, <1>6 DEF GoesOn, Stretch, Join, s, e, r

(* A run of stable lines adds the settled chunk before it, and itself. *)
LEMMA ReachRun ==
  ASSUME NEW a, NEW o, NEW t, NEW ourDiff, NEW theirDiff, NEW lines, NEW row,
         Merging(a, o, t, ourDiff, theirDiff, lines, row),
         NEW x \in Nat, NEW y \in Nat, NEW z \in Nat, <<x, y, z>> \in lines,
         NEW q \in Nat, x <= q, Free(lines, x, q), NEW u \in Nat, NEW v \in Nat,
         NEW l \in Nat, 0 < l, q + l <= Len(a), Fixed(lines, q, u, v, l),
         NEW chunk, chunk = SettledChunk(a, o, t, x, y, z, q, u, v)
  PROVE  Reached(row, q + l, x, chunk, Stretch(a, q, q + l))
<1> DEFINE base == Join(TextUpTo(row, x), Rendered(chunk))
           count == ConflictsUpTo(row, x) + One(chunk.conflict)
           S == {i \in Nat : i + 1 <= l =>
                   /\ TextUpTo(row, q + (i + 1)) = Join(base, Lines(Stretch(a, q, q + (i + 1))))
                   /\ ConflictsUpTo(row, q + (i + 1)) = count}
<1>1. a \in Seq(Symbol) /\ o \in Seq(Symbol) /\ t \in Seq(Symbol) /\ Len(a) \in Nat /\ Typed(row, Len(a) + 1)
  BY DEF Merging
<1>2. /\ TextUpTo(row, q + 1) = Join(base, Lines(<<a[q + 1]>>))
      /\ ConflictsUpTo(row, q + 1) = count
      /\ Rendered(chunk) \in Seq(Pieces)
  <2>1. <<q + 1, u + 1, v + 1>> \in lines
    BY DEF Fixed
  <2>2. q <= Len(a) /\ q < Len(a)
    BY <1>1
  <2> DEFINE line == LineAfter(a, q)
  <2>3. line = <<a[q + 1]>>
    BY <2>2 DEF LineAfter
  <2>4. line = LineAfter(a, q)
    OBVIOUS
  <2> HIDE DEF line
  <2>5. Reached(row, q + 1, x, chunk, line) /\ Rendered(chunk) \in Seq(Pieces)
    BY <2>1, <2>2, <2>4, ReachStable
  <2> QED
    BY <2>3, <2>5 DEF Reached
<1>3. base \in Seq(Pieces)
  <2>1. x \in 0..Len(a) + 1 /\ Len(a) + 1 \in Nat
    BY <1>1
  <2>2. TextUpTo(row, x) \in Seq(Pieces)
    BY <1>1, <2>1, TextAddsUp
  <2> QED
    BY <1>2, <2>2, JoinAssociates
<1>4. count \in Int
  <2>1. x \in 0..Len(a) + 1 /\ Len(a) + 1 \in Nat
    BY <1>1
  <2>2. ConflictsUpTo(row, x) \in Nat
    BY <1>1, <2>1, ConflictsAddUp
  <2> QED
    BY <2>2 DEF One
<1> HIDE DEF base, count
<1>5. 0 \in S
  <2>1. q + 0 < Len(a) /\ 0 \in Nat
    BY <1>1
  <2>2. Stretch(a, q, q + (0 + 1)) = Join(Stretch(a, q, q + 0), <<a[q + 0 + 1]>>)
        /\ <<a[q + 0 + 1]>> \in Seq(Symbol)
    <3>1. GoesOn(a, q, 0)
      BY <1>1, <2>1, StretchOn
    <3> QED
      BY <3>1 DEF GoesOn
  <2>3. Stretch(a, q, q + 0) = <<>>
    BY <1>1, WholeSeq DEF Stretch
  <2>4. q + 0 + 1 = q + 1 /\ q + (0 + 1) = q + 1
    OBVIOUS
  <2>5. Join(<<>>, <<a[q + 1]>>) = <<a[q + 1]>>
    BY <2>2, <2>4, WholeSeq DEF Join
  <2>6. Stretch(a, q, q + (0 + 1)) = <<a[q + 1]>>
    BY <2>2, <2>3, <2>4, <2>5
  <2>7. TextUpTo(row, q + (0 + 1)) = Join(base, Lines(Stretch(a, q, q + (0 + 1))))
        /\ ConflictsUpTo(row, q + (0 + 1)) = count
    BY <1>2, <2>4, <2>6
  <2> QED
    BY <2>7
<1>6. ASSUME NEW i \in Nat, i \in S PROVE i + 1 \in S
  <2> DEFINE m == i + 1
  <2> SUFFICES ASSUME m + 1 <= l
               PROVE  /\ TextUpTo(row, q + (m + 1)) = Join(base, Lines(Stretch(a, q, q + (m + 1))))
                      /\ ConflictsUpTo(row, q + (m + 1)) = count
    OBVIOUS
  <2>1. TextUpTo(row, q + m) = Join(base, Lines(Stretch(a, q, q + m)))
        /\ ConflictsUpTo(row, q + m) = count
    BY <1>6
  <2>2. m \in Nat /\ 1 <= m /\ m <= l /\ m + 1 \in Nat /\ 1 <= m + 1 /\ q + m < Len(a)
    BY <1>1
  <2>3. <<q + m, u + m, v + m>> \in lines /\ <<q + (m + 1), u + (m + 1), v + (m + 1)>> \in lines
    BY <2>2 DEF Fixed
  <2> DEFINE qm == q + m
             um == u + m
             vm == v + m
  <2>4. /\ qm \in Nat /\ um \in Nat /\ vm \in Nat /\ qm <= qm /\ qm <= Len(a) /\ qm < Len(a)
        /\ q + (m + 1) = qm + 1 /\ u + (m + 1) = um + 1 /\ v + (m + 1) = vm + 1
    BY <1>1, <2>2
  <2>5. <<qm, um, vm>> \in lines /\ <<qm + 1, um + 1, vm + 1>> \in lines
    BY <2>3, <2>4
  <2>6. Free(lines, qm, qm)
    BY SMTT(60), <2>4 DEF Free, Merging, Ruled
  <2> DEFINE none == SettledChunk(a, o, t, qm, um, vm, qm, um, vm)
             line == LineAfter(a, qm)
  <2> HIDE DEF m, qm, um, vm, S
  <2>7. none = Clean(<<>>)
    BY SMTT(60), <1>1, <2>4, EmptyChunk
  <2>8. line = <<a[qm + 1]>>
    BY <2>4 DEF LineAfter
  <2>20. none = SettledChunk(a, o, t, qm, um, vm, qm, um, vm) /\ line = LineAfter(a, qm)
    OBVIOUS
  <2> HIDE DEF none, line
  <2>21. Reached(row, qm + 1, qm, none, line) /\ line \in Seq(Symbol)
    BY SMTT(60), <2>4, <2>5, <2>6, <2>20, ReachStable
  <2>9. /\ TextUpTo(row, qm + 1) = Join(Join(TextUpTo(row, qm), Rendered(none)), Lines(line))
        /\ ConflictsUpTo(row, qm + 1) = ConflictsUpTo(row, qm) + One(none.conflict)
        /\ line \in Seq(Symbol)
    BY <2>21 DEF Reached
  <2>10. Rendered(none) = <<>> /\ One(none.conflict) = 0
    BY <2>7, NothingWritten DEF One
  <2> DEFINE s == Stretch(a, q, q + m)
  <2>11. s \in Seq(Symbol) /\ Stretch(a, q, q + (m + 1)) = Join(s, <<a[q + m + 1]>>)
    <3>1. GoesOn(a, q, m)
      BY <1>1, <2>2, StretchOn
    <3> QED
      BY <3>1 DEF GoesOn
  <2>12. q + m + 1 = qm + 1
    BY <2>2 DEF qm
  <2> HIDE DEF s
  <2>13. Stretch(a, q, q + (m + 1)) = Join(s, line)
    BY <2>8, <2>11, <2>12
  <2>14. Lines(Stretch(a, q, q + (m + 1))) = Join(Lines(s), Lines(line))
    BY <2>9, <2>11, <2>13, LinesJoin
  <2>15. Lines(s) \in Seq(Pieces) /\ Lines(line) \in Seq(Pieces)
    BY <2>9, <2>11, LinesType
  <2>16. TextUpTo(row, qm) = Join(base, Lines(s)) /\ ConflictsUpTo(row, qm) = count
    BY <2>1 DEF qm, s
  <2>17. /\ Join(Join(base, Lines(s)), Lines(line)) = Join(base, Join(Lines(s), Lines(line)))
         /\ Join(base, Lines(s)) \in Seq(Pieces)
    BY <1>3, <2>15, JoinAssociates
  <2>18. TextUpTo(row, qm + 1) = Join(Join(base, Lines(s)), Lines(line))
    BY <2>9, <2>10, <2>16, <2>17, NothingWritten
  <2>19. ConflictsUpTo(row, qm + 1) = count
    BY <1>4, <2>9, <2>10, <2>16
  <2> QED
    BY <2>4, <2>14, <2>17, <2>18, <2>19
<1> HIDE DEF S
<1>7. l - 1 \in Nat /\ (l - 1) + 1 = l
  OBVIOUS
<1>8. l - 1 \in S
  BY <1>5, <1>6, <1>7, NatSetInduction
<1>9. TextUpTo(row, q + l) = Join(base, Lines(Stretch(a, q, q + l))) /\ ConflictsUpTo(row, q + l) = count
  BY <1>7, <1>8 DEF S
<1> QED
  BY <1>9 DEF Reached, base, count

-----------------------------------------------------------------------------
(* What is written for a range *)

(* A slice that is a tile is the stretch of the text between two places. *)
LEMMA SliceIsStretch ==
  ASSUME NEW text \in Seq(Symbol), NEW x \in Nat, NEW r \in Ranges, r.len # 0 => r.offset = x
  PROVE  AsSlice(text, r) = Stretch(text, x, x + r.len)
<1>1. r.offset \in Nat /\ r.len \in Nat
  BY DEF Ranges
<1>2. CASE r.len = 0
  <2>1. r.offset + r.len = r.offset /\ x + r.len = x
    BY <1>1, <1>2
  <2>2. SubSeq(text, r.offset + 1, r.offset) = <<>> /\ SubSeq(text, x + 1, x) = <<>>
    BY <1>1, WholeSeq
  <2> QED
    BY <2>1, <2>2 DEF AsSlice, RangeEnd, Stretch
<1>3. CASE r.len # 0
  BY <1>3 DEF AsSlice, RangeEnd, Stretch
<1> QED
  BY <1>2, <1>3

(* A part of a text is a text. *)
LEMMA StretchType ==
  ASSUME NEW text \in Seq(Symbol), NEW x \in Nat, NEW y \in Nat, y <= Len(text)
  PROVE  Stretch(text, x, y) \in Seq(Symbol)
<1>1. Len(text) \in Nat /\ \A i \in 1..Len(text) : text[i] \in Symbol
  OBVIOUS
<1>2. \A i \in (x + 1)..y : i \in 1..Len(text)
  BY <1>1
<1>3. SubSeq(text, x + 1, y) \in Seq(Symbol)
  BY <1>1, <1>2
<1> QED
  BY <1>3 DEF Stretch

(* A change that has been gathered: where only one side has changed there is
   nothing of the ancestor and nothing of the other side. *)
ChangeShape(m) ==
  /\ m.kind \in {"Ours", "Theirs", "Conflict"}
  /\ m.kind = "Ours" => m.ancestor.len = 0 /\ m.theirs.len = 0
  /\ m.kind = "Theirs" => m.ancestor.len = 0 /\ m.ours.len = 0

(* How a range is written, by its kind. *)
LEMMA WrittenByKind ==
  ASSUME NEW m
  PROVE  /\ m.kind = "Equal" => Written(m) = Lines(AsSlice(ancestor, m.ancestor))
         /\ m.kind = "Conflict" => Written(m) = ConflictLines(AsSlice(ancestor, m.ancestor),
                                                  AsSlice(ours, m.ours), AsSlice(theirs, m.theirs))
         /\ m.kind = "Theirs" => Written(m) = Lines(AsSlice(theirs, m.theirs))
         /\ m.kind = "Ours" \/ m.kind = "Both" => Written(m) = Lines(AsSlice(ours, m.ours))
BY DEF Written

(* Cleaned up and written, it is the settled chunk of the three slices. *)
LEMMA WrittenIsRendered ==
  ASSUME NEW m \in Ranges3, ChangeShape(m),
         NEW chunk, chunk = Settle(AsSlice(ancestor, m.ancestor), AsSlice(ours, m.ours),
                                   AsSlice(theirs, m.theirs))
  PROVE  /\ Written(Cleaned(m)) = Rendered(chunk)
         /\ One(chunk.conflict) = IF Cleaned(m).kind = "Conflict" THEN 1 ELSE 0
<1> DEFINE a == AsSlice(ancestor, m.ancestor)
           o == AsSlice(ours, m.ours)
           t == AsSlice(theirs, m.theirs)
           both == Range3("Both", EmptyRange, m.ours, m.theirs)
           their == Range3("Theirs", EmptyRange, EmptyRange, m.theirs)
           our == Range3("Ours", EmptyRange, m.ours, EmptyRange)
           both3 == [conflict |-> TRUE, original |-> a, ours |-> o, theirs |-> t]
<1>1. /\ both.kind = "Both" /\ both.ours = m.ours
      /\ their.kind = "Theirs" /\ their.theirs = m.theirs
      /\ our.kind = "Ours" /\ our.ours = m.ours
  BY DEF Range3
<1>2. /\ Written(both) = Lines(o) /\ Written(our) = Lines(o) /\ Written(their) = Lines(t)
      /\ m.kind = "Conflict" => Written(m) = ConflictLines(a, o, t)
      /\ m.kind = "Ours" => Written(m) = Lines(o)
      /\ m.kind = "Theirs" => Written(m) = Lines(t)
  <2> HIDE DEF both, their, our
  <2> QED
    BY <1>1, WrittenByKind
<1>3. chunk = IF o = t THEN Clean(o) ELSE IF a = o THEN Clean(t) ELSE IF a = t THEN Clean(o) ELSE both3
  BY DEF Settle
<1>4. ASSUME NEW ids PROVE Rendered(Clean(ids)) = Lines(ids) /\ One(Clean(ids).conflict) = 0
  BY DEF Rendered, Clean, One
<1>5. Rendered(both3) = ConflictLines(a, o, t) /\ One(both3.conflict) = 1
  BY DEF Rendered, One
<1>6. CASE m.kind = "Conflict"
  <2>1. Cleaned(m) = IF o = t THEN both ELSE IF a = o THEN their ELSE IF a = t THEN our ELSE m
    <3> HIDE DEF both, their, our
    <3> QED
      BY <1>6, Zenon DEF Cleaned, both, their, our
  <2> HIDE DEF a, o, t, both, their, our, both3
  <2>2. CASE o = t
    BY <1>1, <1>2, <1>3, <1>4, <2>1, <2>2
  <2>3. CASE o # t /\ a = o
    BY <1>1, <1>2, <1>3, <1>4, <2>1, <2>3
  <2>4. CASE o # t /\ a # o /\ a = t
    BY <1>1, <1>2, <1>3, <1>4, <2>1, <2>4
  <2>5. CASE o # t /\ a # o /\ a # t
    BY <1>2, <1>3, <1>5, <1>6, <2>1, <2>5
  <2> QED
    BY <2>2, <2>3, <2>4, <2>5
<1>7. ASSUME NEW text, NEW r \in Ranges, r.len = 0 PROVE AsSlice(text, r) = <<>>
  <2>1. AsSlice(text, r) = [j \in 1..r.len |-> text[r.offset + j]]
    BY SliceElements
  <2> QED
    BY <1>7, <2>1
<1>8. m.ancestor \in Ranges /\ m.ours \in Ranges /\ m.theirs \in Ranges
  BY DEF Ranges3
<1>9. CASE m.kind = "Ours"
  <2>1. Cleaned(m) = m
    BY <1>9 DEF Cleaned
  <2>2. a = <<>> /\ t = <<>>
    BY <1>7, <1>8, <1>9 DEF ChangeShape
  <2> HIDE DEF a, o, t, both3
  <2>3. chunk = Clean(o)
    BY <1>3, <2>2
  <2> QED
    BY <1>2, <1>4, <1>9, <2>1, <2>3
<1>10. CASE m.kind = "Theirs"
  <2>1. Cleaned(m) = m
    BY <1>10 DEF Cleaned
  <2>2. a = <<>> /\ o = <<>>
    BY <1>7, <1>8, <1>10 DEF ChangeShape
  <2> HIDE DEF a, o, t, both3
  <2>3. chunk = Clean(t)
    BY <1>3, <2>2
  <2> QED
    BY <1>2, <1>4, <1>10, <2>1, <2>3
<1> QED
  BY <1>6, <1>9, <1>10 DEF ChangeShape

-----------------------------------------------------------------------------
(* How the ranges mark the stable lines *)

(* A range from the places x, y and z on: an Equal has stable lines only, and
   what is not one has none. *)
MarkAt(lines, m, x, y, z) ==
  IF m.kind = "Equal"
  THEN /\ m.ancestor.len # 0 /\ m.ours.len = m.ancestor.len /\ m.theirs.len = m.ancestor.len
       /\ Fixed(lines, x, y, z, m.ancestor.len)
  ELSE Free(lines, x, x + m.ancestor.len)

Marks(lines, rs, n) ==
  MarkAt(lines, rs[n], Place(rs, "ancestor", n - 1), Place(rs, "ours", n - 1), Place(rs, "theirs", n - 1))
Marked(lines, rs) == \A n \in 1..Len(rs) : Marks(lines, rs, n)

(* One more range, which does so where the others end. *)
LEMMA MarkedAppend ==
  ASSUME NEW lines, NEW rs \in Seq(Ranges3), NEW m \in Ranges3, Marked(lines, rs),
         MarkAt(lines, m, EndOf(rs, "ancestor"), EndOf(rs, "ours"), EndOf(rs, "theirs"))
  PROVE  Marked(lines, Append(rs, m))
<1> DEFINE qs == Append(rs, m)
<1>1. /\ qs \in Seq(Ranges3) /\ Len(rs) \in Nat /\ Len(qs) = Len(rs) + 1
      /\ qs[Len(rs) + 1] = m /\ \A i \in 1..Len(rs) : qs[i] = rs[i]
  OBVIOUS
<1> HIDE DEF qs
<1>2. ASSUME NEW side \in Sides PROVE \A n \in 0..Len(rs) : Place(qs, side, n) = Place(rs, side, n)
  BY <1>1, PlacePrefix
<1>3. "ancestor" \in Sides /\ "ours" \in Sides /\ "theirs" \in Sides
  BY DEF Sides
<1>4. ASSUME NEW n \in 1..Len(qs) PROVE Marks(lines, qs, n)
  <2>1. n - 1 \in 0..Len(rs)
    BY <1>1
  <2>2. /\ Place(qs, "ancestor", n - 1) = Place(rs, "ancestor", n - 1)
        /\ Place(qs, "ours", n - 1) = Place(rs, "ours", n - 1)
        /\ Place(qs, "theirs", n - 1) = Place(rs, "theirs", n - 1)
    BY <1>2, <1>3, <2>1
  <2>3. CASE n \in 1..Len(rs)
    <3>1. Marks(lines, rs, n) /\ qs[n] = rs[n]
      BY <1>1, <2>3 DEF Marked
    <3> QED
      BY <2>2, <3>1 DEF Marks
  <2>4. CASE n = Len(rs) + 1
    <3>1. n - 1 = Len(rs) /\ qs[n] = m
      BY <1>1, <2>4
    <3> QED
      BY <2>2, <3>1 DEF Marks, EndOf
  <2> QED
    BY <1>1, <2>3, <2>4
<1> QED
  BY <1>4 DEF Marked, qs

(* None marks nothing. *)
LEMMA MarkedEmpty ==
  ASSUME NEW lines
  PROVE  Marked(lines, <<>>)
BY DEF Marked

(* Merge ranges: between two changes there is an Equal. *)
Regular(rs) ==
  \A n \in 1..Len(rs) :
    /\ rs[n].kind # "Equal" => ChangeShape(rs[n])
    /\ n # 1 /\ rs[n].kind # "Equal" => rs[n - 1].kind = "Equal"

(* The next range may be a change. *)
Ready(rs) == Len(rs) # 0 => rs[Len(rs)].kind = "Equal"

(* One more of them. *)
LEMMA RegularAppend ==
  ASSUME NEW rs \in Seq(Ranges3), NEW m \in Ranges3, Regular(rs),
         m.kind # "Equal" => ChangeShape(m) /\ Ready(rs)
  PROVE  Regular(Append(rs, m)) /\ (m.kind = "Equal" => Ready(Append(rs, m)))
<1> DEFINE qs == Append(rs, m)
<1>1. /\ qs \in Seq(Ranges3) /\ Len(rs) \in Nat /\ Len(qs) = Len(rs) + 1
      /\ qs[Len(rs) + 1] = m /\ \A i \in 1..Len(rs) : qs[i] = rs[i]
  OBVIOUS
<1> HIDE DEF qs
<1>2. ASSUME NEW n \in 1..Len(qs), qs[n].kind # "Equal"
      PROVE  ChangeShape(qs[n]) /\ (n # 1 => qs[n - 1].kind = "Equal")
  <2>1. CASE n \in 1..Len(rs)
    <3>1. qs[n] = rs[n] /\ (n # 1 => n - 1 \in 1..Len(rs))
      BY <1>1, <2>1
    <3> QED
      BY <1>1, <1>2, <2>1, <3>1 DEF Regular
  <2>2. CASE n = Len(rs) + 1
    <3>1. qs[n] = m /\ (n # 1 => Len(rs) # 0 /\ Len(rs) \in 1..Len(rs) /\ n - 1 = Len(rs))
      BY <1>1, <2>2
    <3> QED
      BY <1>1, <1>2, <3>1 DEF Ready
  <2> QED
    BY <1>1, <2>1, <2>2
<1>3. Regular(qs)
  BY <1>2 DEF Regular
<1>4. m.kind = "Equal" => Ready(qs)
  BY <1>1 DEF Ready
<1> QED
  BY <1>3, <1>4 DEF qs

(* A region is made no range, or one that is a change. *)
LEMMA RegionMakes ==
  ASSUME NEW r, NEW rs, RegionFits(r, rs)
  PROVE  \/ CreateMergeRange(r) = <<>>
         \/ \E m \in Ranges3 : CreateMergeRange(r) = <<m>> /\ ChangeShape(m)
<1> DEFINE has == {side \in DOMAIN r : r[side] # None}
           a == OrEmpty(r.ancestor)
           o == OrEmpty(r.ours)
           t == OrEmpty(r.theirs)
<1>1. DOMAIN r = Sides /\ \A side \in Sides : r[side] # None => r[side][1] \in Ranges
  BY DEF RegionFits
<1>2. EmptyRange \in Ranges /\ EmptyRange.len = 0
  BY DEF EmptyRange, MkRange, Ranges
<1>3. ASSUME NEW side \in Sides
      PROVE  OrEmpty(r[side]) \in Ranges /\ (side \notin has => OrEmpty(r[side]).len = 0)
  BY <1>1, <1>2 DEF OrEmpty
<1>4. "ancestor" \in Sides /\ "ours" \in Sides /\ "theirs" \in Sides
  BY DEF Sides
<1>5. /\ a \in Ranges /\ ("ancestor" \notin has => a.len = 0)
      /\ o \in Ranges /\ ("ours" \notin has => o.len = 0)
      /\ t \in Ranges /\ ("theirs" \notin has => t.len = 0)
  <2>1. OrEmpty(r["ancestor"]) \in Ranges /\ ("ancestor" \notin has => OrEmpty(r["ancestor"]).len = 0)
    BY <1>3, <1>4
  <2>2. OrEmpty(r["ours"]) \in Ranges /\ ("ours" \notin has => OrEmpty(r["ours"]).len = 0)
    BY <1>3, <1>4
  <2>3. OrEmpty(r["theirs"]) \in Ranges /\ ("theirs" \notin has => OrEmpty(r["theirs"]).len = 0)
    BY <1>3, <1>4
  <2> QED
    BY <2>1, <2>2, <2>3
<1>6. CreateMergeRange(r) =
        IF has \subseteq {"ancestor"} THEN <<>>
        ELSE IF has = {"ours"} THEN <<Range3("Ours", a, o, t)>>
        ELSE IF has = {"theirs"} THEN <<Range3("Theirs", a, o, t)>>
        ELSE <<Range3("Conflict", a, o, t)>>
  BY DEF CreateMergeRange
<1> HIDE DEF a, o, t, has
<1>7. ASSUME NEW kind \in {"Ours", "Theirs", "Conflict"}, NEW m, m = Range3(kind, a, o, t)
      PROVE  m \in Ranges3 /\ m.kind = kind /\ m.ancestor = a /\ m.ours = o /\ m.theirs = t
  BY <1>5, <1>7 DEF Range3, Ranges3, Kinds3
<1>8. CASE has = {"ours"}
  <2> DEFINE m == Range3("Ours", a, o, t)
  <2>1. m \in Ranges3 /\ m.kind = "Ours" /\ m.ancestor = a /\ m.ours = o /\ m.theirs = t
    BY <1>7
  <2>2. CreateMergeRange(r) = <<m>> /\ a.len = 0 /\ t.len = 0
    BY <1>5, <1>6, <1>8
  <2> HIDE DEF m
  <2>3. ChangeShape(m)
    BY <2>1, <2>2 DEF ChangeShape
  <2> QED
    BY <2>1, <2>2, <2>3
<1>9. CASE has = {"theirs"}
  <2> DEFINE m == Range3("Theirs", a, o, t)
  <2>1. m \in Ranges3 /\ m.kind = "Theirs" /\ m.ancestor = a /\ m.ours = o /\ m.theirs = t
    BY <1>7
  <2>2. CreateMergeRange(r) = <<m>> /\ a.len = 0 /\ o.len = 0
    BY <1>5, <1>6, <1>9
  <2> HIDE DEF m
  <2>3. ChangeShape(m)
    BY <2>1, <2>2 DEF ChangeShape
  <2> QED
    BY <2>1, <2>2, <2>3
<1>10. CASE has # {"ours"} /\ has # {"theirs"}
  <2> DEFINE m == Range3("Conflict", a, o, t)
  <2>1. m \in Ranges3 /\ m.kind = "Conflict"
    BY <1>7
  <2>2. CreateMergeRange(r) = <<>> \/ CreateMergeRange(r) = <<m>>
    BY <1>6, <1>10
  <2> HIDE DEF m
  <2>3. ChangeShape(m)
    BY <2>1 DEF ChangeShape
  <2> QED
    BY <2>1, <2>2, <2>3
<1> QED
  BY <1>8, <1>9, <1>10

-----------------------------------------------------------------------------
(* The invariant *)

Kept == StableLines(<<ancestor, ours, theirs>>, ourSolution, theirSolution)

(* The walk marks the stable lines, also by what is left of its two items. *)
WalkMarked ==
  /\ Marked(Kept, walk)
  /\ stage = "walk" => /\ ItemFrom(ourItem, ourNext, ourSolution)
                       /\ ItemFrom(theirItem, theirNext, theirSolution)

(* So do the merge ranges, and there is no stable line in the region. *)
GatherMarked ==
  stage = "gather" =>
    /\ Marked(Kept, merged) /\ Regular(merged) /\ Ready(merged)
    /\ Free(Kept, EndOf(merged, "ancestor"), Place(walk, "ancestor", at - 1))

(* The merge ranges as they have been gathered. *)
Raw(raw) ==
  /\ raw \in Seq(Ranges3) /\ Marked(Kept, raw) /\ Regular(raw)
  /\ \A side \in Sides : Tiled(raw, side) /\ EndOf(raw, side) = Len(TextOf(side))

(* Those that have been gone by are cleaned up. *)
CleanupMarked ==
  stage = "cleanup" =>
    /\ at <= Len(merged) + 1
    /\ \E raw : /\ Raw(raw) /\ Len(merged) = Len(raw)
                /\ \A n \in 1..Len(raw) : merged[n] = IF n < at THEN Cleaned(raw[n]) ELSE raw[n]

NothingYet == stage \in {"walk", "gather", "cleanup"} => output = <<>> /\ conflicts = 0

(* The text of the first n ranges is the textbook's up to the stable line at
   x, y and z and the settled chunk from there to where the ranges end; after
   an Equal that is the same place. *)
SettledTo(raw, n, x, y, z) ==
  SettledChunk(ancestor, ours, theirs, x, y, z,
               Place(raw, "ancestor", n), Place(raw, "ours", n), Place(raw, "theirs", n))
SoFarFrom(raw, n, text, count, x, y, z) ==
  /\ <<x, y, z>> \in Kept
  /\ x <= Place(raw, "ancestor", n) /\ Free(Kept, x, Place(raw, "ancestor", n))
  /\ n = 0 \/ raw[n].kind = "Equal" =>
       x = Place(raw, "ancestor", n) /\ y = Place(raw, "ours", n) /\ z = Place(raw, "theirs", n)
  /\ text = Join(TextUpTo(Textbook, x), Rendered(SettledTo(raw, n, x, y, z)))
  /\ count = ConflictsUpTo(Textbook, x) + One(SettledTo(raw, n, x, y, z).conflict)
SoFar(raw, n, text, count) ==
  \E x \in Nat, y \in Nat, z \in Nat : SoFarFrom(raw, n, text, count, x, y, z)

OutputMarked ==
  stage = "output" =>
    /\ at <= Len(merged) + 1
    /\ \E raw : /\ Raw(raw) /\ Len(merged) = Len(raw)
                /\ \A n \in 1..Len(raw) : merged[n] = Cleaned(raw[n])
                /\ SoFar(raw, at - 1, output, conflicts)

TextInv ==
  WalkMarked /\ GatherMarked /\ CleanupMarked /\ NothingYet /\ OutputMarked /\ AgreesWithTextbook

(* The texts, the diffs and what the textbook makes of them. *)
LEMMA MergingGiven ==
  ASSUME MInv
  PROVE  /\ Merging(ancestor, ours, theirs, ourSolution, theirSolution, Kept, Textbook)
         /\ <<0, 0, 0>> \in Kept
         /\ <<Len(ancestor) + 1, Len(ours) + 1, Len(theirs) + 1>> \in Kept
         /\ Ruled(Kept, Len(ancestor))
         /\ Fits(ourSolution, ancestor, ours) /\ Fits(theirSolution, ancestor, theirs)
         /\ ancestor \in Seq(Symbol) /\ ours \in Seq(Symbol) /\ theirs \in Seq(Symbol)
         /\ Len(ancestor) \in Nat /\ Len(ours) \in Nat /\ Len(theirs) \in Nat
<1>1. /\ ancestor \in Seq(Symbol) /\ ours \in Seq(Symbol) /\ theirs \in Seq(Symbol)
      /\ Len(ancestor) \in Nat /\ Len(ours) \in Nat /\ Len(theirs) \in Nat
  <2>1. <<ancestor, ours, theirs>> \in Seq(Symbol) \X Seq(Symbol) \X Seq(Symbol)
    BY MergeAssumption DEF MInv, Given
  <2> QED
    BY <2>1
<1>2. Fits(ourSolution, ancestor, ours) /\ Fits(theirSolution, ancestor, theirs)
  BY SolutionsFit DEF MInv
<1>3. Kept = StableLines(<<ancestor, ours, theirs>>, ourSolution, theirSolution)
  BY DEF Kept
<1>4. /\ Ruled(Kept, Len(ancestor)) /\ <<0, 0, 0>> \in Kept
      /\ <<Len(ancestor) + 1, Len(ours) + 1, Len(theirs) + 1>> \in Kept
  BY <1>1, <1>2, <1>3, StableRuled
<1>5. Textbook = ThreeWay(<<ancestor, ours, theirs>>, ourSolution, theirSolution)
  BY DEF Textbook
<1>6. Typed(Textbook, Len(ancestor) + 1)
  BY <1>1, <1>2, <1>5, TextbookTyped
<1>7. Merging(ancestor, ours, theirs, ourSolution, theirSolution, Kept, Textbook)
  BY <1>1, <1>3, <1>4, <1>5, <1>6 DEF Merging
<1> QED
  BY <1>1, <1>2, <1>4, <1>7

(* The inputs stay, and with them all that is said of them only. *)
LEMMA InputsStay ==
  ASSUME UNCHANGED inputs
  PROVE  /\ Kept' = Kept /\ Textbook' = Textbook
         /\ \A m : Cleaned(m)' = Cleaned(m)
         /\ \A raw : Raw(raw)' <=> Raw(raw)
<1>1. UNCHANGED <<ancestor, ours, theirs, ourSolution, theirSolution, style>>
  BY DEF inputs
<1>2. Kept' = Kept /\ Textbook' = Textbook
  BY <1>1 DEF Kept, Textbook
<1>3. ASSUME NEW m PROVE Cleaned(m)' = Cleaned(m)
  BY <1>1 DEF Cleaned
<1>4. ASSUME NEW side PROVE TextOf(side)' = TextOf(side)
  BY <1>1 DEF TextOf
<1>5. ASSUME NEW raw PROVE Raw(raw)' <=> Raw(raw)
  BY <1>2, <1>4 DEF Raw
<1> QED
  BY <1>2, <1>3, <1>5

(* The text so far stays what it is, too. *)
LEMMA SoFarStays ==
  ASSUME UNCHANGED inputs, NEW raw, NEW n, NEW text, NEW count
  PROVE  SoFar(raw, n, text, count)' <=> SoFar(raw, n, text, count)
<1>1. UNCHANGED <<ancestor, ours, theirs, ourSolution, theirSolution, style>>
  BY DEF inputs
<1>2. Kept' = Kept /\ Textbook' = Textbook
  BY InputsStay
<1>3. ASSUME NEW chunk PROVE Rendered(chunk)' = Rendered(chunk)
  BY <1>1 DEF Rendered, ConflictLines
<1>4. ASSUME NEW row PROVE PartsOf(row)' = PartsOf(row)
  BY <1>3 DEF PartsOf
<1>5. ASSUME NEW row, NEW x PROVE TextUpTo(row, x)' = TextUpTo(row, x)
  BY <1>4 DEF TextUpTo
<1>6. ASSUME NEW x, NEW y, NEW z
      PROVE  SettledTo(raw, n, x, y, z)' = SettledTo(raw, n, x, y, z)
  BY <1>1 DEF SettledTo
<1>7. ASSUME NEW x PROVE TextUpTo(Textbook, x)' = TextUpTo(Textbook, x)
  BY <1>2, <1>5
<1>8. ASSUME NEW x, NEW y, NEW z
      PROVE  /\ Rendered(SettledTo(raw, n, x, y, z))' = Rendered(SettledTo(raw, n, x, y, z))
             /\ (SettledTo(raw, n, x, y, z).conflict)' = SettledTo(raw, n, x, y, z).conflict
  BY <1>3, <1>6
<1>9. ASSUME NEW x PROVE ConflictsUpTo(Textbook, x)' = ConflictsUpTo(Textbook, x)
  BY <1>2 DEF ConflictsUpTo
<1>10. ASSUME NEW x, NEW y, NEW z
       PROVE  SoFarFrom(raw, n, text, count, x, y, z)' <=> SoFarFrom(raw, n, text, count, x, y, z)
  BY <1>2, <1>7, <1>8, <1>9 DEF SoFarFrom
<1> QED
  BY <1>10 DEF SoFar

(* Before anything has been walked over. *)
LEMMA InitTextInv ==
  ASSUME Init
  PROVE  TextInv
<1>1. /\ ourItem = NextOf(ourSolution, 0) /\ ourNext = Min2(1, Len(ourSolution))
      /\ theirItem = NextOf(theirSolution, 0) /\ theirNext = Min2(1, Len(theirSolution))
      /\ walk = <<>> /\ stage = "walk" /\ output = <<>> /\ conflicts = 0
  BY DEF Init
<1>2. Fits(ourSolution, ancestor, ours) /\ Fits(theirSolution, ancestor, theirs)
  <2>1. MInv
    BY InitMInv
  <2> QED
    BY <2>1, SolutionsFit DEF MInv
<1>3. ASSUME NEW ds \in Seq(DiffRange)
      PROVE  ItemFrom(NextOf(ds, 0), Min2(1, Len(ds)), ds)
  <2>1. 0 \in 0..Len(ds) /\ ItemFrom(None, 0, ds)
    BY DEF ItemFrom
  <2>2. ItemFrom(Refill(None, ds, 0), Count(None, ds, 0), ds)
    BY <2>1, RefillFrom
  <2>3. Refill(None, ds, 0) = NextOf(ds, 0) /\ Count(None, ds, 0) = Min2(1, Len(ds))
    BY DEF Refill, Count, UsedUp
  <2> QED
    BY <2>2, <2>3
<1>4. ItemFrom(ourItem, ourNext, ourSolution) /\ ItemFrom(theirItem, theirNext, theirSolution)
  BY <1>1, <1>2, <1>3 DEF Fits
<1>5. WalkMarked
  BY <1>1, <1>4, MarkedEmpty DEF WalkMarked
<1>6. GatherMarked /\ CleanupMarked /\ NothingYet /\ OutputMarked /\ AgreesWithTextbook
  BY <1>1 DEF GatherMarked, CleanupMarked, NothingYet, OutputMarked, AgreesWithTextbook
<1> QED
  BY <1>5, <1>6 DEF TextInv

(* What is added to the walk marks the stable lines, if what has been taken of
   the two items is rest of their items. *)
LEMMA WalkMarksOn ==
  ASSUME MInv, TextInv, Walking, NEW newOurs, NEW newTheirs, NEW m,
         Consume(newOurs, newTheirs, m), m \in Ranges3,
         MarkAt(Kept, m, EndOf(walk, "ancestor"), EndOf(walk, "ours"), EndOf(walk, "theirs")),
         ItemFrom(newOurs, ourNext, ourSolution), ItemFrom(newTheirs, theirNext, theirSolution)
  PROVE  TextInv'
<1>1. /\ stage = "walk" /\ stage' = "walk"
      /\ UNCHANGED <<inputs, at, region, merged, output, conflicts>>
  BY DEF Walking
<1>2. /\ walk' = Append(walk, m)
      /\ ourItem' = Refill(newOurs, ourSolution, ourNext)
      /\ ourNext' = Count(newOurs, ourSolution, ourNext)
      /\ theirItem' = Refill(newTheirs, theirSolution, theirNext)
      /\ theirNext' = Count(newTheirs, theirSolution, theirNext)
  BY DEF Consume
<1>3. UNCHANGED <<ourSolution, theirSolution>> /\ Kept' = Kept
  BY <1>1, InputsStay DEF inputs
<1>4. walk \in Seq(Ranges3) /\ Marked(Kept, walk)
  BY DEF MInv, WalkInv, TextInv, WalkMarked
<1>5. Marked(Kept, walk')
  BY <1>2, <1>4, MarkedAppend
<1>6. /\ ourNext \in 0..Len(ourSolution) /\ theirNext \in 0..Len(theirSolution)
      /\ ourSolution \in Seq(DiffRange) /\ theirSolution \in Seq(DiffRange)
  BY MergingGiven DEF MInv, TypeOK, Fits
<1>7. ItemFrom(ourItem', ourNext', ourSolution) /\ ItemFrom(theirItem', theirNext', theirSolution)
  BY <1>2, <1>6, RefillFrom
<1>8. WalkMarked'
  BY <1>3, <1>5, <1>7 DEF WalkMarked
<1>9. NothingYet'
  BY <1>1 DEF TextInv, NothingYet
<1>10. GatherMarked' /\ CleanupMarked' /\ OutputMarked' /\ AgreesWithTextbook'
  BY <1>1 DEF GatherMarked, CleanupMarked, OutputMarked, AgreesWithTextbook
<1> QED
  BY <1>8, <1>9, <1>10 DEF TextInv

(* An Insert takes nothing of the ancestor. *)
LEMMA TakesTextInv ==
  ASSUME MInv, TextInv, TakeOurs \/ TakeTheirs
  PROVE  TextInv'
<1>1. EndOf(walk, "ancestor") \in Nat
  BY WhileWalking DEF TakeOurs, TakeTheirs, Walking
<1>2. EmptyRange \in Ranges /\ EmptyRange.len = 0
  BY DEF EmptyRange, MkRange, Ranges
<1>3. stage = "walk"
  BY DEF TakeOurs, TakeTheirs, Walking
<1>4. /\ ItemFrom(ourItem, ourNext, ourSolution) /\ ItemFrom(theirItem, theirNext, theirSolution)
      /\ ItemFrom(None, ourNext, ourSolution) /\ ItemFrom(None, theirNext, theirSolution)
  BY <1>3 DEF TextInv, WalkMarked, ItemFrom
<1>5. /\ ourItem # None => ourItem[1].new \in Ranges
      /\ theirItem # None => theirItem[1].new \in Ranges
  <2>1. /\ ourItem # None => ourItem[1] \in DiffRange
        /\ theirItem # None => theirItem[1] \in DiffRange
    BY DEF MInv, TypeOK
  <2> QED
    BY <2>1, ItemLens
<1>6. ASSUME NEW m, m.kind # "Equal", m.ancestor = EmptyRange, NEW x \in Nat, NEW y, NEW z
      PROVE  MarkAt(Kept, m, x, y, z)
  <2>1. x + m.ancestor.len = x
    BY <1>2, <1>6
  <2>2. Free(Kept, x, x)
    BY MergingGiven DEF Free, Ruled
  <2> QED
    BY <1>6, <2>1, <2>2 DEF MarkAt
<1>7. CASE TakeOurs
  <2> DEFINE m == Range3("Ours", EmptyRange, ourItem[1].new, EmptyRange)
  <2>1. Walking /\ ourItem # None /\ Consume(None, theirItem, m)
    BY <1>7 DEF TakeOurs, Is
  <2>2. m \in Ranges3 /\ m.kind # "Equal" /\ m.ancestor = EmptyRange
    BY <1>2, <1>5, <2>1 DEF Range3, Ranges3, Kinds3
  <2> HIDE DEF m
  <2>3. MarkAt(Kept, m, EndOf(walk, "ancestor"), EndOf(walk, "ours"), EndOf(walk, "theirs"))
    BY <1>1, <1>6, <2>2
  <2> QED
    BY <1>4, <2>1, <2>2, <2>3, WalkMarksOn
<1>8. CASE TakeTheirs
  <2> DEFINE m == Range3("Theirs", EmptyRange, EmptyRange, theirItem[1].new)
  <2>1. Walking /\ theirItem # None /\ Consume(ourItem, None, m)
    BY <1>8 DEF TakeTheirs, Is
  <2>2. m \in Ranges3 /\ m.kind # "Equal" /\ m.ancestor = EmptyRange
    BY <1>2, <1>5, <2>1 DEF Range3, Ranges3, Kinds3
  <2> HIDE DEF m
  <2>3. MarkAt(Kept, m, EndOf(walk, "ancestor"), EndOf(walk, "ours"), EndOf(walk, "theirs"))
    BY <1>1, <1>6, <2>2
  <2> QED
    BY <1>4, <2>1, <2>2, <2>3, WalkMarksOn
<1> QED
  BY <1>7, <1>8

(* A pair of items says which of the lines of the ancestor are stable. *)
LEMMA PairTextInv ==
  ASSUME MInv, TextInv, Pair
  PROVE  TextInv'
<1> DEFINE o == ourItem[1]
           t == theirItem[1]
           len == Min2(o.old.len, t.old.len)
           m == Paired(o, t, len)
           x == EndOf(walk, "ancestor")
           y == EndOf(walk, "ours")
           z == EndOf(walk, "theirs")
<1>1. /\ Walking /\ ourItem # None /\ theirItem # None /\ stage = "walk"
      /\ o.kind \in {"Equal", "Delete"} /\ t.kind \in {"Equal", "Delete"}
      /\ Consume(Some(ShrunkFront(o, len)), Some(ShrunkFront(t, len)), m)
  BY DEF Pair, Is, Walking
<1>2. /\ x \in Nat /\ y \in Nat /\ z \in Nat
      /\ StandsAt(ourItem, ourNext, ourSolution, x, y)
      /\ StandsAt(theirItem, theirNext, theirSolution, x, z)
  BY <1>1, WhileWalking
<1> HIDE DEF x, y, z
<1>3. ItemFrom(ourItem, ourNext, ourSolution) /\ ItemFrom(theirItem, theirNext, theirSolution)
  BY <1>1 DEF TextInv, WalkMarked
<1>4. /\ o \in DiffRange /\ t \in DiffRange /\ ~IsEmpty(o) /\ ~IsEmpty(t)
      /\ ourNext \in 0..Len(ourSolution) /\ theirNext \in 0..Len(theirSolution)
  BY <1>1, <1>2 DEF StandsAt, Rest
<1>5. o.old.len \in Nat /\ t.old.len \in Nat /\ o.old.len # 0 /\ t.old.len # 0
  BY <1>1, <1>4, ItemLens DEF IsEmpty
<1>6. len \in Nat /\ len <= o.old.len /\ len <= t.old.len /\ len # 0
  BY <1>5 DEF Min2
<1> HIDE DEF len
<1>7. /\ ourSolution \in Seq(DiffRange) /\ theirSolution \in Seq(DiffRange)
      /\ Fits(ourSolution, ancestor, ours) /\ Fits(theirSolution, ancestor, theirs)
      /\ Ruled(Kept, Len(ancestor)) /\ Len(ancestor) \in Nat
      /\ Kept = StableLines(<<ancestor, ours, theirs>>, ourSolution, theirSolution)
  BY MergingGiven DEF Fits, Kept
<1>8. ItemFrom(Some(ShrunkFront(o, len)), ourNext, ourSolution)
  BY <1>1, <1>3, <1>4, <1>6, <1>7, ShrunkFrom
<1>9. ItemFrom(Some(ShrunkFront(t, len)), theirNext, theirSolution)
  BY <1>1, <1>3, <1>4, <1>6, <1>7, ShrunkFrom
<1>10. Mark(Kept, o, t, x, y, z, len)
  BY <1>1, <1>2, <1>3, <1>6, <1>7, ItemsMark
<1>11. /\ o.kind = "Equal" /\ t.kind = "Equal" => Fixed(Kept, x, y, z, len)
       /\ ~(o.kind = "Equal" /\ t.kind = "Equal") => Free(Kept, x, x + len)
  BY <1>10 DEF Mark
<1> HIDE DEF o, t
<1>12. /\ Shape(m) /\ m.ancestor.len = len
       /\ m.ours.len = IF o.kind = "Equal" THEN len ELSE 0
       /\ m.theirs.len = IF t.kind = "Equal" THEN len ELSE 0
  BY <1>1, <1>4, <1>6, PairedFacts
<1>13. m.kind = "Equal" <=> o.kind = "Equal" /\ t.kind = "Equal"
  BY DEF Paired, Range3
<1> HIDE DEF m
<1>14. MarkAt(Kept, m, x, y, z)
  BY <1>6, <1>10, <1>11, <1>12, <1>13 DEF MarkAt
<1>15. m \in Ranges3 /\ MarkAt(Kept, m, EndOf(walk, "ancestor"), EndOf(walk, "ours"), EndOf(walk, "theirs"))
  BY <1>12, <1>14 DEF Shape, x, y, z
<1> QED
  BY <1>1, <1>8, <1>9, <1>15, WalkMarksOn

(* What the stages after the walk leave as it is. *)
LEMMA WalkMarksStay ==
  ASSUME TextInv, stage' # "walk", UNCHANGED <<inputs, walkVars>>
  PROVE  WalkMarked'
<1>1. walk' = walk /\ Kept' = Kept
  BY InputsStay DEF walkVars
<1> QED
  BY <1>1 DEF TextInv, WalkMarked

(* The walk is over and nothing is gathered. *)
LEMMA EndWalkTextInv ==
  ASSUME MInv, TextInv, EndWalk
  PROVE  TextInv'
<1>1. /\ stage = "walk" /\ stage' = "gather" /\ at' = 1
      /\ UNCHANGED <<inputs, walkVars, output, conflicts, region, merged>>
  BY DEF EndWalk, StartStage
<1>2. merged = <<>> /\ walk \in Seq(Ranges3)
  BY <1>1 DEF MInv, WalkInv
<1>3. WalkMarked' /\ Kept' = Kept /\ walk' = walk
  BY <1>1, WalkMarksStay, InputsStay DEF walkVars
<1>4. /\ EndOf(<<>>, "ancestor") = 0 /\ Place(walk, "ancestor", 0) = 0
      /\ Regular(<<>>) /\ Ready(<<>>) /\ Marked(Kept, <<>>)
  BY <1>2, TiledEmpty, PlaceFacts, MarkedEmpty DEF Sides, Regular, Ready
<1>5. Free(Kept, 0, 0)
  BY MergingGiven DEF Free, Ruled
<1>6. GatherMarked'
  <2>1. at' - 1 = 0
    BY <1>1
  <2> QED
    BY <1>1, <1>2, <1>3, <1>4, <1>5, <2>1 DEF GatherMarked
<1>7. NothingYet'
  BY <1>1 DEF TextInv, NothingYet
<1>8. CleanupMarked' /\ OutputMarked' /\ AgreesWithTextbook'
  BY <1>1 DEF CleanupMarked, OutputMarked, AgreesWithTextbook
<1> QED
  BY <1>3, <1>6, <1>7, <1>8 DEF TextInv

(* Where a row with one more range ends. *)
LEMMA EndAppend ==
  ASSUME NEW rs \in Seq(Ranges3), NEW m \in Ranges3, NEW side \in Sides
  PROVE  EndOf(Append(rs, m), side) = EndOf(rs, side) + m[side].len
<1> DEFINE qs == Append(rs, m)
<1>1. /\ qs \in Seq(Ranges3) /\ Len(rs) \in Nat /\ Len(qs) = Len(rs) + 1
      /\ qs[Len(rs) + 1] = m /\ \A i \in 1..Len(rs) : qs[i] = rs[i]
  OBVIOUS
<1> HIDE DEF qs
<1>2. Len(rs) \in 0..Len(rs) /\ Len(qs) \in 1..Len(qs) /\ Len(qs) - 1 = Len(rs)
  BY <1>1
<1>3. Place(qs, side, Len(rs)) = Place(rs, side, Len(rs))
  BY <1>1, <1>2, PlacePrefix
<1>4. Place(qs, side, Len(qs)) = Place(qs, side, Len(rs)) + m[side].len
  BY <1>1, <1>2, PlaceFacts
<1> QED
  BY <1>3, <1>4 DEF EndOf, qs

(* The merge ranges with the region closed. *)
LEMMA RegionMarks ==
  ASSUME MInv, TextInv, stage = "gather", NEW rs, rs = merged \o CreateMergeRange(region)
  PROVE  /\ rs \in Seq(Ranges3) /\ Marked(Kept, rs) /\ Regular(rs)
         /\ \A side \in Sides : Tiled(rs, side) /\ EndOf(rs, side) = Place(walk, side, at - 1)
<1>1. /\ RegionFits(region, merged)
      /\ \A side \in Sides : Bridges(region[side], EndOf(merged, side), Place(walk, side, at - 1))
  BY WhileGathering
<1> DEFINE place == [side \in Sides |-> Place(walk, side, at - 1)]
<1>2. \A side \in Sides : Bridges(region[side], EndOf(merged, side), place[side])
  BY <1>1
<1>3. \A side \in Sides : place[side] = Place(walk, side, at - 1)
  OBVIOUS
<1> HIDE DEF place
<1>4. rs \in Seq(Ranges3) /\ \A side \in Sides : Tiled(rs, side) /\ EndOf(rs, side) = place[side]
  BY <1>1, <1>2, RegionMerges
<1>5. /\ merged \in Seq(Ranges3) /\ Marked(Kept, merged) /\ Regular(merged) /\ Ready(merged)
      /\ Free(Kept, EndOf(merged, "ancestor"), Place(walk, "ancestor", at - 1))
  BY <1>1 DEF RegionFits, TextInv, GatherMarked
<1>6. CASE CreateMergeRange(region) = <<>>
  <2>1. merged \o <<>> = merged
    BY <1>5
  <2>2. rs = merged
    BY <1>6, <2>1
  <2> QED
    BY <1>3, <1>4, <1>5, <2>2
<1>7. CASE \E m \in Ranges3 : CreateMergeRange(region) = <<m>> /\ ChangeShape(m)
  <2>1. PICK m \in Ranges3 : CreateMergeRange(region) = <<m>> /\ ChangeShape(m)
    BY <1>7
  <2>2. merged \o <<m>> = Append(merged, m)
    BY <1>5, AppendIsJoin
  <2>3. rs = Append(merged, m)
    BY <2>1, <2>2
  <2>4. "ancestor" \in Sides
    BY DEF Sides
  <2>5. EndOf(merged, "ancestor") + m["ancestor"].len = Place(walk, "ancestor", at - 1)
    BY <1>3, <1>4, <1>5, <2>3, <2>4, EndAppend
  <2>6. m.kind # "Equal"
    BY <2>1 DEF ChangeShape
  <2>7. MarkAt(Kept, m, EndOf(merged, "ancestor"), EndOf(merged, "ours"), EndOf(merged, "theirs"))
    BY <1>5, <2>5, <2>6 DEF MarkAt
  <2>8. Marked(Kept, rs)
    BY <1>5, <2>3, <2>7, MarkedAppend
  <2>9. Regular(rs)
    BY <1>5, <2>1, <2>3, RegularAppend
  <2> QED
    BY <1>3, <1>4, <2>8, <2>9
<1> QED
  BY <1>1, <1>6, <1>7, RegionMakes

(* An equal range marks what it marked in the walk. *)
LEMMA GatherEqualTextInv ==
  ASSUME MInv, TextInv, GatherEqual
  PROVE  TextInv'
<1> DEFINE rs == merged \o CreateMergeRange(region)
           m == walk[at]
           p == Place(walk, "ancestor", at - 1)
<1>1. /\ stage = "gather" /\ stage' = "gather" /\ at <= Len(walk) /\ at' = at + 1
      /\ m.kind = "Equal" /\ merged' = rs \o <<m>>
      /\ UNCHANGED <<inputs, walkVars, output, conflicts>>
  BY DEF GatherEqual, Gathering
<1>2. walk \in Seq(Ranges3) /\ Len(walk) \in Nat /\ at \in 1..Len(walk) + 1
  BY <1>1, WhileGathering
<1>3. at \in 1..Len(walk) /\ m \in Ranges3
  BY <1>1, <1>2
<1>4. /\ rs \in Seq(Ranges3) /\ Marked(Kept, rs) /\ Regular(rs)
      /\ \A side \in Sides : EndOf(rs, side) = Place(walk, side, at - 1)
  BY <1>1, RegionMarks
<1>5. "ancestor" \in Sides /\ "ours" \in Sides /\ "theirs" \in Sides
  BY DEF Sides
<1> HIDE DEF rs
<1>6. MarkAt(Kept, m, EndOf(rs, "ancestor"), EndOf(rs, "ours"), EndOf(rs, "theirs"))
  BY <1>3, <1>4, <1>5 DEF TextInv, WalkMarked, Marked, Marks
<1>7. Place(walk, "ancestor", at) = p + m["ancestor"].len /\ p \in Nat
  BY <1>2, <1>3, <1>5, PlaceFacts
<1> HIDE DEF m, p
<1>8. merged' = Append(rs, m)
  BY <1>1, <1>3, <1>4, AppendIsJoin
<1>9. Marked(Kept, merged')
  BY <1>3, <1>4, <1>6, <1>8, MarkedAppend
<1>10. Regular(merged') /\ Ready(merged')
  BY <1>1, <1>3, <1>4, <1>8, RegularAppend
<1>11. EndOf(merged', "ancestor") = Place(walk, "ancestor", at)
  BY <1>3, <1>4, <1>5, <1>7, <1>8, EndAppend DEF p
<1>12. Free(Kept, Place(walk, "ancestor", at), Place(walk, "ancestor", at))
  <2>1. Place(walk, "ancestor", at) \in Nat
    BY <1>2, <1>3, <1>5, PlaceFacts
  <2> DEFINE e == Place(walk, "ancestor", at)
  <2> HIDE DEF e
  <2>2. e \in Nat => Free(Kept, e, e)
    BY MergingGiven DEF Free, Ruled
  <2> QED
    BY <2>1, <2>2 DEF e
<1>13. WalkMarked' /\ Kept' = Kept /\ walk' = walk
  BY <1>1, WalkMarksStay, InputsStay DEF walkVars
<1>14. GatherMarked'
  <2>1. at' - 1 = at
    BY <1>1, <1>3
  <2> QED
    BY <1>9, <1>10, <1>11, <1>12, <1>13, <2>1 DEF GatherMarked
<1>15. NothingYet'
  BY <1>1 DEF TextInv, NothingYet
<1>16. CleanupMarked' /\ OutputMarked' /\ AgreesWithTextbook'
  BY <1>1 DEF CleanupMarked, OutputMarked, AgreesWithTextbook
<1> QED
  BY <1>13, <1>14, <1>15, <1>16 DEF TextInv

(* A change has no stable line, so there is none in the region with it. *)
LEMMA GatherChangeTextInv ==
  ASSUME MInv, TextInv, GatherChange
  PROVE  TextInv'
<1> DEFINE m == walk[at]
           p == Place(walk, "ancestor", at - 1)
           q == Place(walk, "ancestor", at)
           e == EndOf(merged, "ancestor")
<1>1. /\ stage = "gather" /\ stage' = "gather" /\ at <= Len(walk) /\ at' = at + 1
      /\ m.kind # "Equal" /\ merged' = merged
      /\ UNCHANGED <<inputs, walkVars, output, conflicts>>
  BY DEF GatherChange, Gathering
<1>2. walk \in Seq(Ranges3) /\ Len(walk) \in Nat /\ at \in 1..Len(walk) + 1 /\ RegionFits(region, merged)
  BY <1>1, WhileGathering
<1>3. at \in 1..Len(walk) /\ at \in 0..Len(walk) /\ at - 1 \in 0..Len(walk)
  BY <1>1, <1>2
<1>4. "ancestor" \in Sides
  BY DEF Sides
<1>5. p \in Nat /\ q \in Nat /\ q = p + m["ancestor"].len
  BY <1>2, <1>3, <1>4, PlaceFacts
<1>6. e \in Nat
  <2>1. merged \in Seq(Ranges3) /\ Len(merged) \in 0..Len(merged)
    BY <1>2 DEF RegionFits
  <2> QED
    BY <1>4, <2>1, PlaceFacts DEF EndOf
<1>7. Free(Kept, p, q)
  <2>1. Marks(Kept, walk, at)
    BY <1>3 DEF TextInv, WalkMarked, Marked
  <2> QED
    BY <1>1, <1>5, <2>1 DEF Marks, MarkAt
<1>8. /\ Marked(Kept, merged) /\ Regular(merged) /\ Ready(merged) /\ Free(Kept, e, p)
  BY <1>1 DEF TextInv, GatherMarked
<1> HIDE DEF m, p, q, e
<1>9. Ruled(Kept, Len(ancestor))
  BY MergingGiven
<1>10. Free(Kept, e, q)
  BY <1>5, <1>6, <1>7, <1>8, <1>9, FreeOn
<1>11. WalkMarked' /\ Kept' = Kept /\ walk' = walk
  BY <1>1, WalkMarksStay, InputsStay DEF walkVars
<1>12. GatherMarked'
  <2>1. at' - 1 = at
    BY <1>1, <1>3
  <2> QED
    BY <1>1, <1>8, <1>10, <1>11, <2>1 DEF GatherMarked, e, q
<1>13. NothingYet'
  BY <1>1 DEF TextInv, NothingYet
<1>14. CleanupMarked' /\ OutputMarked' /\ AgreesWithTextbook'
  BY <1>1 DEF CleanupMarked, OutputMarked, AgreesWithTextbook
<1> QED
  BY <1>11, <1>12, <1>13, <1>14 DEF TextInv

(* Now the merge ranges are those that will be cleaned up. *)
LEMMA EndGatherTextInv ==
  ASSUME MInv, TextInv, EndGather
  PROVE  TextInv'
<1>0. PICK rs : rs = merged \o CreateMergeRange(region)
  OBVIOUS
<1>1. /\ stage = "gather" /\ stage' = "cleanup" /\ at > Len(walk) /\ at' = 1 /\ merged' = rs
      /\ UNCHANGED <<inputs, walkVars, output, conflicts>>
  BY <1>0 DEF EndGather, StartStage
<1>2. walk \in Seq(Ranges3) /\ Len(walk) \in Nat /\ at \in 1..Len(walk) + 1
  BY <1>1, WhileGathering
<1>3. at - 1 = Len(walk)
  BY <1>1, <1>2
<1>4. /\ rs \in Seq(Ranges3) /\ Marked(Kept, rs) /\ Regular(rs)
      /\ \A side \in Sides : Tiled(rs, side) /\ EndOf(rs, side) = Place(walk, side, at - 1)
  BY <1>0, <1>1, RegionMarks
<1>5. \A side \in Sides : EndOf(walk, side) = Len(TextOf(side))
  BY <1>1 DEF MInv, WalkInv
<1>6. Raw(rs)
  BY <1>3, <1>4, <1>5 DEF Raw, EndOf
<1>7. WalkMarked' /\ \A raw : Raw(raw)' <=> Raw(raw)
  BY <1>1, WalkMarksStay, InputsStay
<1>8. CleanupMarked'
  <2>1. Len(rs) \in Nat /\ \A n \in 1..Len(rs) : ~(n < 1)
    BY <1>4
  <2>2. 1 <= Len(rs) + 1
    BY <2>1
  <2>3. Raw(rs)'
    BY <1>6, <1>7
  <2> QED
    BY <1>1, <2>1, <2>2, <2>3 DEF CleanupMarked
<1>9. NothingYet'
  BY <1>1 DEF TextInv, NothingYet
<1>10. GatherMarked' /\ OutputMarked' /\ AgreesWithTextbook'
  BY <1>1 DEF GatherMarked, OutputMarked, AgreesWithTextbook
<1> QED
  BY <1>7, <1>8, <1>9, <1>10 DEF TextInv

(* One more of the merge ranges is cleaned up. *)
LEMMA CleanupTextInv ==
  ASSUME MInv, TextInv, Cleanup
  PROVE  TextInv'
<1>1. /\ stage = "cleanup" /\ stage' = "cleanup" /\ at <= Len(merged) /\ at' = at + 1
      /\ merged' = [merged EXCEPT ![at] = Cleaned(merged[at])]
      /\ UNCHANGED <<inputs, walkVars, region, output, conflicts>>
  BY DEF Cleanup
<1>2. merged \in Seq(Ranges3) /\ at \in Nat \ {0}
  BY DEF MInv, TypeOK
<1>3. at \in 1..Len(merged) /\ Len(merged) \in Nat /\ DOMAIN merged = 1..Len(merged)
  BY <1>1, <1>2
<1>4. PICK raw : /\ Raw(raw) /\ Len(merged) = Len(raw)
                 /\ \A n \in 1..Len(raw) : merged[n] = IF n < at THEN Cleaned(raw[n]) ELSE raw[n]
  BY <1>1 DEF TextInv, CleanupMarked
<1> DEFINE e == Cleaned(merged[at])
<1>5. merged[at] = raw[at]
  BY <1>3, <1>4
<1>6. e = Cleaned(raw[at])
  BY <1>5
<1> HIDE DEF e
<1>7. /\ Len(merged') = Len(merged) /\ merged'[at] = e
      /\ \A n \in 1..Len(merged) : n # at => merged'[n] = merged[n]
  <2>1. merged' = [merged EXCEPT ![at] = e]
    BY <1>1 DEF e
  <2>2. e \in Ranges3
    BY <1>2, <1>3, CleanedType DEF e
  <2> QED
    BY <1>2, <1>3, <2>1, <2>2
<1>8. WalkMarked' /\ (\A one : Raw(one)' <=> Raw(one)) /\ \A m : Cleaned(m)' = Cleaned(m)
  BY <1>1, WalkMarksStay, InputsStay
<1>9. ASSUME NEW n \in 1..Len(raw)
      PROVE  merged'[n] = IF n < at + 1 THEN Cleaned(raw[n]) ELSE raw[n]
  <2>1. CASE n = at
    <3>1. n < at + 1
      BY <1>3, <2>1
    <3> QED
      BY <1>6, <1>7, <2>1, <3>1
  <2>2. CASE n < at
    <3>1. n < at + 1 /\ n # at
      BY <1>3, <2>2
    <3> QED
      BY <1>4, <1>7, <2>2, <3>1
  <2>3. CASE at < n
    <3>1. ~(n < at + 1) /\ n # at /\ ~(n < at)
      BY <1>3, <2>3
    <3> QED
      BY <1>4, <1>7, <2>3, <3>1
  <2> QED
    BY <1>3, <2>1, <2>2, <2>3
<1>10. CleanupMarked'
  <2>1. at' <= Len(merged') + 1
    BY <1>1, <1>3, <1>7
  <2>2. Raw(raw)' /\ Len(merged') = Len(raw)
    BY <1>4, <1>7, <1>8
  <2>3. \A n \in 1..Len(raw) : merged'[n] = IF n < at' THEN Cleaned(raw[n])' ELSE raw[n]
    BY <1>1, <1>8, <1>9
  <2> QED
    BY <2>1, <2>2, <2>3 DEF CleanupMarked
<1>11. NothingYet'
  BY <1>1 DEF TextInv, NothingYet
<1>12. GatherMarked' /\ OutputMarked' /\ AgreesWithTextbook'
  BY <1>1 DEF GatherMarked, OutputMarked, AgreesWithTextbook
<1> QED
  BY <1>8, <1>10, <1>11, <1>12 DEF TextInv

(* The places of the merge ranges are places of the texts. *)
LEMMA RawPlaces ==
  ASSUME NEW raw, Raw(raw), NEW side \in Sides, Len(TextOf(side)) \in Nat, NEW n \in 0..Len(raw)
  PROVE  Place(raw, side, n) \in Nat /\ Place(raw, side, n) <= Len(TextOf(side))
<1> DEFINE lens == SideLens(raw, side)
<1>1. raw \in Seq(Ranges3) /\ Len(raw) \in Nat /\ EndOf(raw, side) = Len(TextOf(side))
  BY DEF Raw
<1>2. \A m \in 1..Len(raw) : raw[m][side].len \in Nat
  BY <1>1, PlaceFacts DEF Ranges
<1>3. lens \in [1..Len(raw) -> Nat]
  BY <1>1, <1>2 DEF SideLens
<1> HIDE DEF lens
<1>4. lens \in Seq(Nat) /\ Len(lens) = Len(raw)
  BY <1>1, <1>3, RowIsSeq
<1>5. Len(lens) \in 0..Len(lens) /\ n \in 0..Len(lens) /\ n <= Len(lens)
  BY <1>1, <1>4
<1>6. SumUpTo(lens, n) \in Nat /\ SumUpTo(lens, n) <= SumUpTo(lens, Len(lens))
  BY <1>4, <1>5, SumUpToType, SumUpToMonotonic
<1> QED
  BY <1>1, <1>4, <1>6 DEF Place, EndOf, lens

(* One more range is written: up to it the text is still the textbook's. *)
LEMMA WriteOn ==
  ASSUME MInv, NEW raw, Raw(raw), NEW n \in Nat, n < Len(raw), NEW text, NEW count,
         SoFar(raw, n, text, count), NEW m, m = Cleaned(raw[n + 1])
  PROVE  SoFar(raw, n + 1, Join(text, Written(m)),
               count + (IF m.kind = "Conflict" THEN 1 ELSE 0))
<1> DEFINE one == raw[n + 1]
           p == Place(raw, "ancestor", n)
           q == Place(raw, "ours", n)
           r == Place(raw, "theirs", n)
           p1 == Place(raw, "ancestor", n + 1)
           q1 == Place(raw, "ours", n + 1)
           r1 == Place(raw, "theirs", n + 1)
           count1 == count + (IF m.kind = "Conflict" THEN 1 ELSE 0)
<1>1. /\ Merging(ancestor, ours, theirs, ourSolution, theirSolution, Kept, Textbook)
      /\ ancestor \in Seq(Symbol) /\ ours \in Seq(Symbol) /\ theirs \in Seq(Symbol)
      /\ Len(ancestor) \in Nat /\ Len(ours) \in Nat /\ Len(theirs) \in Nat
      /\ Ruled(Kept, Len(ancestor))
  BY MergingGiven
<1>2. /\ TextOf("ancestor") = ancestor /\ TextOf("ours") = ours /\ TextOf("theirs") = theirs
      /\ "ancestor" \in Sides /\ "ours" \in Sides /\ "theirs" \in Sides
  BY DEF TextOf, Sides
<1>3. /\ raw \in Seq(Ranges3) /\ n + 1 \in 1..Len(raw) /\ n \in 0..Len(raw) /\ n + 1 \in 0..Len(raw)
      /\ (n + 1) - 1 = n /\ Marked(Kept, raw) /\ Regular(raw) /\ one \in Ranges3
      /\ \A side \in Sides : Tiled(raw, side)
  BY DEF Raw
<1>4. /\ p \in Nat /\ p1 \in Nat /\ p1 <= Len(ancestor) /\ p <= Len(ancestor)
      /\ q \in Nat /\ q1 \in Nat /\ q1 <= Len(ours)
      /\ r \in Nat /\ r1 \in Nat /\ r1 <= Len(theirs)
  BY <1>1, <1>2, <1>3, RawPlaces
<1>5. ASSUME NEW side \in Sides
      PROVE  /\ one[side] \in Ranges /\ Place(raw, side, n + 1) = Place(raw, side, n) + one[side].len
             /\ one[side].len # 0 => one[side].offset = Place(raw, side, n)
  BY <1>3, PlaceFacts DEF Tiled
<1>6. /\ one["ancestor"] \in Ranges /\ p1 = p + one["ancestor"].len
      /\ one["ancestor"].len # 0 => one["ancestor"].offset = p
  BY <1>2, <1>5
<1>7. /\ one["ours"] \in Ranges /\ q1 = q + one["ours"].len
      /\ one["ours"].len # 0 => one["ours"].offset = q
  BY <1>2, <1>5
<1>8. /\ one["theirs"] \in Ranges /\ r1 = r + one["theirs"].len
      /\ one["theirs"].len # 0 => one["theirs"].offset = r
  BY <1>2, <1>5
<1>9. /\ AsSlice(ancestor, one.ancestor) = Stretch(ancestor, p, p1)
      /\ AsSlice(ours, one.ours) = Stretch(ours, q, q1)
      /\ AsSlice(theirs, one.theirs) = Stretch(theirs, r, r1)
  <2> HIDE DEF one, p, q, r, p1, q1, r1
  <2>1. AsSlice(ancestor, one.ancestor) = Stretch(ancestor, p, p + one.ancestor.len)
    BY <1>1, <1>4, <1>6, SliceIsStretch
  <2>2. AsSlice(ours, one.ours) = Stretch(ours, q, q + one.ours.len)
    BY <1>1, <1>4, <1>7, SliceIsStretch
  <2>3. AsSlice(theirs, one.theirs) = Stretch(theirs, r, r + one.theirs.len)
    BY <1>1, <1>4, <1>8, SliceIsStretch
  <2> QED
    BY <1>6, <1>7, <1>8, <2>1, <2>2, <2>3
<1>10. MarkAt(Kept, one, p, q, r)
  BY <1>3 DEF Marked, Marks
<1>11. PICK x \in Nat, y \in Nat, z \in Nat : SoFarFrom(raw, n, text, count, x, y, z)
  BY DEF SoFar
<1> DEFINE chunk == SettledTo(raw, n, x, y, z)
<1>12. /\ <<x, y, z>> \in Kept /\ x <= p /\ Free(Kept, x, p)
       /\ n = 0 \/ raw[n].kind = "Equal" => x = p /\ y = q /\ z = r
       /\ text = Join(TextUpTo(Textbook, x), Rendered(chunk))
       /\ count = ConflictsUpTo(Textbook, x) + One(chunk.conflict)
       /\ chunk = SettledChunk(ancestor, ours, theirs, x, y, z, p, q, r)
  BY <1>11 DEF SoFarFrom, SettledTo
<1>13. ASSUME NEW l \in Nat, l <= Len(ancestor)
       PROVE  TextUpTo(Textbook, l) \in Seq(Pieces) /\ ConflictsUpTo(Textbook, l) \in Nat
  <2>1. Typed(Textbook, Len(ancestor) + 1) /\ Len(ancestor) + 1 \in Nat /\ l \in 0..Len(ancestor) + 1
    BY <1>1, <1>13 DEF Merging
  <2> QED
    BY <2>1, TextAddsUp, ConflictsAddUp
<1>14. m = Cleaned(one)
  OBVIOUS
<1>15. CASE one.kind = "Equal"
  <2> DEFINE l == one.ancestor.len
  <2>1. l \in Nat /\ l # 0 /\ one.ours.len = l /\ one.theirs.len = l /\ Fixed(Kept, p, q, r, l)
    BY <1>6, <1>10, <1>15 DEF MarkAt, Ranges
  <2>2. p1 = p + l /\ q1 = q + l /\ r1 = r + l
    BY <1>6, <1>7, <1>8, <2>1
  <2>3. m = one /\ m.kind = "Equal"
    BY <1>14, <1>15 DEF Cleaned
  <2>4. Written(m) = Lines(Stretch(ancestor, p, p1))
    BY <1>9, <2>3, WrittenByKind
  <2> HIDE DEF one, p, q, r, p1, q1, r1, chunk, l
  <2>5. <<p1, q1, r1>> \in Kept
    BY <2>1, <2>2 DEF Fixed
  <2>6. /\ TextUpTo(Textbook, p + l)
             = Join(Join(TextUpTo(Textbook, x), Rendered(chunk)), Lines(Stretch(ancestor, p, p + l)))
        /\ ConflictsUpTo(Textbook, p + l) = ConflictsUpTo(Textbook, x) + One(chunk.conflict)
    <3>1. /\ 0 < l /\ p + l <= Len(ancestor) /\ l \in Nat /\ Fixed(Kept, p, q, r, l)
          /\ p \in Nat /\ q \in Nat /\ r \in Nat
      BY <1>4, <2>1, <2>2
    <3>2. /\ <<x, y, z>> \in Kept /\ x <= p /\ Free(Kept, x, p)
          /\ chunk = SettledChunk(ancestor, ours, theirs, x, y, z, p, q, r)
      BY <1>12
    <3>3. Merging(ancestor, ours, theirs, ourSolution, theirSolution, Kept, Textbook)
      BY <1>1
    <3>4. Reached(Textbook, p + l, x, chunk, Stretch(ancestor, p, p + l))
      BY <3>1, <3>2, <3>3, ReachRun
    <3> QED
      BY <3>4 DEF Reached
  <2>7. Join(text, Written(m)) = TextUpTo(Textbook, p1) /\ count = ConflictsUpTo(Textbook, p1)
    BY <1>12, <2>2, <2>4, <2>6
  <2>8. SettledChunk(ancestor, ours, theirs, p1, q1, r1, p1, q1, r1) = Clean(<<>>)
    BY <1>1, <1>4, EmptyChunk
  <2>9. SettledTo(raw, n + 1, p1, q1, r1) = Clean(<<>>)
    BY <2>8 DEF SettledTo, p1, q1, r1
  <2>10. TextUpTo(Textbook, p1) \in Seq(Pieces) /\ ConflictsUpTo(Textbook, p1) \in Nat
    BY <1>4, <1>13
  <2>11. Join(text, Written(m)) = Join(TextUpTo(Textbook, p1), Rendered(SettledTo(raw, n + 1, p1, q1, r1)))
    BY <2>7, <2>9, <2>10, NothingWritten
  <2>12. count1 = ConflictsUpTo(Textbook, p1) + One(SettledTo(raw, n + 1, p1, q1, r1).conflict)
    BY <2>3, <2>7, <2>9, <2>10, NothingWritten DEF One
  <2>13. Free(Kept, p1, p1) /\ p1 <= p1
    BY <1>1, <1>4 DEF Free, Ruled
  <2> HIDE DEF count1
  <2>14. SoFarFrom(raw, n + 1, Join(text, Written(m)), count1, p1, q1, r1)
    BY <2>5, <2>11, <2>12, <2>13 DEF SoFarFrom, p1, q1, r1
  <2>15. SoFar(raw, n + 1, Join(text, Written(m)), count1)
    BY <1>4, <2>14 DEF SoFar
  <2> QED
    BY <2>15 DEF count1
<1>16. CASE one.kind # "Equal"
  <2>1. ChangeShape(one) /\ (n + 1 # 1 => raw[(n + 1) - 1].kind = "Equal")
    BY <1>3, <1>16 DEF Regular
  <2>2. x = p /\ y = q /\ z = r
    BY <1>3, <1>12, <2>1
  <2>3. chunk = Clean(<<>>)
    <3>1. chunk = SettledChunk(ancestor, ours, theirs, p, q, r, p, q, r)
      BY <1>12, <2>2
    <3> HIDE DEF chunk, p, q, r
    <3> QED
      BY <1>1, <1>4, <3>1, EmptyChunk
  <2> DEFINE next == SettledTo(raw, n + 1, x, y, z)
  <2>4. next = Settle(AsSlice(ancestor, one.ancestor), AsSlice(ours, one.ours),
                      AsSlice(theirs, one.theirs))
    BY <1>9, <2>2 DEF SettledTo, SettledChunk
  <2> HIDE DEF one, p, q, r, p1, q1, r1, chunk, next
  <2>5. /\ Written(m) = Rendered(next)
        /\ One(next.conflict) = IF m.kind = "Conflict" THEN 1 ELSE 0
    BY <1>3, <1>14, <2>1, <2>4, WrittenIsRendered
  <2>6. TextUpTo(Textbook, x) \in Seq(Pieces) /\ ConflictsUpTo(Textbook, x) \in Nat
    BY <1>4, <1>13, <2>2
  <2>7. text = TextUpTo(Textbook, x) /\ count = ConflictsUpTo(Textbook, x)
    BY <1>12, <2>3, <2>6, NothingWritten DEF One
  <2>8. /\ Join(text, Written(m)) = Join(TextUpTo(Textbook, x), Rendered(next))
        /\ count1 = ConflictsUpTo(Textbook, x) + One(next.conflict)
    BY <2>5, <2>7
  <2>9. x <= p1 /\ Free(Kept, x, p1)
    <3>1. p1 = p + one.ancestor.len /\ one.ancestor.len \in Nat
      BY <1>6 DEF Ranges
    <3> QED
      BY SMTT(60), <1>4, <1>10, <1>16, <2>2, <3>1 DEF MarkAt
  <2>10. ~(n + 1 = 0 \/ raw[n + 1].kind = "Equal")
    BY <1>16 DEF one
  <2> HIDE DEF count1
  <2>11. SoFarFrom(raw, n + 1, Join(text, Written(m)), count1, x, y, z)
    BY <1>12, <2>8, <2>9, <2>10 DEF SoFarFrom, p1, next
  <2>12. SoFar(raw, n + 1, Join(text, Written(m)), count1)
    BY <2>11 DEF SoFar
  <2> QED
    BY <2>12 DEF count1
<1> QED
  BY <1>15, <1>16

(* Nothing is written yet, and the textbook has nothing before its lines. *)
LEMMA EndCleanupTextInv ==
  ASSUME MInv, TextInv, EndCleanup
  PROVE  TextInv'
<1>1. /\ stage = "cleanup" /\ stage' = "output" /\ at > Len(merged) /\ at' = 1
      /\ UNCHANGED <<inputs, walkVars, region, merged, output, conflicts>>
  BY DEF EndCleanup, StartStage
<1>2. merged \in Seq(Ranges3) /\ at \in Nat
  BY DEF MInv, TypeOK
<1>3. PICK raw : /\ Raw(raw) /\ Len(merged) = Len(raw)
                 /\ \A n \in 1..Len(raw) : merged[n] = IF n < at THEN Cleaned(raw[n]) ELSE raw[n]
  BY <1>1 DEF TextInv, CleanupMarked
<1>4. \A n \in 1..Len(raw) : merged[n] = Cleaned(raw[n])
  <2>1. \A n \in 1..Len(raw) : n < at
    BY <1>1, <1>2, <1>3
  <2> QED
    BY <1>3, <2>1
<1>5. output = <<>> /\ conflicts = 0
  BY <1>1 DEF TextInv, NothingYet
<1>6. /\ Place(raw, "ancestor", 0) = 0 /\ Place(raw, "ours", 0) = 0 /\ Place(raw, "theirs", 0) = 0
  <2>1. raw \in Seq(Ranges3) /\ "ancestor" \in Sides /\ "ours" \in Sides /\ "theirs" \in Sides
    BY <1>3 DEF Raw, Sides
  <2> QED
    BY <2>1, PlaceFacts
<1>7. /\ <<0, 0, 0>> \in Kept /\ Typed(Textbook, Len(ancestor) + 1) /\ Len(ancestor) + 1 \in Nat
      /\ Free(Kept, 0, 0) /\ 0 \in Nat
      /\ ancestor \in Seq(Symbol) /\ ours \in Seq(Symbol) /\ theirs \in Seq(Symbol)
  <2>1. Free(Kept, 0, 0)
    BY MergingGiven DEF Free, Ruled
  <2>2. Typed(Textbook, Len(ancestor) + 1)
    BY MergingGiven DEF Merging
  <2> QED
    BY <2>1, <2>2, MergingGiven
<1>8. SettledTo(raw, 0, 0, 0, 0) = Clean(<<>>)
  <2>1. SettledChunk(ancestor, ours, theirs, 0, 0, 0, 0, 0, 0) = Clean(<<>>)
    BY <1>7, EmptyChunk
  <2> QED
    BY <1>6, <2>1 DEF SettledTo
<1>9. TextUpTo(Textbook, 0) = <<>> /\ ConflictsUpTo(Textbook, 0) = 0
  BY <1>7, TextAddsUp, ConflictsAddUp
<1>10. /\ <<>> = Join(TextUpTo(Textbook, 0), Rendered(SettledTo(raw, 0, 0, 0, 0)))
       /\ 0 = ConflictsUpTo(Textbook, 0) + One(SettledTo(raw, 0, 0, 0, 0).conflict)
  BY <1>8, <1>9, NothingWritten DEF One
<1>11. SoFarFrom(raw, 0, <<>>, 0, 0, 0, 0)
  BY <1>6, <1>7, <1>10 DEF SoFarFrom
<1>12. SoFar(raw, 0, <<>>, 0)
  BY <1>7, <1>11 DEF SoFar
<1>13. SoFar(raw, 0, <<>>, 0)'
  BY <1>1, <1>12, SoFarStays
<1>14. WalkMarked' /\ (\A one : Raw(one)' <=> Raw(one)) /\ \A m : Cleaned(m)' = Cleaned(m)
  BY <1>1, WalkMarksStay, InputsStay
<1>15. OutputMarked'
  <2>1. at' <= Len(merged') + 1 /\ at' - 1 = 0
    BY <1>1, <1>2
  <2>2. Raw(raw)' /\ Len(merged') = Len(raw) /\ \A n \in 1..Len(raw) : merged'[n] = Cleaned(raw[n])'
    BY <1>1, <1>3, <1>4, <1>14
  <2>3. SoFar(raw, at - 1, output, conflicts)'
    <3>1. output' = <<>> /\ conflicts' = 0
      BY <1>1, <1>5
    <3> QED
      BY <1>13, <2>1, <3>1
  <2> QED
    BY <2>1, <2>2, <2>3 DEF OutputMarked
<1>16. GatherMarked' /\ CleanupMarked' /\ NothingYet' /\ AgreesWithTextbook'
  BY <1>1 DEF GatherMarked, CleanupMarked, NothingYet, AgreesWithTextbook
<1> QED
  BY <1>14, <1>15, <1>16 DEF TextInv

(* One more of the ranges is written. *)
LEMMA OutputTextInv ==
  ASSUME MInv, TextInv, Output
  PROVE  TextInv'
<1> DEFINE m == merged[at]
           n == at - 1
<1>1. /\ stage = "output" /\ stage' = "output" /\ at <= Len(merged) /\ at' = at + 1
      /\ output' = output \o Written(m)
      /\ conflicts' = conflicts + (IF m.kind = "Conflict" THEN 1 ELSE 0)
      /\ UNCHANGED <<inputs, walkVars, region, merged>>
  BY DEF Output
<1>2. merged \in Seq(Ranges3) /\ at \in Nat \ {0} /\ Len(merged) \in Nat
  BY DEF MInv, TypeOK
<1>3. PICK raw : /\ Raw(raw) /\ Len(merged) = Len(raw)
                 /\ \A i \in 1..Len(raw) : merged[i] = Cleaned(raw[i])
                 /\ SoFar(raw, n, output, conflicts)
  BY <1>1 DEF TextInv, OutputMarked
<1>4. n \in Nat /\ n < Len(raw) /\ n + 1 = at /\ at \in 1..Len(raw)
  BY <1>1, <1>2, <1>3
<1>5. m = Cleaned(raw[n + 1])
  BY <1>3, <1>4
<1> HIDE DEF m, n
<1>6. SoFar(raw, n + 1, Join(output, Written(m)),
            conflicts + (IF m.kind = "Conflict" THEN 1 ELSE 0))
  BY <1>3, <1>4, <1>5, WriteOn
<1>7. PICK text, count : text = output' /\ count = conflicts'
  OBVIOUS
<1>8. SoFar(raw, at, text, count)
  BY <1>1, <1>4, <1>6, <1>7 DEF Join
<1>9. PICK i : i = at
  OBVIOUS
<1>10. SoFar(raw, i, text, count)'
  BY <1>1, <1>8, <1>9, SoFarStays
<1>11. WalkMarked' /\ (\A one : Raw(one)' <=> Raw(one)) /\ \A one : Cleaned(one)' = Cleaned(one)
  BY <1>1, WalkMarksStay, InputsStay
<1>12. OutputMarked'
  <2>1. at' <= Len(merged') + 1 /\ at' - 1 = i
    BY <1>1, <1>2, <1>9
  <2>2. Raw(raw)' /\ Len(merged') = Len(raw) /\ \A j \in 1..Len(raw) : merged'[j] = Cleaned(raw[j])'
    BY <1>1, <1>3, <1>11
  <2>3. SoFar(raw, at - 1, output, conflicts)'
    BY <1>7, <1>10, <2>1
  <2> QED
    BY <2>1, <2>2, <2>3 DEF OutputMarked
<1>13. GatherMarked' /\ CleanupMarked' /\ NothingYet' /\ AgreesWithTextbook'
  BY <1>1 DEF GatherMarked, CleanupMarked, NothingYet, AgreesWithTextbook
<1> QED
  BY <1>11, <1>12, <1>13 DEF TextInv

(* After the last range there is the end of the texts, which is stable. *)
LEMMA AllWritten ==
  ASSUME MInv, NEW raw, Raw(raw), NEW n, n = Len(raw), SoFar(raw, n, output, conflicts)
  PROVE  /\ conflicts = Cardinality({a \in DOMAIN Textbook : Textbook[a].chunk.conflict})
         /\ output = FlattenSeq([a \in DOMAIN Textbook |->
                       Rendered(Textbook[a].chunk) \o Lines(Textbook[a].line)])
<1> DEFINE p == Len(ancestor)
           q == Len(ours)
           r == Len(theirs)
<1>1. /\ Merging(ancestor, ours, theirs, ourSolution, theirSolution, Kept, Textbook)
      /\ p \in Nat /\ q \in Nat /\ r \in Nat /\ <<p + 1, q + 1, r + 1>> \in Kept
  BY MergingGiven
<1>2. /\ Place(raw, "ancestor", n) = p /\ Place(raw, "ours", n) = q /\ Place(raw, "theirs", n) = r
  BY DEF Raw, EndOf, Sides, TextOf
<1> HIDE DEF p, q, r
<1>3. PICK x \in Nat, y \in Nat, z \in Nat : SoFarFrom(raw, n, output, conflicts, x, y, z)
  BY DEF SoFar
<1> DEFINE chunk == SettledTo(raw, n, x, y, z)
           line == LineAfter(ancestor, p)
<1>4. /\ <<x, y, z>> \in Kept /\ x <= p /\ Free(Kept, x, p)
      /\ output = Join(TextUpTo(Textbook, x), Rendered(chunk))
      /\ conflicts = ConflictsUpTo(Textbook, x) + One(chunk.conflict)
      /\ chunk = SettledChunk(ancestor, ours, theirs, x, y, z, p, q, r)
  BY <1>2, <1>3 DEF SoFarFrom, SettledTo
<1>5. line = <<>>
  BY <1>1 DEF LineAfter, p
<1> HIDE DEF chunk
<1>6. p <= Len(ancestor)
  BY <1>1 DEF p
<1>7. line = LineAfter(ancestor, p)
  OBVIOUS
<1> HIDE DEF line
<1>8. Reached(Textbook, p + 1, x, chunk, line) /\ Rendered(chunk) \in Seq(Pieces)
  BY <1>1, <1>4, <1>6, <1>7, ReachStable
<1>9. Rendered(chunk) \in Seq(Pieces)
  BY <1>8
<1>10. Typed(Textbook, p + 1) /\ p + 1 \in Nat /\ x \in 0..p + 1
  BY SMTT(60), <1>1, <1>4 DEF Merging, p
<1>11. output \in Seq(Pieces)
  <2>1. TextUpTo(Textbook, x) \in Seq(Pieces)
    BY <1>10, TextAddsUp
  <2> QED
    BY <1>4, <1>9, <2>1, JoinAssociates
<1>12. TextUpTo(Textbook, p + 1) = output /\ ConflictsUpTo(Textbook, p + 1) = conflicts
  BY <1>4, <1>5, <1>8, <1>11, NothingWritten DEF Reached
<1>13. output = FlattenSeq(PartsOf(Textbook))
  BY <1>10, <1>12, TextAddsUp
<1>14. conflicts = Cardinality({a \in DOMAIN Textbook : Textbook[a].chunk.conflict})
  BY <1>10, <1>12, ConflictsAddUp
<1> QED
  BY <1>13, <1>14 DEF PartsOf

(* What is returned is the textbook's result. *)
LEMMA ReturnTextInv ==
  ASSUME MInv, TextInv, Return
  PROVE  TextInv'
<1>1. /\ stage = "output" /\ stage' = "done" /\ at > Len(merged)
      /\ UNCHANGED <<inputs, walkVars, region, merged, output, conflicts>>
  BY DEF Return, StartStage
<1>2. merged \in Seq(Ranges3) /\ at \in Nat \ {0} /\ Len(merged) \in Nat
  BY DEF MInv, TypeOK
<1>3. PICK raw : /\ Raw(raw) /\ Len(merged) = Len(raw) /\ at <= Len(merged) + 1
                 /\ SoFar(raw, at - 1, output, conflicts)
  BY <1>1 DEF TextInv, OutputMarked
<1>4. at - 1 = Len(raw)
  BY <1>1, <1>2, <1>3
<1>5. /\ conflicts = Cardinality({a \in DOMAIN Textbook : Textbook[a].chunk.conflict})
      /\ output = FlattenSeq([a \in DOMAIN Textbook |->
                    Rendered(Textbook[a].chunk) \o Lines(Textbook[a].line)])
  BY <1>3, <1>4, AllWritten
<1>6. Textbook' = Textbook /\ style' = style /\ output' = output /\ conflicts' = conflicts
  BY <1>1, InputsStay DEF inputs
<1>7. ASSUME NEW chunk PROVE Rendered(chunk)' = Rendered(chunk)
  BY <1>6 DEF Rendered, ConflictLines
<1>8. AgreesWithTextbook'
  <2>1. ASSUME NEW row
        PROVE  [a \in DOMAIN row |-> Rendered(row[a].chunk)' \o Lines(row[a].line)]
                 = [a \in DOMAIN row |-> Rendered(row[a].chunk) \o Lines(row[a].line)]
    BY <1>7
  <2> QED
    BY <1>5, <1>6, <2>1 DEF AgreesWithTextbook
<1>9. WalkMarked'
  BY <1>1, WalkMarksStay
<1>10. GatherMarked' /\ CleanupMarked' /\ NothingYet' /\ OutputMarked'
  BY <1>1 DEF GatherMarked, CleanupMarked, NothingYet, OutputMarked
<1> QED
  BY <1>8, <1>9, <1>10 DEF TextInv

(* Every step keeps the invariant. *)
LEMMA NextTextInv ==
  ASSUME MInv, TextInv, [Next]_mvars
  PROVE  TextInv'
<1>1. CASE Next
  BY <1>1, TakesTextInv, PairTextInv, EndWalkTextInv, GatherEqualTextInv, GatherChangeTextInv,
     EndGatherTextInv, CleanupTextInv, EndCleanupTextInv, OutputTextInv, ReturnTextInv DEF Next
<1>2. CASE UNCHANGED mvars
  <2>1. UNCHANGED inputs /\ UNCHANGED <<stage, ourNext, theirNext, ourItem, theirItem, walk, at,
                                        region, merged, output, conflicts>>
    BY <1>2 DEF mvars, walkVars
  <2>2. UNCHANGED <<ancestor, ours, theirs, ourSolution, theirSolution, style>>
    BY <2>1 DEF inputs
  <2>3. /\ Kept' = Kept /\ Textbook' = Textbook /\ (\A m : Cleaned(m)' = Cleaned(m))
        /\ \A raw : Raw(raw)' <=> Raw(raw)
    BY <2>1, InputsStay
  <2>4. WalkMarked' /\ GatherMarked' /\ NothingYet'
    BY <2>1, <2>2, <2>3 DEF TextInv, WalkMarked, GatherMarked, NothingYet
  <2>5. CleanupMarked'
    BY <2>1, <2>3 DEF TextInv, CleanupMarked
  <2>6. OutputMarked'
    <3> SUFFICES ASSUME stage = "output" PROVE OutputMarked'
      BY <2>1 DEF OutputMarked
    <3>1. PICK raw : /\ Raw(raw) /\ Len(merged) = Len(raw) /\ at <= Len(merged) + 1
                     /\ \A n \in 1..Len(raw) : merged[n] = Cleaned(raw[n])
                     /\ SoFar(raw, at - 1, output, conflicts)
      BY DEF TextInv, OutputMarked
    <3>2. PICK i, text, count : i = at - 1 /\ text = output /\ count = conflicts
      OBVIOUS
    <3>3. SoFar(raw, i, text, count)'
      BY <2>1, <3>1, <3>2, SoFarStays
    <3>4. SoFar(raw, at - 1, output, conflicts)'
      BY <2>1, <3>2, <3>3
    <3>5. /\ at' <= Len(merged') + 1 /\ Raw(raw)' /\ Len(merged') = Len(raw)
          /\ \A n \in 1..Len(raw) : merged'[n] = Cleaned(raw[n])'
      BY <2>1, <2>3, <3>1
    <3> QED
      BY <3>4, <3>5 DEF OutputMarked
  <2>7. AgreesWithTextbook'
    <3>1. ASSUME NEW chunk PROVE Rendered(chunk)' = Rendered(chunk)
      BY <2>2 DEF Rendered, ConflictLines
    <3>2. ASSUME NEW row
          PROVE  [a \in DOMAIN row |-> Rendered(row[a].chunk)' \o Lines(row[a].line)]
                   = [a \in DOMAIN row |-> Rendered(row[a].chunk) \o Lines(row[a].line)]
      BY <3>1
    <3> QED
      BY <2>1, <2>3, <3>2 DEF TextInv, AgreesWithTextbook
  <2> QED
    BY <2>4, <2>5, <2>6, <2>7 DEF TextInv
<1> QED
  BY <1>1, <1>2

(***************************************************************************)
(* Whatever the texts and the two diffs of them are, the merge ends with   *)
(* the text and the number of conflicts of the textbook three-way merge on *)
(* the same two diffs.                                                     *)
(***************************************************************************)
THEOREM MergeIsTextbook == Spec => []AgreesWithTextbook
<1>1. Init => TextInv
  BY InitTextInv
<1>2. MInv /\ TextInv /\ [Next]_mvars => TextInv'
  BY NextTextInv
<1>3. Spec => []TextInv
  BY <1>1, <1>2, MInvHolds, PTL DEF Spec
<1>4. TextInv => AgreesWithTextbook
  BY DEF TextInv
<1> QED
  BY <1>3, <1>4, PTL

=============================================================================
