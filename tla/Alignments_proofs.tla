------------------------- MODULE Alignments_proofs -------------------------
(***************************************************************************)
(* What the operators of DiffRanges and Alignments return, for texts and   *)
(* lists of any length: common prefixes and suffixes, the places a list of *)
(* items leads through, what becomes of them when lists are joined, and    *)
(* that the recurrence of EditDistance computes the least cost.            *)
(* Before that, facts about naturals, sums and sequences that the library  *)
(* states with operators for parameters, or not at all.                    *)
(***************************************************************************)
EXTENDS Alignments, SequencesExt, FiniteSetTheorems, TLAPS

(***************************************************************************)
(* Every nonempty set of naturals has a least element: the intervals 1..x  *)
(* are finite sets, and those are well-founded by strict inclusion.        *)
(***************************************************************************)
LEMMA LeastNatural ==
  ASSUME NEW S, S \subseteq Nat, S # {}
  PROVE  \E x \in S : \A y \in S : x <= y
<1> DEFINE Intervals == {1..x : x \in S}
<1>1. Intervals \subseteq FiniteSubsetsOf(Nat)
  BY FS_Interval DEF FiniteSubsetsOf
<1>2. PICK t \in Intervals : \A u \in Intervals : <<u, t>> \notin StrictSubsetOrdering(Nat)
  <2>1. IsWellFoundedOn(StrictSubsetOrdering(Nat), FiniteSubsetsOf(Nat))
    BY FS_StrictSubsetOrderingWellFounded
  <2>2. Intervals # {}
    OBVIOUS
  <2> QED
    BY <1>1, <2>1, <2>2, WFMin
<1>3. PICK x \in S : t = 1..x
  OBVIOUS
<1>4. ASSUME NEW y \in S, y < x PROVE FALSE
  <2>1. /\ 1..y \in Intervals
        /\ 1..y \subseteq 1..x /\ x \in 1..x /\ x \notin 1..y
    BY <1>4
  <2>2. <<1..y, 1..x>> \in StrictSubsetOrdering(Nat)
    BY <2>1, <1>3 DEF StrictSubsetOrdering
  <2> QED
    BY <1>2, <1>3, <2>1, <2>2
<1> QED
  BY <1>4

(***************************************************************************)
(* common_prefix_len returns the length of the longest common prefix: at   *)
(* most the shorter range, everything before it equal and, unless a range  *)
(* ends there, the next elements different.                                *)
(***************************************************************************)
LEMMA CommonPrefixLenProperty ==
  ASSUME NEW s, NEW t, NEW r \in Ranges, NEW q \in Ranges
  PROVE  LET most == Min2(r.len, q.len)
             l == CommonPrefixLen(s, r, t, q)
         IN  /\ l \in 0..most
             /\ \A i \in 1..l : s[r.offset + i] = t[q.offset + i]
             /\ l < most => s[r.offset + l + 1] # t[q.offset + l + 1]
<1> DEFINE most == Min2(r.len, q.len)
           Ends == {l \in Nat : l = most \/ s[r.offset + l + 1] # t[q.offset + l + 1]}
<1>1. r.offset \in Nat /\ q.offset \in Nat /\ most \in Nat
  BY DEF Ranges, Min2
<1>2. Ends \subseteq Nat /\ most \in Ends
  BY <1>1
<1>3. PICK l \in Ends : \A y \in Ends : l <= y
  <2> HIDE DEF Ends
  <2> QED BY <1>2, LeastNatural
<1>4. l \in 0..most
  BY <1>1, <1>2, <1>3
<1>5. ASSUME NEW i \in 1..l PROVE s[r.offset + i] = t[q.offset + i]
  <2>1. i - 1 \in Nat /\ i - 1 < l /\ i - 1 # most
    BY <1>1, <1>4
  <2>2. i - 1 \notin Ends
    BY <1>3, <2>1
  <2>3. r.offset + (i - 1) + 1 = r.offset + i /\ q.offset + (i - 1) + 1 = q.offset + i
    BY <1>1, <1>4
  <2> QED
    BY <2>1, <2>2, <2>3
<1>6. l < most => s[r.offset + l + 1] # t[q.offset + l + 1]
  BY <1>1, <1>3, <1>4
<1>7. \E x \in 0..most :
        /\ \A i \in 1..x : s[r.offset + i] = t[q.offset + i]
        /\ x < most => s[r.offset + x + 1] # t[q.offset + x + 1]
  BY <1>4, <1>5, <1>6
<1> HIDE DEF Ends
<1> QED
  BY <1>7 DEF CommonPrefixLen

(* common_suffix_len, likewise from the ends of the two ranges. *)
LEMMA CommonSuffixLenProperty ==
  ASSUME NEW s, NEW t, NEW r \in Ranges, NEW q \in Ranges
  PROVE  LET most == Min2(r.len, q.len)
             l == CommonSuffixLen(s, r, t, q)
         IN  /\ l \in 0..most
             /\ \A i \in 0..l - 1 : s[RangeEnd(r) - i] = t[RangeEnd(q) - i]
             /\ l < most => s[RangeEnd(r) - l] # t[RangeEnd(q) - l]
<1> DEFINE most == Min2(r.len, q.len)
           Ends == {l \in Nat : l = most \/ s[RangeEnd(r) - l] # t[RangeEnd(q) - l]}
<1>1. most \in Nat
  BY DEF Ranges, Min2
<1>2. Ends \subseteq Nat /\ most \in Ends
  BY <1>1
<1>3. PICK l \in Ends : \A y \in Ends : l <= y
  <2> HIDE DEF Ends
  <2> QED BY <1>2, LeastNatural
<1>4. l \in 0..most
  BY <1>1, <1>2, <1>3
<1>5. ASSUME NEW i \in 0..l - 1 PROVE s[RangeEnd(r) - i] = t[RangeEnd(q) - i]
  <2>1. i \in Nat /\ i < l /\ i # most
    BY <1>1, <1>4
  <2> QED
    BY <1>3, <2>1
<1>6. l < most => s[RangeEnd(r) - l] # t[RangeEnd(q) - l]
  BY <1>1, <1>3, <1>4
<1>7. \E x \in 0..most :
        /\ \A i \in 0..x - 1 : s[RangeEnd(r) - i] = t[RangeEnd(q) - i]
        /\ x < most => s[RangeEnd(r) - x] # t[RangeEnd(q) - x]
  BY <1>4, <1>5, <1>6
<1> HIDE DEF Ends
<1> QED
  BY <1>7 DEF CommonSuffixLen

(* In short: no longer than either range, and the same on both sides. *)
LEMMA CommonPrefixFacts ==
  ASSUME NEW s, NEW t, NEW r \in Ranges, NEW q \in Ranges, NEW l, l = CommonPrefixLen(s, r, t, q)
  PROVE  /\ l \in 0..r.len /\ l \in 0..q.len
         /\ \A i \in 1..l : s[r.offset + i] = t[q.offset + i]
<1>1. r.len \in Nat /\ q.len \in Nat
  BY DEF Ranges
<1>2. l \in 0..Min2(r.len, q.len)
  BY CommonPrefixLenProperty
<1>3. \A i \in 1..l : s[r.offset + i] = t[q.offset + i]
  BY CommonPrefixLenProperty
<1> QED
  BY <1>1, <1>2, <1>3 DEF Min2

(* The same of the suffix. *)
LEMMA CommonSuffixFacts ==
  ASSUME NEW s, NEW t, NEW r \in Ranges, NEW q \in Ranges, NEW l, l = CommonSuffixLen(s, r, t, q)
  PROVE  /\ l \in 0..r.len /\ l \in 0..q.len
         /\ \A i \in 0..l - 1 : s[RangeEnd(r) - i] = t[RangeEnd(q) - i]
<1>1. r.len \in Nat /\ q.len \in Nat
  BY DEF Ranges
<1>2. l \in 0..Min2(r.len, q.len)
  BY CommonSuffixLenProperty
<1>3. \A i \in 0..l - 1 : s[RangeEnd(r) - i] = t[RangeEnd(q) - i]
  BY CommonSuffixLenProperty
<1> QED
  BY <1>1, <1>2, <1>3 DEF Min2

-----------------------------------------------------------------------------
(* Induction, with a set for the predicate. *)
LEMMA NatSetInduction ==
  ASSUME NEW S, 0 \in S, \A n \in Nat : n \in S => n + 1 \in S
  PROVE  Nat \subseteq S
<1> SUFFICES ASSUME Nat \ S # {} PROVE FALSE
  OBVIOUS
<1>1. PICK x \in Nat \ S : \A y \in Nat \ S : x <= y
  BY LeastNatural
<1>2. x # 0 /\ x - 1 \in Nat
  BY <1>1
<1>3. x - 1 \in S
  BY <1>1, <1>2
<1> QED
  BY <1>1, <1>2, <1>3

IsSum(f, s, n) == f = [i \in 0..n |-> IF i = 0 THEN 0 ELSE f[i - 1] + s[i]]

(* A function that adds up the first n elements exists, ... *)
LEMMA SumExists ==
  ASSUME NEW s, NEW n \in Nat
  PROVE  \E f : IsSum(f, s, n)
<1> DEFINE S == {m \in Nat : \E f : IsSum(f, s, m)}
<1>1. 0 \in S
  <2> DEFINE g == [i \in 0..0 |-> 0]
  <2>1. IsSum(g, s, 0)
    BY DEF IsSum
  <2> QED BY <2>1
<1>2. ASSUME NEW m \in Nat, m \in S PROVE m + 1 \in S
  <2>1. PICK f : IsSum(f, s, m)
    BY <1>2
  <2> DEFINE g == [i \in 0..m + 1 |-> IF i = m + 1 THEN f[m] + s[m + 1] ELSE f[i]]
  <2>2. ASSUME NEW i \in 0..m + 1 PROVE g[i] = IF i = 0 THEN 0 ELSE g[i - 1] + s[i]
    <3>1. CASE i = m + 1
      BY <3>1
    <3>2. CASE i # m + 1
      <4>1. i \in 0..m /\ g[i] = f[i]
        BY <3>2
      <4>2. f[i] = IF i = 0 THEN 0 ELSE f[i - 1] + s[i]
        BY <4>1, <2>1 DEF IsSum
      <4>3. i # 0 => g[i - 1] = f[i - 1]
        BY <4>1
      <4> QED
        BY <4>1, <4>2, <4>3
    <3> QED BY <3>1, <3>2
  <2>3. IsSum(g, s, m + 1)
    BY <2>2 DEF IsSum
  <2> QED
    BY <2>3
<1> HIDE DEF S
<1>3. n \in S
  BY <1>1, <1>2, NatSetInduction
<1> QED
  BY <1>3 DEF S

(* ... so SumUpTo, which chooses one, is such a sum. *)
LEMMA SumUpToIsSum ==
  ASSUME NEW s, NEW n \in Nat
  PROVE  \E f : IsSum(f, s, n) /\ SumUpTo(s, n) = f[n]
BY SumExists DEF SumUpTo, IsSum

(* Whatever satisfies the recurrence is the sum. *)
LEMMA SumUpToUnique ==
  ASSUME NEW s, NEW n \in Nat, NEW p, p[0] = 0, \A i \in 1..n : p[i] = p[i - 1] + s[i]
  PROVE  SumUpTo(s, n) = p[n]
<1>1. PICK f : IsSum(f, s, n) /\ SumUpTo(s, n) = f[n]
  BY SumUpToIsSum
<1> DEFINE S == {m \in Nat : m <= n => f[m] = p[m]}
<1>2. 0 \in S
  BY <1>1 DEF IsSum
<1>3. ASSUME NEW m \in Nat, m \in S PROVE m + 1 \in S
  <2> SUFFICES ASSUME m + 1 <= n PROVE f[m + 1] = p[m + 1]
    OBVIOUS
  <2>1. f[m] = p[m]
    BY <1>3
  <2>2. f[m + 1] = f[m] + s[m + 1]
    BY <1>1 DEF IsSum
  <2> QED
    BY <2>1, <2>2
<1> HIDE DEF S
<1>4. n \in S
  BY <1>2, <1>3, NatSetInduction
<1> QED
  BY <1>1, <1>4 DEF S

(* SumUpTo as the recursion it stands for. *)
LEMMA SumUpToRecurrence ==
  ASSUME NEW s
  PROVE  /\ SumUpTo(s, 0) = 0
         /\ \A n \in Nat \ {0} : SumUpTo(s, n) = SumUpTo(s, n - 1) + s[n]
<1>1. SumUpTo(s, 0) = 0
  BY SumUpToIsSum DEF IsSum
<1>2. ASSUME NEW n \in Nat \ {0} PROVE SumUpTo(s, n) = SumUpTo(s, n - 1) + s[n]
  <2>1. PICK f : IsSum(f, s, n) /\ SumUpTo(s, n) = f[n]
    BY SumUpToIsSum
  <2>2. f[0] = 0 /\ \A i \in 1..n : f[i] = f[i - 1] + s[i]
    BY <2>1 DEF IsSum
  <2>3. SumUpTo(s, n - 1) = f[n - 1]
    BY <2>2, SumUpToUnique
  <2> QED
    BY <2>1, <2>2, <2>3
<1> QED
  BY <1>1, <1>2

(* A sum of lengths is a length. *)
LEMMA SumUpToType ==
  ASSUME NEW s \in Seq(Nat), NEW n \in 0..Len(s)
  PROVE  SumUpTo(s, n) \in Nat
<1> DEFINE S == {m \in Nat : m <= Len(s) => SumUpTo(s, m) \in Nat}
<1>1. 0 \in S
  BY SumUpToRecurrence
<1>2. ASSUME NEW m \in Nat, m \in S PROVE m + 1 \in S
  <2> SUFFICES ASSUME m + 1 <= Len(s) PROVE SumUpTo(s, m + 1) \in Nat
    OBVIOUS
  <2>1. SumUpTo(s, m + 1) = SumUpTo(s, m) + s[m + 1]
    BY SumUpToRecurrence
  <2> QED
    BY <1>2, <2>1
<1> HIDE DEF S
<1>3. n \in Nat /\ n <= Len(s)
  OBVIOUS
<1>4. n \in S
  BY <1>1, <1>2, <1>3, NatSetInduction
<1> QED
  BY <1>3, <1>4 DEF S

(* Of two rows in a row, the sums of the first and then of the second. *)
LEMMA SumUpToConcat ==
  ASSUME NEW s \in Seq(Nat), NEW t \in Seq(Nat)
  PROVE  /\ \A n \in 0..Len(s) : SumUpTo(s \o t, n) = SumUpTo(s, n)
         /\ \A n \in 0..Len(t) :
              SumUpTo(s \o t, Len(s) + n) = SumUpTo(s, Len(s)) + SumUpTo(t, n)
<1>1. /\ Len(s) \in Nat /\ Len(t) \in Nat
      /\ \A i \in 1..Len(s) : (s \o t)[i] = s[i]
      /\ \A i \in 1..Len(t) : (s \o t)[Len(s) + i] = t[i]
  OBVIOUS
<1> DEFINE p == [i \in 0..Len(s) + Len(t) |->
                   IF i <= Len(s) THEN SumUpTo(s, i)
                   ELSE SumUpTo(s, Len(s)) + SumUpTo(t, i - Len(s))]
<1>2. p[0] = 0
  BY <1>1, SumUpToRecurrence
<1>3. ASSUME NEW i \in 1..Len(s) + Len(t)
      PROVE  p[i] = p[i - 1] + (s \o t)[i]
  <2>1. CASE i <= Len(s)
    <3>1. SumUpTo(s, i) = SumUpTo(s, i - 1) + s[i]
      BY <2>1, SumUpToRecurrence
    <3> QED
      BY <1>1, <2>1, <3>1
  <2>2. CASE i > Len(s)
    <3> DEFINE j == i - Len(s)
    <3>1. j \in 1..Len(t) /\ i = Len(s) + j
      BY <1>1, <2>2
    <3>2. SumUpTo(t, j) = SumUpTo(t, j - 1) + t[j]
      BY <3>1, SumUpToRecurrence
    <3>3. SumUpTo(s, Len(s)) \in Nat /\ SumUpTo(t, j - 1) \in Nat /\ t[j] \in Nat
      BY <1>1, <3>1, SumUpToType
    <3>4. p[i] = SumUpTo(s, Len(s)) + SumUpTo(t, j)
      BY <1>1, <2>2
    <3>5. p[i - 1] = SumUpTo(s, Len(s)) + SumUpTo(t, j - 1)
      <4>1. CASE i - 1 <= Len(s)
        <5>1. i - 1 = Len(s) /\ j - 1 = 0
          BY <1>1, <2>2, <4>1
        <5>2. SumUpTo(t, j - 1) = 0
          BY <5>1, SumUpToRecurrence
        <5> QED
          BY <1>1, <3>3, <5>1, <5>2
      <4>2. CASE i - 1 > Len(s)
        BY <1>1, <4>2
      <4> QED
        BY <1>1, <4>1, <4>2
    <3>6. (s \o t)[i] = t[j]
      BY <1>1, <3>1
    <3> HIDE DEF p, j
    <3> QED
      BY SMTT(60), <3>2, <3>3, <3>4, <3>5, <3>6
  <2> QED
    BY <1>1, <2>1, <2>2
<1>4. ASSUME NEW n \in 0..Len(s) + Len(t) PROVE SumUpTo(s \o t, n) = p[n]
  <2>1. n \in Nat /\ \A i \in 1..n : i \in 1..Len(s) + Len(t)
    BY <1>1
  <2>2. \A i \in 1..n : p[i] = p[i - 1] + (s \o t)[i]
    BY <1>3, <2>1
  <2> HIDE DEF p
  <2> QED
    BY ZenonT(60), <1>2, <2>1, <2>2, SumUpToUnique
<1>5. ASSUME NEW n \in 0..Len(s) PROVE SumUpTo(s \o t, n) = SumUpTo(s, n)
  BY <1>1, <1>4
<1>6. ASSUME NEW n \in 0..Len(t)
      PROVE  SumUpTo(s \o t, Len(s) + n) = SumUpTo(s, Len(s)) + SumUpTo(t, n)
  <2>1. CASE n = 0
    <3>1. SumUpTo(t, n) = 0
      BY <2>1, SumUpToRecurrence
    <3>2. SumUpTo(s, Len(s)) \in Nat
      BY <1>1, SumUpToType
    <3> QED
      BY <1>1, <1>4, <2>1, <3>1, <3>2
  <2>2. CASE n # 0
    <3>1. Len(s) + n \in 0..Len(s) + Len(t) /\ ~(Len(s) + n <= Len(s)) /\ (Len(s) + n) - Len(s) = n
      BY <1>1, <2>2
    <3>2. SumUpTo(s \o t, Len(s) + n) = p[Len(s) + n]
      BY <1>4, <3>1
    <3> QED
      BY <3>1, <3>2
  <2> QED
    BY <2>1, <2>2
<1> QED
  BY <1>5, <1>6

(* Sums only grow. *)
LEMMA SumUpToMonotonic ==
  ASSUME NEW s \in Seq(Nat), NEW n \in 0..Len(s)
  PROVE  SumUpTo(s, n) <= SumUpTo(s, Len(s))
<1> DEFINE S == {m \in Nat : n + m <= Len(s) => SumUpTo(s, n) <= SumUpTo(s, n + m)}
<1>1. n \in Nat /\ Len(s) \in Nat /\ SumUpTo(s, n) \in Nat
  BY SumUpToType
<1>2. 0 \in S
  BY <1>1
<1>3. ASSUME NEW m \in Nat, m \in S PROVE m + 1 \in S
  <2> SUFFICES ASSUME n + (m + 1) <= Len(s) PROVE SumUpTo(s, n) <= SumUpTo(s, n + (m + 1))
    OBVIOUS
  <2>1. SumUpTo(s, n + (m + 1)) = SumUpTo(s, n + m) + s[n + (m + 1)]
    <3>1. n + (m + 1) \in Nat \ {0} /\ (n + (m + 1)) - 1 = n + m
      BY <1>1
    <3> QED
      BY <3>1, SumUpToRecurrence
  <2>2. SumUpTo(s, n + m) \in Nat /\ s[n + (m + 1)] \in Nat
    BY <1>1, SumUpToType
  <2>3. SumUpTo(s, n) <= SumUpTo(s, n + m)
    BY <1>1, <1>3
  <2> QED
    BY <1>1, <2>1, <2>2, <2>3
<1>4. Len(s) - n \in Nat
  BY <1>1
<1> HIDE DEF S
<1>5. Len(s) - n \in S
  BY <1>2, <1>3, <1>4, NatSetInduction
<1>6. n + (Len(s) - n) = Len(s)
  BY <1>1
<1> QED
  BY <1>1, <1>5, <1>6 DEF S

-----------------------------------------------------------------------------

(* What an item takes of the texts and costs, by its kind. *)
LEMMA ItemLens ==
  ASSUME NEW diff \in DiffRange
  PROVE  /\ diff.old.offset \in Nat /\ diff.old.len \in Nat /\ diff.old \in Ranges
         /\ diff.new.offset \in Nat /\ diff.new.len \in Nat /\ diff.new \in Ranges
         /\ OldLen(diff) \in Nat /\ NewLen(diff) \in Nat /\ EditLen(diff) \in Nat
         /\ diff.kind = "Equal" => /\ InOld(diff) /\ InNew(diff) /\ ~IsEdit(diff)
                                   /\ OldLen(diff) = diff.old.len /\ NewLen(diff) = diff.new.len
                                   /\ EditLen(diff) = 0 /\ LenOf(diff) = diff.old.len
         /\ diff.kind = "Delete" => /\ InOld(diff) /\ ~InNew(diff) /\ IsEdit(diff)
                                    /\ OldLen(diff) = diff.old.len /\ NewLen(diff) = 0
                                    /\ EditLen(diff) = diff.old.len /\ LenOf(diff) = diff.old.len
         /\ diff.kind = "Insert" => /\ ~InOld(diff) /\ InNew(diff) /\ IsEdit(diff)
                                    /\ OldLen(diff) = 0 /\ NewLen(diff) = diff.new.len
                                    /\ EditLen(diff) = diff.new.len /\ LenOf(diff) = diff.new.len
BY DEF DiffRange, Ranges, OldLen, NewLen, EditLen, LenOf, Inner, InOld, InNew, IsEdit

(* A row is a sequence. *)
LEMMA RowIsSeq ==
  ASSUME NEW T, NEW n \in Nat, NEW f \in [1..n -> T]
  PROVE  f \in Seq(T) /\ Len(f) = n
OBVIOUS

(* What an item takes of each text and adds to the cost. *)
LEMMA LensType ==
  ASSUME NEW ds \in Seq(DiffRange)
  PROVE  /\ OldLens(ds) \in Seq(Nat) /\ Len(OldLens(ds)) = Len(ds)
         /\ NewLens(ds) \in Seq(Nat) /\ Len(NewLens(ds)) = Len(ds)
         /\ EditLens(ds) \in Seq(Nat) /\ Len(EditLens(ds)) = Len(ds)
<1>1. \A i \in 1..Len(ds) : ds[i] \in DiffRange
  OBVIOUS
<1>2. \A diff \in DiffRange : OldLen(diff) \in Nat /\ NewLen(diff) \in Nat /\ EditLen(diff) \in Nat
  BY DEF DiffRange, Ranges, OldLen, NewLen, EditLen, LenOf, Inner
<1>3. Len(ds) \in Nat /\ DOMAIN ds = 1..Len(ds)
  OBVIOUS
<1>4. /\ OldLens(ds) \in [1..Len(ds) -> Nat]
      /\ NewLens(ds) \in [1..Len(ds) -> Nat]
      /\ EditLens(ds) \in [1..Len(ds) -> Nat]
  BY <1>1, <1>2, <1>3 DEF OldLens, NewLens, EditLens
<1> QED
  BY <1>3, <1>4, RowIsSeq

(* Two sequences with the same elements are the same. *)
LEMMA SameElements ==
  ASSUME NEW T, NEW s \in Seq(T), NEW t \in Seq(T), Len(s) = Len(t),
         \A i \in 1..Len(s) : s[i] = t[i]
  PROVE  s = t
<1>1. s = [i \in 1..Len(s) |-> s[i]] /\ t = [i \in 1..Len(t) |-> t[i]]
  OBVIOUS
<1> QED
  BY <1>1

(* What is first one and then the other sequence is their concatenation. *)
LEMMA ConcatElements ==
  ASSUME NEW T, NEW s \in Seq(T), NEW t \in Seq(T), NEW r \in Seq(T),
         Len(r) = Len(s) + Len(t),
         \A i \in 1..Len(s) : r[i] = s[i],
         \A i \in 1..Len(t) : r[Len(s) + i] = t[i]
  PROVE  r = s \o t
<1>1. /\ Len(s) \in Nat /\ Len(t) \in Nat
      /\ s \o t \in Seq(T) /\ Len(s \o t) = Len(s) + Len(t)
      /\ \A i \in 1..Len(s) + Len(t) : (s \o t)[i] = IF i <= Len(s) THEN s[i] ELSE t[i - Len(s)]
  OBVIOUS
<1>2. ASSUME NEW i \in 1..Len(s) + Len(t) PROVE r[i] = (s \o t)[i]
  <2>1. CASE i <= Len(s)
    BY <1>1, <2>1
  <2>2. CASE i > Len(s)
    <3>1. i - Len(s) \in 1..Len(t) /\ Len(s) + (i - Len(s)) = i /\ ~(i <= Len(s))
      BY <1>1, <2>2
    <3>2. r[Len(s) + (i - Len(s))] = t[i - Len(s)]
      BY <3>1
    <3> QED
      BY <1>1, <3>1, <3>2
  <2> QED
    BY <1>1, <2>1, <2>2
<1> QED
  BY <1>1, <1>2, SameElements

(* \o, as an operator that the provers leave alone. *)
Join(a, b) == a \o b

(* It does not matter where a row of three is joined first. *)
LEMMA JoinAssociates ==
  ASSUME NEW T, NEW a \in Seq(T), NEW b \in Seq(T), NEW c \in Seq(T)
  PROVE  /\ Join(Join(a, b), c) = Join(a, Join(b, c))
         /\ Join(a, b) \in Seq(T) /\ Len(Join(a, b)) = Len(a) + Len(b) /\ Len(a) \in Nat
<1>1. (a \o b) \o c = a \o (b \o c)
  OBVIOUS
<1>2. a \o b \in Seq(T) /\ Len(a \o b) = Len(a) + Len(b) /\ Len(a) \in Nat
  OBVIOUS
<1> QED
  BY <1>1, <1>2 DEF Join

(***************************************************************************)
(* FlattenSeq of some parts is what has been put together after the last   *)
(* of them: there is one way only to solve its recursion.                  *)
(***************************************************************************)
IsFlat(f, parts) == f = [i \in 1..Len(parts) |-> IF i = 1 THEN parts[i] ELSE f[i - 1] \o parts[i]]

Flattens(g, parts) ==
  /\ Len(parts) \in Nat \ {0}
  /\ g[1] = parts[1] /\ \A i \in 2..Len(parts) : g[i] = g[i - 1] \o parts[i]

(* FlattenSeq, which folds over its argument, by what each step has joined
   so far: whatever joins part after part is what it returns. *)
LEMMA FlatExists ==
  ASSUME NEW parts, NEW g, Flattens(g, parts)
  PROVE  FlattenSeq(parts) = g[Len(parts)]
<1> DEFINE n == Len(parts)
<1>0. n \in Nat \ {0} /\ g[1] = parts[1] /\ \A i \in 2..n : g[i] = g[i - 1] \o parts[i]
  BY DEF Flattens
<1> DEFINE h == [i \in 1..n |-> g[i]]
<1>1. IsFlat(h, parts)
  <2>1. ASSUME NEW i \in 1..n PROVE h[i] = IF i = 1 THEN parts[i] ELSE h[i - 1] \o parts[i]
    <3>1. CASE i = 1
      BY <1>0, <3>1
    <3>2. CASE i # 1
      <4>1. i \in 2..n /\ i - 1 \in 1..n
        BY <3>2
      <4>2. h[i] = g[i] /\ h[i - 1] = g[i - 1]
        BY <4>1
      <4> QED
        BY <1>0, <3>2, <4>1, <4>2
    <3> QED
      BY <3>1, <3>2
  <2> QED
    BY <2>1 DEF IsFlat
<1> DEFINE f == CHOOSE x : IsFlat(x, parts)
<1>2. IsFlat(f, parts)
  <2> HIDE DEF h
  <2> QED
    BY <1>1
<1>3. FlattenSeq(parts) = f[n]
  BY <1>0 DEF FlattenSeq, IsFlat
<1> HIDE DEF f, h, n
<1> DEFINE S == {m \in Nat : m + 1 <= n => f[m + 1] = g[m + 1]}
<1>4. \A i \in 1..n : f[i] = IF i = 1 THEN parts[i] ELSE f[i - 1] \o parts[i]
  BY <1>2 DEF IsFlat, n
<1>5. 0 \in S
  BY <1>0, <1>4
<1>6. ASSUME NEW m \in Nat, m \in S PROVE m + 1 \in S
  <2> SUFFICES ASSUME (m + 1) + 1 <= n PROVE f[(m + 1) + 1] = g[(m + 1) + 1]
    OBVIOUS
  <2> DEFINE i == (m + 1) + 1
  <2>1. i \in 2..n /\ i \in 1..n /\ i # 1 /\ i - 1 = m + 1 /\ m + 1 <= n
    BY <1>0
  <2>2. f[m + 1] = g[m + 1]
    BY <1>6, <2>1
  <2> HIDE DEF i, S
  <2>3. f[i] = f[i - 1] \o parts[i] /\ g[i] = g[i - 1] \o parts[i]
    BY <1>0, <1>4, <2>1
  <2>4. f[i] = g[i]
    BY <2>1, <2>2, <2>3
  <2> QED
    BY <2>4 DEF i
<1> HIDE DEF S
<1>7. n - 1 \in S
  <2>1. n - 1 \in Nat
    BY <1>0
  <2> QED
    BY <1>5, <1>6, <2>1, NatSetInduction
<1>8. f[n] = g[n]
  <2>1. (n - 1) + 1 = n /\ n <= n
    BY <1>0
  <2> QED
    BY <1>7, <2>1 DEF S
<1> QED
  BY <1>3, <1>8 DEF n

(* Flattening nothing, and one part more. *)
LEMMA FlatEmpty == FlattenSeq(<<>>) = <<>>
BY DEF FlattenSeq

(* For parts of one type there is such a function. *)
LEMMA FlatSolved ==
  ASSUME NEW T, NEW parts \in Seq(Seq(T)), Len(parts) # 0
  PROVE  \E g : Flattens(g, parts) /\ \A i \in 1..Len(parts) : g[i] \in Seq(T)
<1> DEFINE n == Len(parts)
           Fits(g, m) == /\ g \in [1..m + 1 -> Seq(T)] /\ g[1] = parts[1]
                         /\ \A i \in 2..m + 1 : g[i] = Join(g[i - 1], parts[i])
           S == {m \in Nat : m + 1 <= n => \E g : Fits(g, m)}
<1>1. n \in Nat \ {0} /\ \A i \in 1..n : parts[i] \in Seq(T)
  OBVIOUS
<1> HIDE DEF n
<1>2. 0 \in S
  <2> DEFINE g == [i \in 1..0 + 1 |-> parts[1]]
  <2>1. Fits(g, 0)
    BY <1>1
  <2> QED
    BY <2>1
<1>3. ASSUME NEW m \in Nat, m \in S PROVE m + 1 \in S
  <2> HIDE DEF Fits
  <2> SUFFICES ASSUME (m + 1) + 1 <= n PROVE \E g : Fits(g, m + 1)
    OBVIOUS
  <2>1. PICK f : Fits(f, m)
    BY <1>1, <1>3
  <2> USE DEF Fits
  <2> DEFINE k == (m + 1) + 1
             longer == Join(f[m + 1], parts[k])
             g == [i \in 1..(m + 1) + 1 |-> IF i = k THEN longer ELSE f[i]]
  <2>2. k \in 2..n /\ k - 1 = m + 1 /\ k \in Nat /\ f[m + 1] \in Seq(T) /\ parts[k] \in Seq(T)
    BY <1>1, <2>1
  <2>3. longer \in Seq(T)
    BY <2>2 DEF Join
  <2> HIDE DEF longer
  <2>4. g \in [1..(m + 1) + 1 -> Seq(T)] /\ g[1] = parts[1] /\ g[k] = longer
    BY <2>1, <2>2, <2>3
  <2>5. ASSUME NEW i \in 2..(m + 1) + 1 PROVE g[i] = Join(g[i - 1], parts[i])
    <3>1. CASE i = k
      <4>1. g[i - 1] = f[m + 1]
        BY <2>2, <3>1
      <4> QED
        BY <2>4, <3>1, <4>1 DEF longer
    <3>2. CASE i # k
      <4>1. i \in 2..m + 1 /\ g[i] = f[i] /\ g[i - 1] = f[i - 1]
        BY <2>2, <3>2
      <4> QED
        BY <2>1, <4>1
    <3> QED
      BY <3>1, <3>2
  <2> QED
    BY <2>4, <2>5
<1> HIDE DEF S, Fits
<1>4. n - 1 \in S /\ n - 1 \in Nat /\ (n - 1) + 1 = n
  <2>1. n - 1 \in Nat /\ (n - 1) + 1 = n
    BY <1>1
  <2> QED
    BY <1>2, <1>3, <2>1, NatSetInduction
<1>5. PICK g : Fits(g, n - 1)
  BY <1>4 DEF S
<1>6. g \in [1..n -> Seq(T)] /\ g[1] = parts[1] /\ \A i \in 2..n : g[i] = g[i - 1] \o parts[i]
  BY <1>4, <1>5 DEF Fits, Join
<1> QED
  BY <1>1, <1>6 DEF Flattens, n

(* A sequence and one more, with Append out of the provers' sight. *)
Longer(more, parts, part) == more = Append(parts, part)

(* One part more: it is joined to the end. *)
LEMMA FlatLonger ==
  ASSUME NEW T, NEW parts \in Seq(Seq(T)), NEW part \in Seq(T), NEW more,
         Longer(more, parts, part)
  PROVE  /\ FlattenSeq(parts) \in Seq(T)
         /\ FlattenSeq(more) = Join(FlattenSeq(parts), part)
<1>1. /\ Len(parts) \in Nat /\ Len(more) = Len(parts) + 1 /\ more[Len(parts) + 1] = part
      /\ \A i \in 1..Len(parts) : more[i] = parts[i]
  BY DEF Longer
<1> DEFINE n == Len(parts)
<1>2. CASE n = 0
  <2>1. parts = <<>> /\ FlattenSeq(parts) = <<>>
    BY <1>2, FlatEmpty
  <2> DEFINE g == [i \in 1..1 |-> part]
  <2>2. Flattens(g, more)
    BY <1>1, <1>2 DEF Flattens
  <2>3. Len(more) = 1 /\ g[1] = part
    BY <1>1, <1>2
  <2> HIDE DEF g
  <2>4. FlattenSeq(more) = g[Len(more)]
    BY <2>2, FlatExists
  <2>5. FlattenSeq(more) = part
    BY <2>3, <2>4
  <2>6. Join(<<>>, part) = part /\ <<>> \in Seq(T)
    BY DEF Join
  <2> QED
    BY <2>1, <2>5, <2>6
<1>3. CASE n # 0
  <2>1. PICK f : Flattens(f, parts) /\ \A i \in 1..n : f[i] \in Seq(T)
    BY <1>3, FlatSolved
  <2>2. FlattenSeq(parts) = f[n] /\ f[n] \in Seq(T)
    BY <1>1, <1>3, <2>1, FlatExists
  <2> DEFINE longer == f[n] \o part
             g == [i \in 1..n + 1 |-> IF i = n + 1 THEN longer ELSE f[i]]
  <2> HIDE DEF longer
  <2>3. g[n + 1] = longer /\ \A i \in 1..n : g[i] = f[i]
    BY <1>1
  <2> HIDE DEF g
  <2>4. ASSUME NEW i \in 2..n + 1 PROVE g[i] = g[i - 1] \o more[i]
    <3>1. CASE i = n + 1
      <4>1. i - 1 = n /\ n \in 1..n /\ more[i] = part
        BY <1>1, <3>1
      <4> QED
        BY <2>3, <3>1, <4>1 DEF longer
    <3>2. CASE i # n + 1
      <4>1. i \in 2..n /\ i \in 1..n /\ i - 1 \in 1..n
        BY <1>1, <3>2
      <4>2. f[i] = f[i - 1] \o parts[i]
        BY <2>1, <4>1 DEF Flattens
      <4> QED
        BY <1>1, <2>3, <4>1, <4>2
    <3> QED
      BY <3>1, <3>2
  <2>5. Flattens(g, more)
    <3>1. g[1] = more[1]
      BY <1>1, <1>3, <2>1, <2>3 DEF Flattens
    <3>2. Len(more) = n + 1 /\ n + 1 \in Nat \ {0}
      BY <1>1
    <3> HIDE DEF n
    <3> QED
      BY <2>4, <3>1, <3>2 DEF Flattens
  <2>6. FlattenSeq(more) = g[n + 1]
    BY <1>1, <2>5, FlatExists
  <2> QED
    BY <2>2, <2>3, <2>6 DEF Join, longer
<1> QED
  BY <1>2, <1>3

(* The same with the longer sequence spelled out. *)
LEMMA FlatAppend ==
  ASSUME NEW T, NEW parts \in Seq(Seq(T)), NEW part \in Seq(T), NEW more,
         more = Append(parts, part)
  PROVE  /\ FlattenSeq(parts) \in Seq(T)
         /\ FlattenSeq(more) = Join(FlattenSeq(parts), part)
<1>1. Longer(more, parts, part)
  BY DEF Longer
<1> QED
  BY <1>1, FlatLonger

(* Two elements are one and then the other. *)
LEMMA OneAndOne ==
  ASSUME NEW a, NEW b
  PROVE  <<a, b>> = <<a>> \o <<b>>
<1> DEFINE one == <<a>>
           two == <<b>>
           both == <<a, b>>
           T == {a, b}
<1>1. /\ Len(one) = 1 /\ Len(two) = 1 /\ Len(both) = 2
      /\ one[1] = a /\ two[1] = b /\ both[1] = a /\ both[2] = b
      /\ one \in Seq(T) /\ two \in Seq(T) /\ both \in Seq(T)
  OBVIOUS
<1> HIDE DEF one, two, both
<1>2. Len(both) = Len(one) + Len(two)
  BY <1>1
<1>3. \A i \in 1..Len(one) : both[i] = one[i]
  BY <1>1
<1>4. \A i \in 1..Len(two) : both[Len(one) + i] = two[i]
  BY <1>1
<1>5. both = one \o two
  BY <1>1, <1>2, <1>3, <1>4, ConcatElements
<1> QED
  BY <1>5 DEF one, two, both

(* A sequence with one element more. *)
LEMMA AppendElements ==
  ASSUME NEW T, NEW s \in Seq(T), NEW e \in T, NEW r, r = Append(s, e)
  PROVE  /\ r \in Seq(T) /\ Len(r) = Len(s) + 1 /\ Len(s) \in Nat
         /\ r[Len(s) + 1] = e /\ \A i \in 1..Len(s) : r[i] = s[i]
OBVIOUS

(* ... and what has such elements is what Append returns. *)
LEMMA AppendByElements ==
  ASSUME NEW T, NEW s \in Seq(T), NEW e \in T, NEW r \in Seq(T), Len(r) = Len(s) + 1,
         r[Len(s) + 1] = e, \A i \in 1..Len(s) : r[i] = s[i]
  PROVE  r = Append(s, e)
<1> DEFINE q == Append(s, e)
<1>1. q \in Seq(T) /\ Len(q) = Len(s) + 1 /\ q[Len(s) + 1] = e /\ \A i \in 1..Len(s) : q[i] = s[i]
  BY AppendElements
<1>2. Len(s) \in Nat
  OBVIOUS
<1> HIDE DEF q
<1>3. \A i \in 1..Len(r) : r[i] = q[i]
  BY <1>1, <1>2
<1>4. r = q
  BY <1>1, <1>3, SameElements
<1> QED
  BY <1>4 DEF q

(* Appending is joining a sequence of one element. *)
LEMMA AppendIsConcat ==
  ASSUME NEW T, NEW s \in Seq(T), NEW e \in T
  PROVE  s \o <<e>> = Append(s, e)
<1> DEFINE r == Append(s, e)
           one == <<e>>
<1>1. /\ r \in Seq(T) /\ Len(r) = Len(s) + 1 /\ r[Len(s) + 1] = e
      /\ \A i \in 1..Len(s) : r[i] = s[i]
  BY AppendElements
<1>2. one \in Seq(T) /\ Len(one) = 1 /\ one[1] = e
  OBVIOUS
<1> HIDE DEF r, one
<1>3. \A i \in 1..Len(one) : r[Len(s) + i] = one[i]
  BY <1>1, <1>2
<1>4. Len(r) = Len(s) + Len(one)
  BY <1>1, <1>2
<1>5. r = s \o one
  BY <1>1, <1>2, <1>3, <1>4, ConcatElements
<1> QED
  BY <1>5 DEF r, one

(* A beginning of a sequence, and the next element. *)
LEMMA PrefixNext ==
  ASSUME NEW T, NEW s \in Seq(T), NEW m \in 0..Len(s), m < Len(s)
  PROVE  /\ SubSeq(s, 1, m) \in Seq(T) /\ s[m + 1] \in T
         /\ SubSeq(s, 1, m + 1) = Append(SubSeq(s, 1, m), s[m + 1])
<1> DEFINE a == SubSeq(s, 1, m)
           b == SubSeq(s, 1, m + 1)
<1>1. /\ a \in Seq(T) /\ Len(a) = m /\ \A i \in 1..m : a[i] = s[i]
      /\ b \in Seq(T) /\ Len(b) = m + 1 /\ \A i \in 1..m + 1 : b[i] = s[i]
      /\ s[m + 1] \in T /\ m \in Nat
  OBVIOUS
<1> HIDE DEF a, b
<1>2. b[Len(a) + 1] = s[m + 1] /\ \A i \in 1..Len(a) : b[i] = a[i]
  BY <1>1
<1>3. b = Append(a, s[m + 1])
  BY <1>1, <1>2, AppendByElements
<1> QED
  BY <1>1, <1>3 DEF a, b

(* The empty sequence and the whole one, as slices and as what is joined. *)
LEMMA WholeSeq ==
  ASSUME NEW T, NEW s \in Seq(T)
  PROVE  /\ SubSeq(s, 1, 0) = <<>> /\ SubSeq(s, 1, Len(s)) = s
         /\ \A i \in Nat : SubSeq(s, i + 1, i) = <<>>
         /\ s \o <<>> = s /\ <<>> \o s = s /\ Len(s) \in Nat
OBVIOUS

(* FlatAppend without a name for the longer sequence. *)
LEMMA FlatOneMore ==
  ASSUME NEW T, NEW parts \in Seq(Seq(T)), NEW part \in Seq(T)
  PROVE  FlattenSeq(Append(parts, part)) = Join(FlattenSeq(parts), part)
<1> DEFINE more == Append(parts, part)
<1>1. Longer(more, parts, part)
  BY DEF Longer
<1> HIDE DEF more
<1>2. FlattenSeq(more) = Join(FlattenSeq(parts), part)
  BY <1>1, FlatLonger
<1> QED
  BY <1>2 DEF more

(* Flattening rows that have been joined. *)
LEMMA FlatConcat ==
  ASSUME NEW T, NEW a \in Seq(Seq(T)), NEW b \in Seq(Seq(T))
  PROVE  FlattenSeq(Join(a, b)) = Join(FlattenSeq(a), FlattenSeq(b))
<1> DEFINE R == Seq(T)
           front(m) == SubSeq(b, 1, m)
           S == {m \in Nat : m <= Len(b) => FlattenSeq(Join(a, front(m))) = Join(FlattenSeq(a), FlattenSeq(front(m)))}
<1>0. <<>> \in Seq(T)
  OBVIOUS
<1>1. FlattenSeq(a) \in Seq(T) /\ FlattenSeq(b) \in Seq(T) /\ Len(b) \in Nat
  <2>1. FlattenSeq(a) \in Seq(T)
    BY <1>0, FlatAppend
  <2>2. FlattenSeq(b) \in Seq(T)
    BY <1>0, FlatAppend
  <2>3. Len(b) \in Nat
    OBVIOUS
  <2> QED
    BY <2>1, <2>2, <2>3
<1>2. 0 \in S
  <2>1. front(0) = <<>>
    BY WholeSeq
  <2>2. Join(a, <<>>) = a
    BY WholeSeq DEF Join
  <2>3. Join(FlattenSeq(a), <<>>) = FlattenSeq(a)
    BY <1>1, WholeSeq DEF Join
  <2> HIDE DEF front
  <2> QED
    BY <2>1, <2>2, <2>3, FlatEmpty
<1>3. ASSUME NEW m \in Nat, m \in S PROVE m + 1 \in S
  <2> SUFFICES ASSUME m + 1 <= Len(b)
               PROVE  FlattenSeq(Join(a, front(m + 1))) = Join(FlattenSeq(a), FlattenSeq(front(m + 1)))
    OBVIOUS
  <2> DEFINE e == b[m + 1]
             f == front(m)
             one == <<e>>
  <2>1. f \in Seq(R) /\ e \in R /\ front(m + 1) = Append(f, e)
    BY <1>1, PrefixNext
  <2>2. FlattenSeq(Join(a, f)) = Join(FlattenSeq(a), FlattenSeq(f))
    BY <1>1, <1>3
  <2> HIDE DEF f, e, front, R
  <2>3. one \in Seq(R) /\ Append(f, e) = Join(f, one)
    BY <2>1, AppendIsConcat DEF Join
  <2>4. a \in Seq(R) /\ Join(a, f) \in Seq(R) /\ Join(Join(a, f), one) = Join(a, Join(f, one))
    <3>1. a \in Seq(R)
      BY DEF R
    <3>2. one \in Seq(R) /\ f \in Seq(R)
      BY <2>1, <2>3
    <3> HIDE DEF one
    <3>3. Join(Join(a, f), one) = Join(a, Join(f, one))
      BY <3>1, <3>2, JoinAssociates
    <3>4. Join(a, f) \in Seq(R)
      BY <3>1, <3>2, JoinAssociates
    <3> QED
      BY <3>1, <3>3, <3>4
  <2>5. Join(a, Append(f, e)) = Append(Join(a, f), e)
    <3>1. Join(Join(a, f), one) = Append(Join(a, f), e)
      BY <2>1, <2>4, AppendIsConcat DEF Join
    <3> QED
      BY <2>3, <2>4, <3>1
  <2>61. f \in Seq(Seq(T)) /\ e \in Seq(T) /\ Join(a, f) \in Seq(Seq(T))
    BY <2>1, <2>4 DEF R
  <2> HIDE DEF S, one
  <2>62. FlattenSeq(Append(f, e)) = Join(FlattenSeq(f), e)
    BY <2>61, FlatOneMore
  <2>63. FlattenSeq(f) \in Seq(T)
    BY <2>61, FlatAppend
  <2>6. FlattenSeq(Append(f, e)) = Join(FlattenSeq(f), e) /\ FlattenSeq(f) \in Seq(T)
    BY <2>62, <2>63
  <2>7. FlattenSeq(Append(Join(a, f), e)) = Join(FlattenSeq(Join(a, f)), e)
    BY <2>61, FlatOneMore
  <2>8. Join(Join(FlattenSeq(a), FlattenSeq(f)), e) = Join(FlattenSeq(a), Join(FlattenSeq(f), e))
    BY <1>1, <2>1, <2>6, JoinAssociates DEF R
  <2> QED
    BY <2>1, <2>2, <2>5, <2>6, <2>7, <2>8
<1>4. Len(b) \in S
  <2> HIDE DEF S
  <2> QED
    BY <1>1, <1>2, <1>3, NatSetInduction
<1>5. front(Len(b)) = b
  BY WholeSeq
<1> HIDE DEF front
<1> QED
  BY <1>1, <1>4, <1>5

(* Rows of one element each, and of none. *)
LEMMA FlatSingles ==
  ASSUME NEW T, NEW f \in Seq(T), NEW parts, parts = [i \in 1..Len(f) |-> <<f[i]>>]
  PROVE  FlattenSeq(parts) = f
<1> DEFINE n == Len(f)
           g == [i \in 1..n |-> SubSeq(f, 1, i)]
<1>1. n \in Nat /\ Len(parts) = n /\ \A i \in 1..n : parts[i] = <<f[i]>>
  OBVIOUS
<1>2. CASE n = 0
  <2>1. parts = <<>> /\ f = <<>>
    BY <1>1, <1>2
  <2> QED
    BY <2>1, FlatEmpty
<1>3. CASE n # 0
  <2>1. ASSUME NEW i \in 1..n
        PROVE  /\ SubSeq(f, 1, i) = SubSeq(f, 1, i - 1) \o parts[i]
               /\ SubSeq(f, 1, i - 1) \in Seq(T)
    <3> DEFINE m == i - 1
    <3>1. m \in 0..Len(f) /\ m < Len(f) /\ m + 1 = i
      BY <1>1
    <3> HIDE DEF m, n
    <3>2. /\ SubSeq(f, 1, m) \in Seq(T) /\ f[m + 1] \in T
          /\ SubSeq(f, 1, m + 1) = Append(SubSeq(f, 1, m), f[m + 1])
      BY <3>1, PrefixNext
    <3>3. SubSeq(f, 1, m) \o <<f[m + 1]>> = Append(SubSeq(f, 1, m), f[m + 1])
      BY <3>2, AppendIsConcat
    <3>4. parts[i] = <<f[i]>>
      BY <1>1 DEF n
    <3>5. m = i - 1
      BY DEF m
    <3> QED
      BY <3>1, <3>2, <3>3, <3>4, <3>5
  <2>2. g[1] = parts[1]
    <3>1. SubSeq(f, 1, 1) = SubSeq(f, 1, 0) \o parts[1]
      BY <1>1, <1>3, <2>1
    <3>2. SubSeq(f, 1, 0) = <<>>
      BY WholeSeq
    <3>3. <<>> \o <<f[1]>> = <<f[1]>>
      OBVIOUS
    <3>4. parts[1] = <<f[1]>> /\ g[1] = SubSeq(f, 1, 1)
      BY <1>1, <1>3
    <3> QED
      BY <3>1, <3>2, <3>3, <3>4
  <2>3. ASSUME NEW i \in 2..n PROVE g[i] = g[i - 1] \o parts[i]
    <3>1. i \in 1..n /\ i - 1 \in 1..n
      BY <1>1
    <3>2. g[i] = SubSeq(f, 1, i) /\ g[i - 1] = SubSeq(f, 1, i - 1)
      BY <3>1
    <3>3. SubSeq(f, 1, i) = SubSeq(f, 1, i - 1) \o parts[i]
      BY <3>1, <2>1
    <3> QED
      BY <3>2, <3>3
  <2>4. g[n] = f
    BY <1>1, <1>3, WholeSeq
  <2> HIDE DEF g
  <2>5. Flattens(g, parts)
    BY <1>1, <1>3, <2>2, <2>3 DEF Flattens
  <2> QED
    BY <1>1, <2>4, <2>5, FlatExists
<1> QED
  BY <1>2, <1>3

(* Of parts that are all empty nothing is made. *)
LEMMA FlatNone ==
  ASSUME NEW n \in Nat, NEW parts, parts = [i \in 1..n |-> <<>>]
  PROVE  FlattenSeq(parts) = <<>>
<1> DEFINE g == [i \in 1..n |-> <<>>]
<1>1. CASE n = 0
  <2>1. parts = <<>>
    BY <1>1
  <2> QED
    BY <2>1, FlatEmpty
<1>2. CASE n # 0
  <2> DEFINE none == <<>>
  <2>1. none \o none = none
    OBVIOUS
  <2>2. Len(parts) = n
    OBVIOUS
  <2> HIDE DEF none
  <2>3. parts = [i \in 1..n |-> none] /\ g = [i \in 1..n |-> none]
    BY DEF none
  <2>4. g[1] = parts[1] /\ g[n] = none
    BY <1>2, <2>3
  <2>5. ASSUME NEW i \in 2..n PROVE g[i] = g[i - 1] \o parts[i]
    <3>1. i \in 1..n /\ i - 1 \in 1..n
      OBVIOUS
    <3> HIDE DEF g
    <3>2. g[i] = none /\ g[i - 1] = none /\ parts[i] = none
      BY <2>3, <3>1
    <3> QED
      BY <2>1, <3>2
  <2> HIDE DEF g
  <2>6. Flattens(g, parts)
    BY <1>2, <2>2, <2>4, <2>5 DEF Flattens
  <2>7. FlattenSeq(parts) = none
    BY <1>2, <2>2, <2>4, <2>6, FlatExists
  <2> QED
    BY <2>7 DEF none
<1> QED
  BY <1>1, <1>2

(* A sequence is what comes up to one of its places and what comes after it ... *)
LEMMA CutAt ==
  ASSUME NEW T, NEW s \in Seq(T), NEW i \in 0..Len(s)
  PROVE  /\ SubSeq(s, 1, i) \in Seq(T) /\ SubSeq(s, i + 1, Len(s)) \in Seq(T)
         /\ Len(SubSeq(s, 1, i)) = i /\ Len(SubSeq(s, i + 1, Len(s))) = Len(s) - i
         /\ s = SubSeq(s, 1, i) \o SubSeq(s, i + 1, Len(s))
<1> DEFINE a == SubSeq(s, 1, i)
           b == SubSeq(s, i + 1, Len(s))
<1>1. Len(s) \in Nat /\ i \in Nat /\ i <= Len(s) /\ \A j \in 1..Len(s) : s[j] \in T
  OBVIOUS
<1>2. /\ a = [j \in 1..i |-> s[j]]
      /\ b = [j \in 1..Len(s) - i |-> s[i + j]]
  <2>1. a = [j \in 1..(i - 1 + 1) |-> s[1 + j - 1]]
    BY <1>1
  <2>2. b = [j \in 1..(Len(s) - (i + 1) + 1) |-> s[(i + 1) + j - 1]]
    BY <1>1
  <2>3. /\ i - 1 + 1 = i /\ \A j \in 1..i : 1 + j - 1 = j
        /\ Len(s) - (i + 1) + 1 = Len(s) - i
        /\ \A j \in 1..Len(s) - i : (i + 1) + j - 1 = i + j
    BY <1>1
  <2> HIDE DEF a, b
  <2> QED
    BY <2>1, <2>2, <2>3
<1> HIDE DEF a, b
<1>3. a \in [1..i -> T] /\ b \in [1..Len(s) - i -> T]
  BY <1>1, <1>2
<1>4. a \in Seq(T) /\ Len(a) = i /\ b \in Seq(T) /\ Len(b) = Len(s) - i
  <2>1. Len(s) - i \in Nat
    BY <1>1
  <2> QED
    BY <1>1, <1>3, <2>1, RowIsSeq
<1>5. /\ Len(s) = Len(a) + Len(b)
      /\ \A j \in 1..Len(a) : s[j] = a[j]
      /\ \A j \in 1..Len(b) : s[Len(a) + j] = b[j]
  BY <1>1, <1>2, <1>4
<1>6. s = a \o b
  BY <1>4, <1>5, ConcatElements
<1> QED
  BY <1>4, <1>6 DEF a, b

(* ... and what begins at a place is its item and what comes after it. *)
LEMMA CutFront ==
  ASSUME NEW T, NEW s \in Seq(T), NEW i \in 1..Len(s)
  PROVE  /\ s[i] \in T /\ SubSeq(s, i + 1, Len(s)) \in Seq(T)
         /\ SubSeq(s, i, Len(s)) = <<s[i]>> \o SubSeq(s, i + 1, Len(s))
<1> DEFINE a == SubSeq(s, i, Len(s))
           b == SubSeq(s, i + 1, Len(s))
           one == <<s[i]>>
<1>1. Len(s) \in Nat /\ i \in Nat /\ i - 1 \in 0..Len(s) /\ i \in 0..Len(s) /\ (i - 1) + 1 = i /\ s[i] \in T
  OBVIOUS
<1>2. a \in Seq(T) /\ Len(a) = Len(s) - (i - 1) /\ b \in Seq(T) /\ Len(b) = Len(s) - i
  <2>1. SubSeq(s, (i - 1) + 1, Len(s)) \in Seq(T) /\ Len(SubSeq(s, (i - 1) + 1, Len(s))) = Len(s) - (i - 1)
    BY <1>1, CutAt
  <2> QED
    BY <1>1, <2>1, CutAt
<1>3. /\ \A j \in 1..Len(s) - (i - 1) : a[j] = s[i + j - 1]
      /\ \A j \in 1..Len(s) - i : b[j] = s[i + j]
  <2>1. ASSUME NEW m \in 1..Len(s) + 1, NEW j \in 1..Len(s) - m + 1
        PROVE  SubSeq(s, m, Len(s))[j] = s[m + j - 1]
    BY <1>1
  <2>2. \A j \in 1..Len(s) - (i - 1) : a[j] = s[i + j - 1]
    BY <1>1, <2>1
  <2>3. ASSUME NEW j \in 1..Len(s) - i PROVE b[j] = s[i + j]
    <3>1. i + 1 \in 1..Len(s) + 1 /\ j \in 1..Len(s) - (i + 1) + 1 /\ (i + 1) + j - 1 = i + j
      BY <1>1
    <3> QED
      BY <2>1, <3>1
  <2> QED
    BY <2>2, <2>3
<1>4. one \in Seq(T) /\ Len(one) = 1 /\ one[1] = s[i]
  BY <1>1
<1> HIDE DEF a, b, one
<1>5. /\ Len(a) = Len(one) + Len(b)
      /\ \A j \in 1..Len(one) : a[j] = one[j]
      /\ \A j \in 1..Len(b) : a[Len(one) + j] = b[j]
  <2>1. Len(a) = 1 + Len(b) /\ 1 \in 1..Len(s) - (i - 1) /\ i + 1 - 1 = i
    BY <1>1, <1>2
  <2>2. a[1] = s[i]
    BY <1>3, <2>1
  <2>3. ASSUME NEW j \in 1..Len(b) PROVE a[1 + j] = b[j]
    <3>1. j \in 1..Len(s) - i /\ 1 + j \in 1..Len(s) - (i - 1) /\ i + (1 + j) - 1 = i + j
      BY <1>1, <1>2
    <3> QED
      BY <1>3, <3>1
  <2> QED
    BY <1>4, <2>1, <2>2, <2>3
<1>6. a = one \o b
  BY <1>2, <1>4, <1>5, ConcatElements
<1> QED
  BY <1>1, <1>2, <1>6 DEF a, b, one

(* Lengths are taken item by item, so of two lists put together too. *)
LEMMA LensConcat ==
  ASSUME NEW a \in Seq(DiffRange), NEW b \in Seq(DiffRange)
  PROVE  /\ OldLens(a \o b) = OldLens(a) \o OldLens(b)
         /\ NewLens(a \o b) = NewLens(a) \o NewLens(b)
         /\ EditLens(a \o b) = EditLens(a) \o EditLens(b)
<1>1. /\ a \o b \in Seq(DiffRange) /\ Len(a \o b) = Len(a) + Len(b)
      /\ Len(a) \in Nat /\ Len(b) \in Nat
      /\ DOMAIN a = 1..Len(a) /\ DOMAIN b = 1..Len(b) /\ DOMAIN (a \o b) = 1..Len(a) + Len(b)
      /\ \A i \in 1..Len(a) : (a \o b)[i] = a[i]
      /\ \A i \in 1..Len(b) : (a \o b)[Len(a) + i] = b[i]
  OBVIOUS
<1>2. OldLens(a \o b) = OldLens(a) \o OldLens(b)
  <2> DEFINE s == OldLens(a)
             t == OldLens(b)
             r == OldLens(a \o b)
  <2>1. /\ r \in Seq(Nat) /\ s \in Seq(Nat) /\ t \in Seq(Nat)
        /\ Len(r) = Len(a) + Len(b) /\ Len(s) = Len(a) /\ Len(t) = Len(b)
    BY <1>1, LensType
  <2>2. /\ \A i \in 1..Len(a) : r[i] = s[i]
        /\ \A i \in 1..Len(b) : r[Len(a) + i] = t[i]
    BY <1>1 DEF OldLens
  <2> HIDE DEF s, t, r
  <2>3. /\ Len(r) = Len(s) + Len(t)
        /\ \A i \in 1..Len(s) : r[i] = s[i]
        /\ \A i \in 1..Len(t) : r[Len(s) + i] = t[i]
    BY <2>1, <2>2
  <2>4. r = s \o t
    BY <2>1, <2>3, ConcatElements
  <2> QED
    BY <2>4 DEF s, t, r
<1>3. NewLens(a \o b) = NewLens(a) \o NewLens(b)
  <2> DEFINE s == NewLens(a)
             t == NewLens(b)
             r == NewLens(a \o b)
  <2>1. /\ r \in Seq(Nat) /\ s \in Seq(Nat) /\ t \in Seq(Nat)
        /\ Len(r) = Len(a) + Len(b) /\ Len(s) = Len(a) /\ Len(t) = Len(b)
    BY <1>1, LensType
  <2>2. /\ \A i \in 1..Len(a) : r[i] = s[i]
        /\ \A i \in 1..Len(b) : r[Len(a) + i] = t[i]
    BY <1>1 DEF NewLens
  <2> HIDE DEF s, t, r
  <2>3. /\ Len(r) = Len(s) + Len(t)
        /\ \A i \in 1..Len(s) : r[i] = s[i]
        /\ \A i \in 1..Len(t) : r[Len(s) + i] = t[i]
    BY <2>1, <2>2
  <2>4. r = s \o t
    BY <2>1, <2>3, ConcatElements
  <2> QED
    BY <2>4 DEF s, t, r
<1>4. EditLens(a \o b) = EditLens(a) \o EditLens(b)
  <2> DEFINE s == EditLens(a)
             t == EditLens(b)
             r == EditLens(a \o b)
  <2>1. /\ r \in Seq(Nat) /\ s \in Seq(Nat) /\ t \in Seq(Nat)
        /\ Len(r) = Len(a) + Len(b) /\ Len(s) = Len(a) /\ Len(t) = Len(b)
    BY <1>1, LensType
  <2>2. /\ \A i \in 1..Len(a) : r[i] = s[i]
        /\ \A i \in 1..Len(b) : r[Len(a) + i] = t[i]
    BY <1>1 DEF EditLens
  <2> HIDE DEF s, t, r
  <2>3. /\ Len(r) = Len(s) + Len(t)
        /\ \A i \in 1..Len(s) : r[i] = s[i]
        /\ \A i \in 1..Len(t) : r[Len(s) + i] = t[i]
    BY <2>1, <2>2
  <2>4. r = s \o t
    BY <2>1, <2>3, ConcatElements
  <2> QED
    BY <2>4 DEF s, t, r
<1> QED
  BY <1>2, <1>3, <1>4

(* Places in the two texts, and the cost, when a list is two in a row. *)
LEMMA UpToType ==
  ASSUME NEW ds \in Seq(DiffRange), NEW n \in 0..Len(ds)
  PROVE  /\ OldUpTo(ds, n) \in Nat /\ NewUpTo(ds, n) \in Nat /\ Cost(ds) \in Nat
         /\ OldUpTo(ds, n) <= OldUpTo(ds, Len(ds))
         /\ NewUpTo(ds, n) <= NewUpTo(ds, Len(ds))
         /\ OldUpTo(ds, 0) = 0 /\ NewUpTo(ds, 0) = 0
BY LensType, SumUpToType, SumUpToMonotonic, SumUpToRecurrence DEF OldUpTo, NewUpTo, Cost

(* Where one item more leads to in each text. *)
LEMMA UpToNext ==
  ASSUME NEW ds \in Seq(DiffRange), NEW n \in 1..Len(ds)
  PROVE  /\ OldUpTo(ds, n) = OldUpTo(ds, n - 1) + OldLen(ds[n])
         /\ NewUpTo(ds, n) = NewUpTo(ds, n - 1) + NewLen(ds[n])
BY SumUpToRecurrence DEF OldUpTo, NewUpTo, OldLens, NewLens

(* Where the items of two lists that are put together lead to. *)
LEMMA UpToConcat ==
  ASSUME NEW a \in Seq(DiffRange), NEW b \in Seq(DiffRange)
  PROVE  /\ \A n \in 0..Len(a) : /\ OldUpTo(a \o b, n) = OldUpTo(a, n)
                                 /\ NewUpTo(a \o b, n) = NewUpTo(a, n)
         /\ \A n \in 0..Len(b) :
              /\ OldUpTo(a \o b, Len(a) + n) = OldUpTo(a, Len(a)) + OldUpTo(b, n)
              /\ NewUpTo(a \o b, Len(a) + n) = NewUpTo(a, Len(a)) + NewUpTo(b, n)
         /\ Cost(a \o b) = Cost(a) + Cost(b)
<1>1. /\ Len(a) \in Nat /\ Len(b) \in Nat /\ Len(a \o b) = Len(a) + Len(b)
      /\ Len(b) \in 0..Len(b)
  OBVIOUS
<1>2. /\ \A n \in 0..Len(a) : SumUpTo(OldLens(a \o b), n) = SumUpTo(OldLens(a), n)
      /\ \A n \in 0..Len(b) : SumUpTo(OldLens(a \o b), Len(a) + n)
                               = SumUpTo(OldLens(a), Len(a)) + SumUpTo(OldLens(b), n)
  <2> DEFINE s == OldLens(a)
             t == OldLens(b)
  <2>1. s \in Seq(Nat) /\ Len(s) = Len(a) /\ t \in Seq(Nat) /\ Len(t) = Len(b)
    BY LensType
  <2>2. OldLens(a \o b) = s \o t
    BY LensConcat
  <2> HIDE DEF s, t
  <2>3. /\ \A n \in 0..Len(s) : SumUpTo(s \o t, n) = SumUpTo(s, n)
        /\ \A n \in 0..Len(t) : SumUpTo(s \o t, Len(s) + n) = SumUpTo(s, Len(s)) + SumUpTo(t, n)
    BY <2>1, SumUpToConcat
  <2>4. /\ \A n \in 0..Len(a) : SumUpTo(s \o t, n) = SumUpTo(s, n)
        /\ \A n \in 0..Len(b) : SumUpTo(s \o t, Len(a) + n) = SumUpTo(s, Len(a)) + SumUpTo(t, n)
    BY <2>1, <2>3
  <2> QED
    BY <2>2, <2>4 DEF s, t
<1>3. /\ \A n \in 0..Len(a) : SumUpTo(NewLens(a \o b), n) = SumUpTo(NewLens(a), n)
      /\ \A n \in 0..Len(b) : SumUpTo(NewLens(a \o b), Len(a) + n)
                               = SumUpTo(NewLens(a), Len(a)) + SumUpTo(NewLens(b), n)
  <2> DEFINE s == NewLens(a)
             t == NewLens(b)
  <2>1. s \in Seq(Nat) /\ Len(s) = Len(a) /\ t \in Seq(Nat) /\ Len(t) = Len(b)
    BY LensType
  <2>2. NewLens(a \o b) = s \o t
    BY LensConcat
  <2> HIDE DEF s, t
  <2>3. /\ \A n \in 0..Len(s) : SumUpTo(s \o t, n) = SumUpTo(s, n)
        /\ \A n \in 0..Len(t) : SumUpTo(s \o t, Len(s) + n) = SumUpTo(s, Len(s)) + SumUpTo(t, n)
    BY <2>1, SumUpToConcat
  <2>4. /\ \A n \in 0..Len(a) : SumUpTo(s \o t, n) = SumUpTo(s, n)
        /\ \A n \in 0..Len(b) : SumUpTo(s \o t, Len(a) + n) = SumUpTo(s, Len(a)) + SumUpTo(t, n)
    BY <2>1, <2>3
  <2> QED
    BY <2>2, <2>4 DEF s, t
<1>4. /\ \A n \in 0..Len(a) : SumUpTo(EditLens(a \o b), n) = SumUpTo(EditLens(a), n)
      /\ \A n \in 0..Len(b) : SumUpTo(EditLens(a \o b), Len(a) + n)
                               = SumUpTo(EditLens(a), Len(a)) + SumUpTo(EditLens(b), n)
  <2> DEFINE s == EditLens(a)
             t == EditLens(b)
  <2>1. s \in Seq(Nat) /\ Len(s) = Len(a) /\ t \in Seq(Nat) /\ Len(t) = Len(b)
    BY LensType
  <2>2. EditLens(a \o b) = s \o t
    BY LensConcat
  <2> HIDE DEF s, t
  <2>3. /\ \A n \in 0..Len(s) : SumUpTo(s \o t, n) = SumUpTo(s, n)
        /\ \A n \in 0..Len(t) : SumUpTo(s \o t, Len(s) + n) = SumUpTo(s, Len(s)) + SumUpTo(t, n)
    BY <2>1, SumUpToConcat
  <2>4. /\ \A n \in 0..Len(a) : SumUpTo(s \o t, n) = SumUpTo(s, n)
        /\ \A n \in 0..Len(b) : SumUpTo(s \o t, Len(a) + n) = SumUpTo(s, Len(a)) + SumUpTo(t, n)
    BY <2>1, <2>3
  <2> QED
    BY <2>2, <2>4 DEF s, t
<1> QED
  BY <1>1, <1>2, <1>3, <1>4 DEF OldUpTo, NewUpTo, Cost

-----------------------------------------------------------------------------

(***************************************************************************)
(* The items lead from the places x and y of the two texts to u and v,     *)
(* each beginning where the one before it ends.                            *)
(***************************************************************************)
Path(ds, x, y, u, v) ==
  /\ \A i \in DOMAIN ds :
       /\ InOld(ds[i]) => ds[i].old.offset = x + OldUpTo(ds, i - 1)
       /\ InNew(ds[i]) => ds[i].new.offset = y + NewUpTo(ds, i - 1)
  /\ u = x + OldUpTo(ds, Len(ds)) /\ v = y + NewUpTo(ds, Len(ds))

(* No items lead nowhere. *)
LEMMA PathEmpty ==
  ASSUME NEW x \in Nat, NEW y \in Nat, NEW u, NEW v
  PROVE  Path(<<>>, x, y, u, v) <=> u = x /\ v = y
<1>1. OldUpTo(<<>>, 0) = 0 /\ NewUpTo(<<>>, 0) = 0
  BY SumUpToRecurrence DEF OldUpTo, NewUpTo
<1> QED
  BY <1>1 DEF Path

(* One item leads from where it begins to where it ends. *)
LEMMA PathSingle ==
  ASSUME NEW diff \in DiffRange, NEW x \in Nat, NEW y \in Nat, NEW u, NEW v
  PROVE  Path(<<diff>>, x, y, u, v)
           <=> /\ InOld(diff) => diff.old.offset = x
               /\ InNew(diff) => diff.new.offset = y
               /\ u = x + OldLen(diff) /\ v = y + NewLen(diff)
<1> DEFINE ds == <<diff>>
<1>1. ds \in Seq(DiffRange) /\ Len(ds) = 1 /\ ds[1] = diff /\ DOMAIN ds = {1} /\ 1 - 1 = 0
  OBVIOUS
<1> HIDE DEF ds
<1>2. OldUpTo(ds, 0) = 0 /\ NewUpTo(ds, 0) = 0
  BY SumUpToRecurrence DEF OldUpTo, NewUpTo
<1>3. /\ OldUpTo(ds, 1) = OldUpTo(ds, 1 - 1) + OldLen(ds[1])
      /\ NewUpTo(ds, 1) = NewUpTo(ds, 1 - 1) + NewLen(ds[1])
  <2>1. 1 \in 1..Len(ds)
    BY <1>1
  <2> QED
    BY <1>1, <2>1, UpToNext
<1>4. OldLen(diff) \in Nat /\ NewLen(diff) \in Nat
  BY DEF DiffRange, Ranges, OldLen, NewLen
<1>5. OldUpTo(ds, 1) = OldLen(diff) /\ NewUpTo(ds, 1) = NewLen(diff)
  BY <1>1, <1>2, <1>3, <1>4
<1>6. Path(ds, x, y, u, v)
        <=> /\ InOld(diff) => diff.old.offset = x
            /\ InNew(diff) => diff.new.offset = y
            /\ u = x + OldLen(diff) /\ v = y + NewLen(diff)
  BY <1>1, <1>2, <1>5 DEF Path
<1> QED
  BY <1>6 DEF ds

(* Two lists in a row lead through one place between them. *)
LEMMA PathConcat ==
  ASSUME NEW a \in Seq(DiffRange), NEW b \in Seq(DiffRange),
         NEW x \in Nat, NEW y \in Nat, NEW u, NEW v
  PROVE  Path(a \o b, x, y, u, v)
           <=> \E s, t \in Nat : Path(a, x, y, s, t) /\ Path(b, s, t, u, v)
<1> DEFINE s == x + OldUpTo(a, Len(a))
           t == y + NewUpTo(a, Len(a))
<1>1. /\ Len(a) \in Nat /\ Len(b) \in Nat /\ Len(a \o b) = Len(a) + Len(b)
      /\ DOMAIN a = 1..Len(a) /\ DOMAIN b = 1..Len(b) /\ DOMAIN (a \o b) = 1..Len(a) + Len(b)
      /\ \A i \in 1..Len(a) : (a \o b)[i] = a[i]
      /\ \A i \in 1..Len(b) : (a \o b)[Len(a) + i] = b[i]
  OBVIOUS
<1>2. s \in Nat /\ t \in Nat /\ OldUpTo(a, Len(a)) \in Nat /\ NewUpTo(a, Len(a)) \in Nat
  BY <1>1, UpToType
<1>3. \A i \in 0..Len(b) : OldUpTo(b, i) \in Nat /\ NewUpTo(b, i) \in Nat
  BY UpToType
<1>4. \A i \in 0..Len(a) : OldUpTo(a \o b, i) = OldUpTo(a, i) /\ NewUpTo(a \o b, i) = NewUpTo(a, i)
  BY UpToConcat
<1>5. ASSUME NEW i \in 0..Len(b)
      PROVE  /\ x + OldUpTo(a \o b, Len(a) + i) = s + OldUpTo(b, i)
             /\ y + NewUpTo(a \o b, Len(a) + i) = t + NewUpTo(b, i)
  <2>1. /\ OldUpTo(a \o b, Len(a) + i) = OldUpTo(a, Len(a)) + OldUpTo(b, i)
        /\ NewUpTo(a \o b, Len(a) + i) = NewUpTo(a, Len(a)) + NewUpTo(b, i)
    BY UpToConcat
  <2> QED
    BY SMTT(60), <1>2, <1>3, <2>1
<1>6. Path(a, x, y, s, t) /\ Path(b, s, t, u, v) => Path(a \o b, x, y, u, v)
  <2> SUFFICES ASSUME Path(a, x, y, s, t), Path(b, s, t, u, v) PROVE Path(a \o b, x, y, u, v)
    OBVIOUS
  <2>1. ASSUME NEW i \in 1..Len(a) + Len(b)
        PROVE  /\ InOld((a \o b)[i]) => (a \o b)[i].old.offset = x + OldUpTo(a \o b, i - 1)
               /\ InNew((a \o b)[i]) => (a \o b)[i].new.offset = y + NewUpTo(a \o b, i - 1)
    <3>1. CASE i <= Len(a)
      <4>1. i \in 1..Len(a) /\ i - 1 \in 0..Len(a)
        BY <1>1, <3>1
      <4> QED
        BY <1>1, <1>4, <4>1 DEF Path
    <3>2. CASE i > Len(a)
      <4> DEFINE j == i - Len(a)
      <4>1. j \in 1..Len(b) /\ j - 1 \in 0..Len(b) /\ i = Len(a) + j /\ i - 1 = Len(a) + (j - 1)
        BY <1>1, <3>2
      <4>2. (a \o b)[i] = b[j]
        BY <1>1, <4>1
      <4> HIDE DEF j, s, t
      <4>3. /\ InOld(b[j]) => b[j].old.offset = s + OldUpTo(b, j - 1)
            /\ InNew(b[j]) => b[j].new.offset = t + NewUpTo(b, j - 1)
        BY <1>1, <4>1 DEF Path
      <4>4. /\ x + OldUpTo(a \o b, i - 1) = s + OldUpTo(b, j - 1)
            /\ y + NewUpTo(a \o b, i - 1) = t + NewUpTo(b, j - 1)
        BY <1>5, <4>1
      <4> QED
        BY <4>2, <4>3, <4>4
    <3> QED
      BY <1>1, <3>1, <3>2
  <2>2. u = x + OldUpTo(a \o b, Len(a \o b)) /\ v = y + NewUpTo(a \o b, Len(a \o b))
    <3> HIDE DEF s, t
    <3> QED
      BY <1>1, <1>5 DEF Path
  <2> QED
    BY <1>1, <2>1, <2>2 DEF Path
<1>7. Path(a \o b, x, y, u, v) => Path(a, x, y, s, t) /\ Path(b, s, t, u, v)
  <2> SUFFICES ASSUME Path(a \o b, x, y, u, v) PROVE Path(a, x, y, s, t) /\ Path(b, s, t, u, v)
    OBVIOUS
  <2>1. Path(a, x, y, s, t)
    <3>1. ASSUME NEW i \in 1..Len(a)
          PROVE  /\ InOld(a[i]) => a[i].old.offset = x + OldUpTo(a, i - 1)
                 /\ InNew(a[i]) => a[i].new.offset = y + NewUpTo(a, i - 1)
      <4>1. i \in DOMAIN (a \o b) /\ i - 1 \in 0..Len(a) /\ (a \o b)[i] = a[i]
        BY <1>1
      <4> QED
        BY <1>4, <4>1 DEF Path
    <3> QED
      BY <1>1, <3>1 DEF Path
  <2>2. Path(b, s, t, u, v)
    <3>1. ASSUME NEW i \in 1..Len(b)
          PROVE  /\ InOld(b[i]) => b[i].old.offset = s + OldUpTo(b, i - 1)
                 /\ InNew(b[i]) => b[i].new.offset = t + NewUpTo(b, i - 1)
      <4>1. /\ Len(a) + i \in DOMAIN (a \o b) /\ (a \o b)[Len(a) + i] = b[i]
            /\ i - 1 \in 0..Len(b) /\ (Len(a) + i) - 1 = Len(a) + (i - 1)
        BY <1>1
      <4> HIDE DEF s, t
      <4> QED
        BY ZenonT(60), <1>5, <4>1 DEF Path
    <3>2. u = s + OldUpTo(b, Len(b)) /\ v = t + NewUpTo(b, Len(b))
      <4> HIDE DEF s, t
      <4> QED
        BY <1>1, <1>5 DEF Path
    <3> QED
      BY <1>1, <3>1, <3>2 DEF Path
  <2> QED
    BY <2>1, <2>2
<1>8. ASSUME NEW s2 \in Nat, NEW t2 \in Nat, Path(a, x, y, s2, t2) PROVE s2 = s /\ t2 = t
  BY <1>8 DEF Path
<1> HIDE DEF s, t
<1> QED
  BY <1>2, <1>6, <1>7, <1>8

(* Where an item has to begin: a Delete in the old text only, an Insert in *)
(* the new one only.                                                       *)
Begins(diff, x, y) ==
  /\ InOld(diff) => diff.old.offset = x
  /\ InNew(diff) => diff.new.offset = y

(* An item and a list after it. *)
LEMMA PathCons ==
  ASSUME NEW diff \in DiffRange, NEW ds \in Seq(DiffRange),
         NEW x \in Nat, NEW y \in Nat, NEW u, NEW v
  PROVE  /\ x + OldLen(diff) \in Nat /\ y + NewLen(diff) \in Nat
         /\ Path(<<diff>> \o ds, x, y, u, v)
              <=> Begins(diff, x, y) /\ Path(ds, x + OldLen(diff), y + NewLen(diff), u, v)
<1>1. x + OldLen(diff) \in Nat /\ y + NewLen(diff) \in Nat
  BY DEF DiffRange, Ranges, OldLen, NewLen
<1>2. <<diff>> \in Seq(DiffRange)
  OBVIOUS
<1>3. Path(<<diff>> \o ds, x, y, u, v)
        <=> \E s, t \in Nat : Path(<<diff>>, x, y, s, t) /\ Path(ds, s, t, u, v)
  BY <1>2, PathConcat
<1>4. ASSUME NEW s \in Nat, NEW t \in Nat
      PROVE  Path(<<diff>>, x, y, s, t)
               <=> Begins(diff, x, y) /\ s = x + OldLen(diff) /\ t = y + NewLen(diff)
  BY PathSingle DEF Begins
<1> QED
  BY <1>1, <1>3, <1>4

(* Part of a list is replaced by another way between the same places. *)
LEMMA PathReplace ==
  ASSUME NEW a \in Seq(DiffRange), NEW b \in Seq(DiffRange),
         NEW m \in Seq(DiffRange), NEW w \in Seq(DiffRange),
         \A x, y, s, t \in Nat : Path(m, x, y, s, t) => Path(w, x, y, s, t),
         NEW u, NEW v, Path(a \o m \o b, 0, 0, u, v)
  PROVE  Path(a \o w \o b, 0, 0, u, v)
<1>1. a \o m \in Seq(DiffRange) /\ a \o w \in Seq(DiffRange) /\ 0 \in Nat
  OBVIOUS
<1>2. PICK s, t \in Nat : Path(a \o m, 0, 0, s, t) /\ Path(b, s, t, u, v)
  <2>1. Path((a \o m) \o b, 0, 0, u, v)
    OBVIOUS
  <2> QED
    BY <1>1, <2>1, PathConcat
<1>3. PICK x, y \in Nat : Path(a, 0, 0, x, y) /\ Path(m, x, y, s, t)
  BY <1>1, <1>2, PathConcat
<1>4. Path(a \o w, 0, 0, s, t)
  <2>1. Path(w, x, y, s, t)
    BY <1>3
  <2> QED
    BY <1>1, <1>3, <2>1, PathConcat
<1> QED
  BY <1>1, <1>2, <1>4, PathConcat

(* The same for what it costs. *)
LEMMA CostReplace ==
  ASSUME NEW a \in Seq(DiffRange), NEW b \in Seq(DiffRange),
         NEW m \in Seq(DiffRange), NEW w \in Seq(DiffRange), Cost(m) = Cost(w)
  PROVE  Cost(a \o m \o b) = Cost(a \o w \o b)
<1>1. a \o m \in Seq(DiffRange) /\ a \o w \in Seq(DiffRange)
  OBVIOUS
<1>2. Cost(a \o m) = Cost(a) + Cost(m) /\ Cost(a \o w) = Cost(a) + Cost(w)
  BY UpToConcat
<1>3. /\ Cost((a \o m) \o b) = Cost(a \o m) + Cost(b)
      /\ Cost((a \o w) \o b) = Cost(a \o w) + Cost(b)
  BY <1>1, UpToConcat
<1> QED
  BY <1>2, <1>3

(* What a list of one item costs, and what one more item adds. *)
LEMMA CostCons ==
  ASSUME NEW diff \in DiffRange, NEW ds \in Seq(DiffRange)
  PROVE  /\ Cost(<<>>) = 0 /\ Cost(<<diff>>) = EditLen(diff)
         /\ Cost(<<diff>> \o ds) = EditLen(diff) + Cost(ds)
         /\ EditLen(diff) \in Nat /\ Cost(ds) \in Nat
<1> DEFINE one == <<diff>>
<1>1. one \in Seq(DiffRange) /\ Len(one) = 1 /\ one[1] = diff /\ DOMAIN one = {1}
  OBVIOUS
<1>2. EditLen(diff) \in Nat
  BY DEF EditLen, LenOf, Inner, DiffRange, Ranges
<1> HIDE DEF one
<1>3. Cost(<<>>) = 0
  BY SumUpToRecurrence DEF Cost
<1>4. Cost(one) = EditLen(diff)
  <2>1. EditLens(one)[1] = EditLen(diff)
    BY <1>1 DEF EditLens
  <2>2. SumUpTo(EditLens(one), 1) = SumUpTo(EditLens(one), 0) + EditLens(one)[1]
    <3>1. 1 \in Nat \ {0} /\ 1 - 1 = 0
      OBVIOUS
    <3> QED
      BY <3>1, SumUpToRecurrence
  <2> QED
    BY <1>1, <1>2, <2>1, <2>2, SumUpToRecurrence DEF Cost
<1>5. Cost(one \o ds) = Cost(one) + Cost(ds)
  BY <1>1, UpToConcat
<1>6. Cost(ds) \in Nat
  <2>1. 0 \in 0..Len(ds)
    OBVIOUS
  <2> QED
    BY <2>1, UpToType
<1> QED
  BY <1>2, <1>3, <1>4, <1>5, <1>6 DEF one

-----------------------------------------------------------------------------

(***************************************************************************)
(* A list of items describes two texts exactly if it leads from their      *)
(* beginnings to their ends.                                               *)
(***************************************************************************)
LEMMA PathCovers ==
  ASSUME NEW ds \in Seq(DiffRange), NEW s, NEW t
  PROVE  Contiguous(ds, s, t) /\ Covers(ds, s, t) <=> Path(ds, 0, 0, Len(s), Len(t))
<1>1. ASSUME Path(ds, 0, 0, Len(s), Len(t)) PROVE Contiguous(ds, s, t) /\ Covers(ds, s, t)
  <2>1. /\ Len(ds) \in 0..Len(ds) /\ DOMAIN ds = 1..Len(ds)
        /\ \A i \in 0..Len(ds) : OldUpTo(ds, i) \in Nat /\ NewUpTo(ds, i) \in Nat
        /\ \A i \in 0..Len(ds) : /\ OldUpTo(ds, i) <= OldUpTo(ds, Len(ds))
                                 /\ NewUpTo(ds, i) <= NewUpTo(ds, Len(ds))
    BY UpToType
  <2>2. Len(s) = OldUpTo(ds, Len(ds)) /\ Len(t) = NewUpTo(ds, Len(ds))
    BY <1>1, <2>1 DEF Path
  <2>3. ASSUME NEW i \in DOMAIN ds
        PROVE  /\ InOld(ds[i]) => /\ ds[i].old.offset = OldUpTo(ds, i - 1)
                                  /\ RangeEnd(ds[i].old) <= Len(s)
               /\ InNew(ds[i]) => /\ ds[i].new.offset = NewUpTo(ds, i - 1)
                                  /\ RangeEnd(ds[i].new) <= Len(t)
    <3>1. i \in 1..Len(ds) /\ i \in 0..Len(ds) /\ i - 1 \in 0..Len(ds)
      BY <2>1
    <3>2. /\ OldUpTo(ds, i) = OldUpTo(ds, i - 1) + OldLen(ds[i])
          /\ NewUpTo(ds, i) = NewUpTo(ds, i - 1) + NewLen(ds[i])
      BY <3>1, UpToNext
    <3>3. /\ InOld(ds[i]) => ds[i].old.offset = OldUpTo(ds, i - 1)
          /\ InNew(ds[i]) => ds[i].new.offset = NewUpTo(ds, i - 1)
      BY <1>1, <2>1, <3>1 DEF Path
    <3> QED
      BY <2>1, <2>2, <3>1, <3>2, <3>3 DEF RangeEnd, OldLen, NewLen
  <2> QED
    BY <2>2, <2>3 DEF Contiguous, Covers
<1>2. ASSUME Contiguous(ds, s, t), Covers(ds, s, t) PROVE Path(ds, 0, 0, Len(s), Len(t))
  <2>1. /\ \A i \in DOMAIN ds : i - 1 \in 0..Len(ds)
        /\ Len(ds) \in 0..Len(ds)
        /\ \A i \in 0..Len(ds) : 0 + OldUpTo(ds, i) = OldUpTo(ds, i) /\ 0 + NewUpTo(ds, i) = NewUpTo(ds, i)
    BY UpToType
  <2> QED
    BY <1>2, <2>1 DEF Contiguous, Covers, Path
<1> QED
  BY <1>1, <1>2

(***************************************************************************)
(* The items that say nothing false of the texts s and t: what an Equal    *)
(* equates is as long on both sides and the same element by element.       *)
(***************************************************************************)
Matching(s, t) ==
  {diff \in DiffRange :
     ~IsEdit(diff) => /\ diff.old.len = diff.new.len
                      /\ \A i \in 1..diff.old.len :
                           s[diff.old.offset + i] = t[diff.new.offset + i]}

(* The elements of a slice. *)
LEMMA SliceElements ==
  ASSUME NEW text, NEW r \in Ranges
  PROVE  AsSlice(text, r) = [j \in 1..r.len |-> text[r.offset + j]]
<1> DEFINE x == r.offset
           l == r.len
<1>1. x \in Nat /\ l \in Nat
  BY DEF Ranges
<1> HIDE DEF x, l
<1>2. SubSeq(text, x + 1, x + l) = [j \in 1..((x + l) - (x + 1) + 1) |-> text[(x + 1) + j - 1]]
  BY <1>1
<1>3. (x + l) - (x + 1) + 1 = l /\ \A j \in 1..l : (x + 1) + j - 1 = x + j
  BY <1>1
<1>4. SubSeq(text, x + 1, x + l) = [j \in 1..l |-> text[x + j]]
  BY <1>2, <1>3
<1> QED
  BY <1>4 DEF AsSlice, RangeEnd, x, l

(* Matching items equate equal text. *)
LEMMA MatchingEquates ==
  ASSUME NEW s, NEW t, NEW ds \in Seq(Matching(s, t))
  PROVE  EquatesEqual(ds, s, t)
<1> SUFFICES ASSUME NEW i \in DOMAIN ds, ~IsEdit(ds[i])
             PROVE  AsSlice(s, ds[i].old) = AsSlice(t, ds[i].new)
  BY DEF EquatesEqual
<1>1. ds[i] \in Matching(s, t)
  OBVIOUS
<1> DEFINE o == ds[i].old
           n == ds[i].new
<1>2. /\ o \in Ranges /\ n \in Ranges /\ n.len = o.len
      /\ \A j \in 1..o.len : s[o.offset + j] = t[n.offset + j]
  BY <1>1 DEF Matching, DiffRange, Ranges
<1> HIDE DEF o, n
<1>3. AsSlice(s, o) = [j \in 1..o.len |-> s[o.offset + j]]
  BY <1>2, SliceElements
<1>4. AsSlice(t, n) = [j \in 1..o.len |-> t[n.offset + j]]
  BY <1>2, SliceElements
<1>5. AsSlice(s, o) = AsSlice(t, n)
  BY <1>2, <1>3, <1>4
<1> QED
  BY <1>5 DEF o, n

(* Conversely, items that equate equal text match. *)
LEMMA EquatesMatching ==
  ASSUME NEW s, NEW t, NEW ds \in Seq(DiffRange), EquatesEqual(ds, s, t)
  PROVE  ds \in Seq(Matching(s, t))
<1>1. ASSUME NEW i \in 1..Len(ds) PROVE ds[i] \in Matching(s, t)
  <2>1. ds[i] \in DiffRange /\ i \in DOMAIN ds
    OBVIOUS
  <2> DEFINE o == ds[i].old
             n == ds[i].new
  <2>2. o \in Ranges /\ n \in Ranges /\ o.len \in Nat /\ n.len \in Nat
    BY <2>1 DEF DiffRange, Ranges
  <2>3. ASSUME ~IsEdit(ds[i])
        PROVE  o.len = n.len /\ \A j \in 1..o.len : s[o.offset + j] = t[n.offset + j]
    <3>1. AsSlice(s, o) = AsSlice(t, n)
      BY <2>1, <2>3 DEF EquatesEqual
    <3> HIDE DEF o, n
    <3>2. [j \in 1..o.len |-> s[o.offset + j]] = [j \in 1..n.len |-> t[n.offset + j]]
      BY <2>2, <3>1, SliceElements
    <3>3. 1..o.len = 1..n.len
      BY <3>2
    <3>4. o.len = n.len
      BY <2>2, <3>3
    <3> QED
      BY <3>2, <3>4
  <2> QED
    BY <2>1, <2>3 DEF Matching
<1>2. Len(ds) \in Nat /\ ds = [i \in 1..Len(ds) |-> ds[i]]
  OBVIOUS
<1>3. ds \in [1..Len(ds) -> Matching(s, t)]
  BY <1>1, <1>2
<1> QED
  BY <1>2, <1>3, RowIsSeq

-----------------------------------------------------------------------------
(* The edit distance *)

(***************************************************************************)
(* The edit distance, without its recurrence: the elements x + 1 .. u of a *)
(* become the elements y + 1 .. v of b at a cost of at most c, because m   *)
(* pairs of equal elements, p[i] with q[i], can be kept in their order.    *)
(***************************************************************************)
Ascends(p, m) == \A i, j \in 1..m : i < j => p[i] < p[j]

Pairs(a, b, x, y, u, v, m, p, q) ==
  /\ p \in [1..m -> (x + 1)..u] /\ q \in [1..m -> (y + 1)..v]
  /\ Ascends(p, m) /\ Ascends(q, m)
  /\ \A i \in 1..m : a[p[i]] = b[q[i]]

Within(a, b, x, y, u, v, c) ==
  \E m \in Nat : /\ \E p, q : Pairs(a, b, x, y, u, v, m, p, q)
                 /\ (u - x) + (v - y) - 2 * m <= c

(* No more pairs fit than there are elements. *)
LEMMA AscendsBound ==
  ASSUME NEW m \in Nat, NEW x \in Nat, NEW u \in Nat, x <= u,
         NEW p \in [1..m -> (x + 1)..u], Ascends(p, m)
  PROVE  m <= u - x
<1> DEFINE S == {n \in Nat : n + 1 <= m => p[n + 1] >= x + n + 1}
<1>1. 0 \in S
  <2>1. 1 <= m => p[1] \in (x + 1)..u
    OBVIOUS
  <2>2. 0 + 1 <= m => p[0 + 1] >= x + 0 + 1
    BY <2>1
  <2> QED
    BY <2>2
<1>2. ASSUME NEW n \in Nat, n \in S PROVE n + 1 \in S
  <2> SUFFICES ASSUME (n + 1) + 1 <= m PROVE p[(n + 1) + 1] >= x + (n + 1) + 1
    OBVIOUS
  <2>0. (n + 1) + 1 = n + 2
    OBVIOUS
  <2>1. p[n + 1] >= x + n + 1 /\ p[n + 1] < p[n + 2] /\ p[n + 1] \in Int /\ p[n + 2] \in Int
    BY <1>2 DEF Ascends
  <2>2. p[n + 2] >= x + n + 2
    BY <2>1
  <2> QED
    BY <2>0, <2>2
<1>3. Nat \subseteq S
  <2> HIDE DEF S
  <2> QED
    BY <1>1, <1>2, NatSetInduction
<1>4. CASE m = 0
  BY <1>4
<1>5. CASE m # 0
  <2>1. m - 1 \in S
    BY <1>3, <1>5
  <2>2. p[m] >= x + m /\ p[m] <= u /\ p[m] \in Int
    BY <1>5, <2>1
  <2> QED
    BY <2>2
<1> QED
  BY <1>4, <1>5

(* The cost is at least the difference of the lengths. *)
LEMMA WithinBound ==
  ASSUME NEW a, NEW b, NEW x \in Nat, NEW y \in Nat, NEW u \in Nat, NEW v \in Nat,
         x <= u, y <= v, NEW c \in Int, Within(a, b, x, y, u, v, c)
  PROVE  /\ (u - x) - (v - y) <= c /\ (v - y) - (u - x) <= c /\ 0 <= c
<1>1. PICK m \in Nat : /\ \E p, q : Pairs(a, b, x, y, u, v, m, p, q)
                       /\ (u - x) + (v - y) - 2 * m <= c
  BY DEF Within
<1>2. PICK p, q : Pairs(a, b, x, y, u, v, m, p, q)
  BY <1>1
<1>3. m <= u - x
  BY <1>2, AscendsBound DEF Pairs
<1>4. m <= v - y
  BY <1>2, AscendsBound DEF Pairs
<1> QED
  BY <1>1, <1>3, <1>4

(* No elements cost nothing; to keep none costs them all. *)
LEMMA WithinNone ==
  ASSUME NEW a, NEW b, NEW x \in Nat, NEW y \in Nat, NEW u \in Nat, NEW v \in Nat,
         x <= u, y <= v, NEW c \in Int, (u - x) + (v - y) <= c
  PROVE  Within(a, b, x, y, u, v, c)
<1> DEFINE none == [i \in 1..0 |-> i]
<1>1. Pairs(a, b, x, y, u, v, 0, none, none)
  BY DEF Pairs, Ascends
<1>2. 0 \in Nat /\ (u - x) + (v - y) - 2 * 0 <= c
  OBVIOUS
<1> QED
  BY <1>1, <1>2 DEF Within

(* More may be spent. *)
LEMMA WithinMore ==
  ASSUME NEW a, NEW b, NEW x \in Nat, NEW y \in Nat, NEW u \in Nat, NEW v \in Nat,
         NEW c \in Int, NEW e \in Int, c <= e, Within(a, b, x, y, u, v, c)
  PROVE  Within(a, b, x, y, u, v, e)
<1>1. PICK m \in Nat : /\ \E p, q : Pairs(a, b, x, y, u, v, m, p, q)
                       /\ (u - x) + (v - y) - 2 * m <= c
  BY DEF Within
<1>2. (u - x) + (v - y) - 2 * m <= e
  BY <1>1
<1> QED
  BY <1>1, <1>2 DEF Within

(* What is left over of an odd amount is not spent. *)
LEMMA WithinParity ==
  ASSUME NEW a, NEW b, NEW x \in Nat, NEW y \in Nat, NEW u \in Nat, NEW v \in Nat,
         NEW c \in Int, NEW h \in Int, (u - x) + (v - y) = c + 2 * h - 1,
         Within(a, b, x, y, u, v, c)
  PROVE  Within(a, b, x, y, u, v, c - 1)
<1>1. PICK m \in Nat : /\ \E p, q : Pairs(a, b, x, y, u, v, m, p, q)
                       /\ (u - x) + (v - y) - 2 * m <= c
  BY DEF Within
<1>2. (u - x) + (v - y) - 2 * m <= c - 1
  BY <1>1
<1> QED
  BY <1>1, <1>2 DEF Within

(* One piece and then another cost what both cost. *)
LEMMA WithinConcat ==
  ASSUME NEW a, NEW b, NEW x \in Nat, NEW y \in Nat, NEW s \in Nat, NEW t \in Nat,
         NEW u \in Nat, NEW v \in Nat, x <= s, s <= u, y <= t, t <= v,
         NEW c \in Int, NEW e \in Int,
         Within(a, b, x, y, s, t, c), Within(a, b, s, t, u, v, e)
  PROVE  Within(a, b, x, y, u, v, c + e)
<1>1. PICK m \in Nat : /\ \E p, q : Pairs(a, b, x, y, s, t, m, p, q)
                       /\ (s - x) + (t - y) - 2 * m <= c
  BY DEF Within
<1>2. PICK n \in Nat : /\ \E p, q : Pairs(a, b, s, t, u, v, n, p, q)
                       /\ (u - s) + (v - t) - 2 * n <= e
  BY DEF Within
<1>3. PICK p1, q1 : Pairs(a, b, x, y, s, t, m, p1, q1)
  BY <1>1
<1>4. PICK p2, q2 : Pairs(a, b, s, t, u, v, n, p2, q2)
  BY <1>2
<1> DEFINE p == [i \in 1..(m + n) |-> IF i <= m THEN p1[i] ELSE p2[i - m]]
           q == [i \in 1..(m + n) |-> IF i <= m THEN q1[i] ELSE q2[i - m]]
<1>5. p \in [1..(m + n) -> (x + 1)..u] /\ q \in [1..(m + n) -> (y + 1)..v]
  <2>1. \A i \in 1..m : p1[i] \in (x + 1)..s /\ q1[i] \in (y + 1)..t
    BY <1>3 DEF Pairs
  <2>2. \A i \in 1..n : p2[i] \in (s + 1)..u /\ q2[i] \in (t + 1)..v
    BY <1>4 DEF Pairs
  <2>3. \A i \in 1..(m + n) : (IF i <= m THEN p1[i] ELSE p2[i - m]) \in (x + 1)..u
    BY <2>1, <2>2
  <2>4. \A i \in 1..(m + n) : (IF i <= m THEN q1[i] ELSE q2[i - m]) \in (y + 1)..v
    BY <2>1, <2>2
  <2> QED
    BY <2>3, <2>4
<1>6. Ascends(p, m + n)
  <2>1. /\ \A i \in 1..m : p1[i] \in (x + 1)..s
        /\ \A i \in 1..n : p2[i] \in (s + 1)..u
        /\ \A i, j \in 1..m : i < j => p1[i] < p1[j]
        /\ \A i, j \in 1..n : i < j => p2[i] < p2[j]
    BY <1>3, <1>4 DEF Pairs, Ascends
  <2> SUFFICES ASSUME NEW i \in 1..(m + n), NEW j \in 1..(m + n), i < j PROVE p[i] < p[j]
    BY DEF Ascends
  <2> QED
    BY <2>1
<1>7. Ascends(q, m + n)
  <2>1. /\ \A i \in 1..m : q1[i] \in (y + 1)..t
        /\ \A i \in 1..n : q2[i] \in (t + 1)..v
        /\ \A i, j \in 1..m : i < j => q1[i] < q1[j]
        /\ \A i, j \in 1..n : i < j => q2[i] < q2[j]
    BY <1>3, <1>4 DEF Pairs, Ascends
  <2> SUFFICES ASSUME NEW i \in 1..(m + n), NEW j \in 1..(m + n), i < j PROVE q[i] < q[j]
    BY DEF Ascends
  <2> QED
    BY <2>1
<1>8. \A i \in 1..(m + n) : a[p[i]] = b[q[i]]
  BY SMTT(60), <1>3, <1>4 DEF Pairs
<1>9. Pairs(a, b, x, y, u, v, m + n, p, q)
  <2> HIDE DEF p, q
  <2> QED
    BY <1>5, <1>6, <1>7, <1>8 DEF Pairs
<1>10. m + n \in Nat
  OBVIOUS
<1>11. (u - x) + (v - y) - 2 * (m + n) <= c + e
  BY <1>1, <1>2
<1> HIDE DEF p, q
<1> QED
  BY <1>9, <1>10, <1>11 DEF Within

(* Elements that are equal one by one cost nothing. *)
LEMMA WithinSnake ==
  ASSUME NEW a, NEW b, NEW x \in Nat, NEW y \in Nat, NEW n \in Nat,
         \A i \in 1..n : a[x + i] = b[y + i]
  PROVE  Within(a, b, x, y, x + n, y + n, 0)
<1> DEFINE p == [i \in 1..n |-> x + i]
           q == [i \in 1..n |-> y + i]
<1>1. Pairs(a, b, x, y, x + n, y + n, n, p, q)
  BY DEF Pairs, Ascends
<1>2. ((x + n) - x) + ((y + n) - y) - 2 * n <= 0
  OBVIOUS
<1> QED
  BY <1>1, <1>2 DEF Within

(* Whatever its end keeps, a piece costs no more without the last element of
   each text: only one pair can have either. *)
LEMMA WithinCutEnd ==
  ASSUME NEW a, NEW b, NEW x \in Nat, NEW y \in Nat, NEW u \in Nat, NEW v \in Nat,
         x <= u, y <= v, NEW c \in Int, Within(a, b, x, y, u + 1, v + 1, c)
  PROVE  Within(a, b, x, y, u, v, c)
<1>1. PICK m \in Nat : /\ \E p, q : Pairs(a, b, x, y, u + 1, v + 1, m, p, q)
                       /\ ((u + 1) - x) + ((v + 1) - y) - 2 * m <= c
  BY DEF Within
<1>2. PICK p, q : Pairs(a, b, x, y, u + 1, v + 1, m, p, q)
  BY <1>1
<1>3. CASE m = 0
  <2>1. (u - x) + (v - y) <= c
    BY <1>1, <1>3
  <2> QED
    BY <2>1, WithinNone
<1>4. CASE m # 0
  <2> DEFINE p1 == [i \in 1..(m - 1) |-> p[i]]
             q1 == [i \in 1..(m - 1) |-> q[i]]
  <2>1. \A i \in 1..(m - 1) : p[i] < p[m] /\ q[i] < q[m]
    BY <1>2, <1>4 DEF Pairs, Ascends
  <2>2. \A i \in 1..m : p[i] \in (x + 1)..(u + 1) /\ q[i] \in (y + 1)..(v + 1)
    BY <1>2 DEF Pairs
  <2>3. p1 \in [1..(m - 1) -> (x + 1)..u] /\ q1 \in [1..(m - 1) -> (y + 1)..v]
    BY <1>4, <2>1, <2>2
  <2>4. Pairs(a, b, x, y, u, v, m - 1, p1, q1)
    <3>1. Ascends(p1, m - 1) /\ Ascends(q1, m - 1)
      <4>1. Ascends(p, m) /\ Ascends(q, m) /\ \A i \in 1..(m - 1) : i \in 1..m
        BY <1>2, <1>4 DEF Pairs
      <4> QED
        BY <4>1 DEF Ascends
    <3>2. \A i \in 1..(m - 1) : a[p1[i]] = b[q1[i]]
      BY <1>2, <1>4 DEF Pairs
    <3> HIDE DEF p1, q1
    <3> QED
      BY <2>3, <3>1, <3>2 DEF Pairs
  <2>5. m - 1 \in Nat
    BY <1>4
  <2>6. (u - x) + (v - y) - 2 * (m - 1) <= c
    BY <1>1
  <2> HIDE DEF p1, q1
  <2> QED
    BY <2>4, <2>5, <2>6 DEF Within
<1> QED
  BY <1>3, <1>4

(* The last move: what is not kept as a pair of equal elements has been
   deleted or inserted. *)
LEMMA WithinLast ==
  ASSUME NEW a, NEW b, NEW x \in Nat, NEW y \in Nat, NEW u \in Nat, NEW v \in Nat,
         x <= u, y <= v, NEW c \in Int, Within(a, b, x, y, u, v, c)
  PROVE  \/ u = x /\ v = y
         \/ x < u /\ y < v /\ a[u] = b[v] /\ Within(a, b, x, y, u - 1, v - 1, c)
         \/ x < u /\ Within(a, b, x, y, u - 1, v, c - 1)
         \/ y < v /\ Within(a, b, x, y, u, v - 1, c - 1)
<1>1. PICK m \in Nat : /\ \E p, q : Pairs(a, b, x, y, u, v, m, p, q)
                       /\ (u - x) + (v - y) - 2 * m <= c
  BY DEF Within
<1>2. PICK p, q : Pairs(a, b, x, y, u, v, m, p, q)
  BY <1>1
<1>3. \A i \in 1..m : p[i] \in (x + 1)..u /\ q[i] \in (y + 1)..v
  BY <1>2 DEF Pairs
<1>4. CASE m = 0
  <2>1. (u - x) + (v - y) <= c
    BY <1>1, <1>4
  <2>2. CASE x < u
    <3>1. u - 1 \in Nat /\ x <= u - 1 /\ c - 1 \in Int /\ ((u - 1) - x) + (v - y) <= c - 1
      BY <2>1, <2>2
    <3> QED
      BY <2>2, <3>1, WithinNone
  <2>3. CASE y < v
    <3>1. v - 1 \in Nat /\ y <= v - 1 /\ c - 1 \in Int /\ (u - x) + ((v - 1) - y) <= c - 1
      BY <2>1, <2>3
    <3> QED
      BY <2>3, <3>1, WithinNone
  <2> QED
    BY <2>2, <2>3
<1>5. CASE m # 0 /\ p[m] < u
  <2>1. \A i \in 1..m : p[i] \in (x + 1)..(u - 1)
    <3> TAKE i \in 1..m
    <3>1. p[i] <= p[m]
      <4>1. CASE i = m
        BY <1>3, <4>1
      <4>2. CASE i < m
        <5>1. p[i] < p[m]
          BY <1>2, <4>2 DEF Pairs, Ascends
        <5> QED
          BY <1>3, <5>1
      <4> QED
        BY <4>1, <4>2
    <3> QED
      BY <1>3, <1>5, <3>1
  <2>2. p \in [1..m -> (x + 1)..(u - 1)]
    BY <1>2, <2>1 DEF Pairs
  <2>3. Pairs(a, b, x, y, u - 1, v, m, p, q)
    BY <1>2, <2>2 DEF Pairs
  <2>4. ((u - 1) - x) + (v - y) - 2 * m <= c - 1
    BY <1>1
  <2>5. Within(a, b, x, y, u - 1, v, c - 1)
    BY <2>3, <2>4 DEF Within
  <2>6. x < u
    BY <1>3, <1>5
  <2> QED
    BY <2>5, <2>6
<1>6. CASE m # 0 /\ q[m] < v
  <2>1. \A i \in 1..m : q[i] \in (y + 1)..(v - 1)
    <3> TAKE i \in 1..m
    <3>1. q[i] <= q[m]
      <4>1. CASE i = m
        BY <1>3, <4>1
      <4>2. CASE i < m
        <5>1. q[i] < q[m]
          BY <1>2, <4>2 DEF Pairs, Ascends
        <5> QED
          BY <1>3, <5>1
      <4> QED
        BY <4>1, <4>2
    <3> QED
      BY <1>3, <1>6, <3>1
  <2>2. q \in [1..m -> (y + 1)..(v - 1)]
    BY <1>2, <2>1 DEF Pairs
  <2>3. Pairs(a, b, x, y, u, v - 1, m, p, q)
    BY <1>2, <2>2 DEF Pairs
  <2>4. (u - x) + ((v - 1) - y) - 2 * m <= c - 1
    BY <1>1
  <2>5. Within(a, b, x, y, u, v - 1, c - 1)
    BY <2>3, <2>4 DEF Within
  <2>6. y < v
    BY <1>3, <1>6
  <2> QED
    BY <2>5, <2>6
<1>7. CASE m # 0 /\ p[m] = u /\ q[m] = v
  <2>1. a[u] = b[v] /\ x < u /\ y < v
    BY <1>2, <1>3, <1>7 DEF Pairs
  <2>2. u - 1 \in Nat /\ v - 1 \in Nat /\ x <= u - 1 /\ y <= v - 1
    BY <2>1
  <2>3. (u - 1) + 1 = u /\ (v - 1) + 1 = v
    OBVIOUS
  <2>4. Within(a, b, x, y, (u - 1) + 1, (v - 1) + 1, c)
    BY <2>3
  <2>5. Within(a, b, x, y, u - 1, v - 1, c)
    BY <2>2, <2>4, WithinCutEnd
  <2> QED
    BY <2>1, <2>5
<1> QED
  BY <1>3, <1>4, <1>5, <1>6, <1>7

(* The first n elements of r are those of a, read from the end. *)
Backwards(r, a, n) == \A i \in 1..n : r[i] = a[n + 1 - i]

(* Read from their ends, two texts are as far apart. *)
LEMMA WithinReversed ==
  ASSUME NEW a, NEW b, NEW r, NEW s, NEW n \in Nat, NEW k \in Nat,
         Backwards(r, a, n), Backwards(s, b, k),
         NEW x \in 0..n, NEW u \in 0..n, NEW y \in 0..k, NEW v \in 0..k, x <= u, y <= v,
         NEW c \in Int, Within(a, b, x, y, u, v, c)
  PROVE  Within(r, s, n - u, k - v, n - x, k - y, c)
<1>1. PICK m \in Nat : /\ \E p, q : Pairs(a, b, x, y, u, v, m, p, q)
                       /\ (u - x) + (v - y) - 2 * m <= c
  BY DEF Within
<1>2. PICK p, q : Pairs(a, b, x, y, u, v, m, p, q)
  BY <1>1
<1> DEFINE p1 == [i \in 1..m |-> n + 1 - p[m + 1 - i]]
           q1 == [i \in 1..m |-> k + 1 - q[m + 1 - i]]
<1>3. \A i \in 1..m : p[i] \in (x + 1)..u /\ q[i] \in (y + 1)..v
  BY <1>2 DEF Pairs
<1>4. \A i \in 1..m : m + 1 - i \in 1..m
  OBVIOUS
<1>5. p1 \in [1..m -> ((n - u) + 1)..(n - x)] /\ q1 \in [1..m -> ((k - v) + 1)..(k - y)]
  BY <1>3, <1>4
<1>6. Ascends(p1, m)
  <2> SUFFICES ASSUME NEW i \in 1..m, NEW j \in 1..m, i < j PROVE p1[i] < p1[j]
    BY DEF Ascends
  <2>1. m + 1 - i \in 1..m /\ m + 1 - j \in 1..m /\ m + 1 - j < m + 1 - i
    OBVIOUS
  <2>2. p[m + 1 - j] < p[m + 1 - i]
    BY <1>2, <2>1 DEF Pairs, Ascends
  <2> QED
    BY <1>3, <2>1, <2>2
<1>7. Ascends(q1, m)
  <2> SUFFICES ASSUME NEW i \in 1..m, NEW j \in 1..m, i < j PROVE q1[i] < q1[j]
    BY DEF Ascends
  <2>1. m + 1 - i \in 1..m /\ m + 1 - j \in 1..m /\ m + 1 - j < m + 1 - i
    OBVIOUS
  <2>2. q[m + 1 - j] < q[m + 1 - i]
    BY <1>2, <2>1 DEF Pairs, Ascends
  <2> QED
    BY <1>3, <2>1, <2>2
<1>8. \A i \in 1..m : r[p1[i]] = s[q1[i]]
  <2> TAKE i \in 1..m
  <2> DEFINE h == m + 1 - i
  <2>1. h \in 1..m /\ p[h] \in 1..n /\ q[h] \in 1..k /\ a[p[h]] = b[q[h]]
    <3>1. h \in 1..m
      BY <1>4
    <3>2. a[p[h]] = b[q[h]]
      BY <1>2, <3>1 DEF Pairs
    <3>3. p[h] \in (x + 1)..u /\ q[h] \in (y + 1)..v
      BY <1>3, <3>1
    <3> QED
      BY <3>1, <3>2, <3>3
  <2>2. p1[i] = n + 1 - p[h] /\ q1[i] = k + 1 - q[h]
    OBVIOUS
  <2>3. /\ n + 1 - p[h] \in 1..n /\ n + 1 - (n + 1 - p[h]) = p[h]
        /\ k + 1 - q[h] \in 1..k /\ k + 1 - (k + 1 - q[h]) = q[h]
    BY <2>1
  <2> HIDE DEF p1, q1, h
  <2>4. r[n + 1 - p[h]] = a[p[h]]
    BY <2>3 DEF Backwards
  <2>5. s[k + 1 - q[h]] = b[q[h]]
    BY <2>3 DEF Backwards
  <2> QED
    BY <2>1, <2>2, <2>4, <2>5
<1>9. Pairs(r, s, n - u, k - v, n - x, k - y, m, p1, q1)
  <2> HIDE DEF p1, q1
  <2> QED
    BY <1>5, <1>6, <1>7, <1>8 DEF Pairs
<1>10. ((n - x) - (n - u)) + ((k - y) - (k - v)) - 2 * m <= c
  BY <1>1
<1> HIDE DEF p1, q1
<1> QED
  BY <1>9, <1>10 DEF Within

(* The same at the front. *)
LEMMA WithinCutFront ==
  ASSUME NEW a, NEW b, NEW x \in Nat, NEW y \in Nat, NEW u \in Nat, NEW v \in Nat,
         x + 1 <= u, y + 1 <= v, NEW c \in Int, Within(a, b, x, y, u, v, c)
  PROVE  Within(a, b, x + 1, y + 1, u, v, c)
<1> DEFINE r == [i \in 1..u |-> a[u + 1 - i]]
           s == [i \in 1..v |-> b[v + 1 - i]]
<1>1. Backwards(r, a, u) /\ Backwards(s, b, v)
  BY DEF Backwards
<1>2. Backwards(a, r, u)
  <2> SUFFICES ASSUME NEW i \in 1..u PROVE a[i] = r[u + 1 - i]
    BY DEF Backwards
  <2>1. u + 1 - i \in 1..u /\ u + 1 - (u + 1 - i) = i
    OBVIOUS
  <2> QED
    BY <2>1
<1>3. Backwards(b, s, v)
  <2> SUFFICES ASSUME NEW i \in 1..v PROVE b[i] = s[v + 1 - i]
    BY DEF Backwards
  <2>1. v + 1 - i \in 1..v /\ v + 1 - (v + 1 - i) = i
    OBVIOUS
  <2> QED
    BY <2>1
<1> HIDE DEF r, s
<1> DEFINE f == u - x - 1
           g == v - y - 1
<1>4. /\ x \in 0..u /\ u \in 0..u /\ y \in 0..v /\ v \in 0..v /\ x <= u /\ y <= v
      /\ u - u = 0 /\ v - v = 0 /\ u - x = f + 1 /\ v - y = g + 1
      /\ f \in Nat /\ g \in Nat /\ f \in 0..u /\ g \in 0..v /\ 0 \in 0..u /\ 0 \in 0..v /\ 0 <= f /\ 0 <= g
      /\ u - f = x + 1 /\ v - g = y + 1 /\ u - 0 = u /\ v - 0 = v /\ 0 \in Nat
  OBVIOUS
<1> HIDE DEF f, g
<1>5. Within(r, s, u - u, v - v, u - x, v - y, c)
  BY <1>1, <1>4, WithinReversed
<1>6. Within(r, s, 0, 0, f + 1, g + 1, c)
  BY <1>4, <1>5
<1>7. Within(r, s, 0, 0, f, g, c)
  BY <1>4, <1>6, WithinCutEnd
<1>8. Within(a, b, u - f, v - g, u - 0, v - 0, c)
  BY <1>2, <1>3, <1>4, <1>7, WithinReversed
<1> QED
  BY <1>4, <1>8

(* And of any number of elements. *)
LEMMA WithinShorter ==
  ASSUME NEW a, NEW b, NEW x \in Nat, NEW y \in Nat, NEW u \in Nat, NEW v \in Nat,
         x <= u, y <= v, NEW c \in Int, NEW n \in Nat, Within(a, b, x, y, u + n, v + n, c)
  PROVE  Within(a, b, x, y, u, v, c)
<1> DEFINE S == {i \in Nat : Within(a, b, x, y, u + i, v + i, c) => Within(a, b, x, y, u, v, c)}
<1>1. 0 \in S
  BY u + 0 = u, v + 0 = v, 0 \in Nat
<1>2. \A i \in Nat : i \in S => i + 1 \in S
  <2> SUFFICES ASSUME NEW i \in Nat, i \in S, Within(a, b, x, y, u + (i + 1), v + (i + 1), c)
               PROVE  Within(a, b, x, y, u, v, c)
    OBVIOUS
  <2>1. /\ u + (i + 1) = (u + i) + 1 /\ v + (i + 1) = (v + i) + 1
        /\ u + i \in Nat /\ v + i \in Nat /\ x <= u + i /\ y <= v + i
    OBVIOUS
  <2>2. Within(a, b, x, y, (u + i) + 1, (v + i) + 1, c)
    BY <2>1
  <2>3. Within(a, b, x, y, u + i, v + i, c)
    BY <2>1, <2>2, WithinCutEnd
  <2> QED
    BY <2>3
<1>3. n \in S
  <2> HIDE DEF S
  <2>1. Nat \subseteq S
    BY <1>1, <1>2, NatSetInduction
  <2> QED
    BY <2>1
<1> QED
  BY <1>3

(* Or left away at the front. *)
LEMMA WithinLater ==
  ASSUME NEW a, NEW b, NEW x \in Nat, NEW y \in Nat, NEW u \in Nat, NEW v \in Nat,
         NEW c \in Int, NEW n \in Nat, x + n <= u, y + n <= v, Within(a, b, x, y, u, v, c)
  PROVE  Within(a, b, x + n, y + n, u, v, c)
<1> DEFINE S == {i \in Nat : x + i <= u /\ y + i <= v => Within(a, b, x + i, y + i, u, v, c)}
<1>1. 0 \in S
  BY x + 0 = x, y + 0 = y, 0 \in Nat
<1>2. \A i \in Nat : i \in S => i + 1 \in S
  <2> SUFFICES ASSUME NEW i \in Nat, i \in S, x + (i + 1) <= u, y + (i + 1) <= v
               PROVE  Within(a, b, x + (i + 1), y + (i + 1), u, v, c)
    OBVIOUS
  <2>1. /\ x + (i + 1) = (x + i) + 1 /\ y + (i + 1) = (y + i) + 1
        /\ x + i \in Nat /\ y + i \in Nat /\ (x + i) + 1 <= u /\ (y + i) + 1 <= v
        /\ x + i <= u /\ y + i <= v
    OBVIOUS
  <2>2. Within(a, b, x + i, y + i, u, v, c)
    BY <2>1
  <2>3. Within(a, b, (x + i) + 1, (y + i) + 1, u, v, c)
    BY <2>1, <2>2, WithinCutFront
  <2> QED
    BY <2>1, <2>3
<1>3. n \in S
  <2> HIDE DEF S
  <2>1. Nat \subseteq S
    BY <1>1, <1>2, NatSetInduction
  <2> QED
    BY <2>1
<1> QED
  BY <1>3

(* Only the elements matter, not where they stand. *)
SameFrom(a, x, r, f, n) == \A i \in 1..n : a[x + i] = r[f + i]

(* Pairs of equal elements in one place are pairs of equal elements in
   another that has the same elements. *)
LEMMA WithinShift ==
  ASSUME NEW a, NEW b, NEW r, NEW s, NEW x \in Nat, NEW y \in Nat,
         NEW n \in Nat, NEW k \in Nat, NEW f \in Nat, NEW g \in Nat, NEW c \in Int,
         SameFrom(a, x, r, f, n), SameFrom(b, y, s, g, k),
         Within(a, b, x, y, x + n, y + k, c)
  PROVE  Within(r, s, f, g, f + n, g + k, c)
<1>1. PICK m \in Nat : /\ \E p, q : Pairs(a, b, x, y, x + n, y + k, m, p, q)
                       /\ ((x + n) - x) + ((y + k) - y) - 2 * m <= c
  BY DEF Within
<1>2. PICK p, q : Pairs(a, b, x, y, x + n, y + k, m, p, q)
  BY <1>1
<1> DEFINE p1 == [i \in 1..m |-> f + (p[i] - x)]
           q1 == [i \in 1..m |-> g + (q[i] - y)]
<1>3. \A i \in 1..m : p[i] \in (x + 1)..(x + n) /\ q[i] \in (y + 1)..(y + k)
  BY <1>2 DEF Pairs
<1>4. p1 \in [1..m -> (f + 1)..(f + n)] /\ q1 \in [1..m -> (g + 1)..(g + k)]
  BY <1>3
<1>5. Ascends(p1, m) /\ Ascends(q1, m)
  <2>1. Ascends(p, m) /\ Ascends(q, m)
    BY <1>2 DEF Pairs
  <2> QED
    BY <1>3, <2>1 DEF Ascends
<1>6. \A i \in 1..m : r[p1[i]] = s[q1[i]]
  <2> TAKE i \in 1..m
  <2>1. a[p[i]] = b[q[i]]
    BY <1>2 DEF Pairs
  <2>2. p[i] - x \in 1..n /\ x + (p[i] - x) = p[i] /\ q[i] - y \in 1..k /\ y + (q[i] - y) = q[i]
    BY <1>3
  <2>3. a[p[i]] = r[f + (p[i] - x)]
    BY <2>2 DEF SameFrom
  <2>4. b[q[i]] = s[g + (q[i] - y)]
    BY <2>2 DEF SameFrom
  <2> QED
    BY <2>1, <2>3, <2>4
<1>7. Pairs(r, s, f, g, f + n, g + k, m, p1, q1)
  <2> HIDE DEF p1, q1
  <2> QED
    BY <1>4, <1>5, <1>6 DEF Pairs
<1>8. ((f + n) - f) + ((g + k) - g) - 2 * m <= c
  BY <1>1
<1> HIDE DEF p1, q1
<1> QED
  BY <1>7, <1>8 DEF Within

(* The last unit of a cost is spent somewhere. *)
LEMMA WithinOneLess ==
  ASSUME NEW a, NEW b, NEW x \in Nat, NEW y \in Nat, NEW u \in Nat, NEW v \in Nat,
         x <= u, y <= v, NEW c \in Nat, Within(a, b, x, y, u, v, c + 1)
  PROVE  \E s \in x..u, t \in y..v : Within(a, b, x, y, s, t, c) /\ Within(a, b, s, t, u, v, 1)
<1> DEFINE Ok(f, g) == \E s \in x..f, t \in y..g :
                         Within(a, b, x, y, s, t, c) /\ Within(a, b, s, t, f, g, 1)
           S == {n \in Nat : \A f, g \in Nat : /\ f + g = n /\ x <= f /\ y <= g
                                              /\ Within(a, b, x, y, f, g, c + 1)
                                              => Ok(f, g)}
<1>1. ASSUME NEW f \in Nat, NEW g \in Nat, x <= f, y <= g, Within(a, b, x, y, f, g, c + 1),
             x < f /\ y < g /\ Within(a, b, x, y, f - 1, g - 1, c + 1) => Ok(f - 1, g - 1)
      PROVE  Ok(f, g)
  <2>1. CASE f = x /\ g = y
    <3>1. Within(a, b, x, y, x, y, c)
      BY WithinNone
    <3>2. Within(a, b, x, y, f, g, 1)
      BY <2>1, WithinNone
    <3> QED
      BY <2>1, <3>1, <3>2
  <2>2. CASE x < f /\ y < g /\ a[f] = b[g] /\ Within(a, b, x, y, f - 1, g - 1, c + 1)
    <3>1. PICK s \in x..(f - 1), t \in y..(g - 1) :
            Within(a, b, x, y, s, t, c) /\ Within(a, b, s, t, f - 1, g - 1, 1)
      BY <1>1, <2>2
    <3>2. Within(a, b, f - 1, g - 1, (f - 1) + 1, (g - 1) + 1, 0)
      <4>1. f - 1 \in Nat /\ g - 1 \in Nat /\ 1 \in Nat /\ (f - 1) + 1 = f /\ (g - 1) + 1 = g
        BY <2>2
      <4>2. \A i \in 1..1 : a[(f - 1) + i] = b[(g - 1) + i]
        BY <2>2, <4>1
      <4> QED
        BY <4>1, <4>2, WithinSnake
    <3>3. Within(a, b, f - 1, g - 1, f, g, 0)
      BY <3>2, (f - 1) + 1 = f, (g - 1) + 1 = g
    <3>4. /\ s \in Nat /\ t \in Nat /\ f - 1 \in Nat /\ g - 1 \in Nat
          /\ s <= f - 1 /\ f - 1 <= f /\ t <= g - 1 /\ g - 1 <= g /\ 1 \in Int /\ 0 \in Int
      BY <2>2, <3>1
    <3>5. Within(a, b, s, t, f, g, 1 + 0)
      BY <3>1, <3>3, <3>4, WithinConcat
    <3>6. s \in x..f /\ t \in y..g /\ 1 + 0 = 1
      BY <3>1
    <3> QED
      BY <3>1, <3>5, <3>6
  <2>3. CASE x < f /\ Within(a, b, x, y, f - 1, g, c)
    <3>1. Within(a, b, f - 1, g, f, g, 1)
      BY <2>3, WithinNone
    <3>2. f - 1 \in x..f /\ g \in y..g
      BY <1>1, <2>3
    <3> QED
      BY <2>3, <3>1, <3>2
  <2>4. CASE y < g /\ Within(a, b, x, y, f, g - 1, c)
    <3>1. Within(a, b, f, g - 1, f, g, 1)
      BY <2>4, WithinNone
    <3>2. f \in x..f /\ g - 1 \in y..g
      BY <1>1, <2>4
    <3> QED
      BY <2>4, <3>1, <3>2
  <2>5. (c + 1) - 1 = c /\ c + 1 \in Int
    OBVIOUS
  <2>6. \/ f = x /\ g = y
        \/ x < f /\ y < g /\ a[f] = b[g] /\ Within(a, b, x, y, f - 1, g - 1, c + 1)
        \/ x < f /\ Within(a, b, x, y, f - 1, g, (c + 1) - 1)
        \/ y < g /\ Within(a, b, x, y, f, g - 1, (c + 1) - 1)
    BY <1>1, <2>5, WithinLast
  <2> HIDE DEF Ok
  <2> QED
    BY <2>1, <2>2, <2>3, <2>4, <2>5, <2>6
<1> HIDE DEF Ok
<1>2. 0 \in S
  <2> SUFFICES ASSUME NEW f \in Nat, NEW g \in Nat, f + g = 0, x <= f, y <= g,
                      Within(a, b, x, y, f, g, c + 1)
               PROVE  Ok(f, g)
    OBVIOUS
  <2>1. ~(x < f)
    OBVIOUS
  <2> QED
    BY <1>1, <2>1
<1>3. ASSUME NEW n \in Nat, n \in S PROVE n + 2 \in S
  <2>0. n + 2 \in Nat
    OBVIOUS
  <2> SUFFICES ASSUME NEW f \in Nat, NEW g \in Nat, f + g = n + 2, x <= f, y <= g,
                      Within(a, b, x, y, f, g, c + 1)
               PROVE  Ok(f, g)
    BY <2>0
  <2>1. ASSUME x < f, y < g, Within(a, b, x, y, f - 1, g - 1, c + 1) PROVE Ok(f - 1, g - 1)
    <3>1. f - 1 \in Nat /\ g - 1 \in Nat /\ (f - 1) + (g - 1) = n /\ x <= f - 1 /\ y <= g - 1
      BY <2>1
    <3> QED
      BY <1>3, <2>1, <3>1
  <2> QED
    BY <1>1, <2>1
<1>4. 1 \in S
  <2> SUFFICES ASSUME NEW f \in Nat, NEW g \in Nat, f + g = 1, x <= f, y <= g,
                      Within(a, b, x, y, f, g, c + 1)
               PROVE  Ok(f, g)
    OBVIOUS
  <2>1. ~(x < f /\ y < g)
    OBVIOUS
  <2> QED
    BY <1>1, <2>1
<1>5. Nat \subseteq S
  <2> DEFINE T == {n \in Nat : n \in S /\ n + 1 \in S}
  <2>1. 0 \in T
    BY <1>2, <1>4, 0 + 1 = 1, 0 \in Nat
  <2>2. \A n \in Nat : n \in T => n + 1 \in T
    <3> SUFFICES ASSUME NEW n \in Nat, n \in S, n + 1 \in S PROVE (n + 1) + 1 \in S
      OBVIOUS
    <3>1. n + 2 \in S /\ (n + 1) + 1 = n + 2
      BY <1>3
    <3> QED
      BY <3>1
  <2>3. Nat \subseteq T
    <3> HIDE DEF T
    <3> QED
      BY <2>1, <2>2, NatSetInduction
  <2> QED
    BY <2>3
<1>6. u + v \in S
  <2> HIDE DEF S
  <2> QED
    BY <1>5
<1>7. Ok(u, v)
  BY <1>6
<1> QED
  BY <1>7 DEF Ok

(* So a cost of c + e can be spent c first and e after. *)
LEMMA WithinSplit ==
  ASSUME NEW a, NEW b, NEW x \in Nat, NEW y \in Nat, NEW u \in Nat, NEW v \in Nat,
         x <= u, y <= v, NEW c \in Nat, NEW e \in Nat, Within(a, b, x, y, u, v, c + e)
  PROVE  \E s \in x..u, t \in y..v : Within(a, b, x, y, s, t, c) /\ Within(a, b, s, t, u, v, e)
<1> DEFINE Ok(f, n) == \E s \in x..u, t \in y..v :
                         Within(a, b, x, y, s, t, f) /\ Within(a, b, s, t, u, v, n)
           S == {n \in Nat : \A f \in Nat : Within(a, b, x, y, u, v, f + n) => Ok(f, n)}
<1>1. 0 \in S
  <2> SUFFICES ASSUME NEW f \in Nat, Within(a, b, x, y, u, v, f + 0) PROVE Ok(f, 0)
    OBVIOUS
  <2>1. Within(a, b, u, v, u, v, 0)
    BY WithinNone
  <2>2. u \in x..u /\ v \in y..v /\ f + 0 = f
    OBVIOUS
  <2> QED
    BY <2>1, <2>2
<1>2. ASSUME NEW n \in Nat, n \in S PROVE n + 1 \in S
  <2> SUFFICES ASSUME NEW f \in Nat, Within(a, b, x, y, u, v, f + (n + 1)) PROVE Ok(f, n + 1)
    OBVIOUS
  <2>1. Within(a, b, x, y, u, v, (f + 1) + n) /\ f + 1 \in Nat
    BY f + (n + 1) = (f + 1) + n
  <2>2. Ok(f + 1, n)
    BY <1>2, <2>1
  <2>3. PICK s \in x..u, t \in y..v : Within(a, b, x, y, s, t, f + 1) /\ Within(a, b, s, t, u, v, n)
    BY <2>2
  <2>4. s \in Nat /\ t \in Nat /\ x <= s /\ y <= t /\ s <= u /\ t <= v
    OBVIOUS
  <2>5. PICK g \in x..s, h \in y..t : Within(a, b, x, y, g, h, f) /\ Within(a, b, g, h, s, t, 1)
    BY <2>3, <2>4, WithinOneLess
  <2>6. /\ g \in Nat /\ h \in Nat /\ g <= s /\ h <= t /\ g \in x..u /\ h \in y..v
        /\ 1 \in Int /\ n \in Int /\ 1 + n = n + 1
    BY <2>4
  <2>7. Within(a, b, g, h, u, v, 1 + n)
    BY <2>3, <2>4, <2>5, <2>6, WithinConcat
  <2> QED
    BY <2>5, <2>6, <2>7
<1>3. e \in S
  <2> HIDE DEF S
  <2>1. Nat \subseteq S
    BY <1>1, <1>2, NatSetInduction
  <2> QED
    BY <2>1
<1>4. Ok(c, e)
  BY <1>3
<1> QED
  BY <1>4

(* c is the least cost of a piece. *)
Least(a, b, x, y, u, v, c) ==
  c \in Nat /\ Within(a, b, x, y, u, v, c) /\ \A e \in Int : Within(a, b, x, y, u, v, e) => c <= e

(* Every piece has one. *)
LEMMA LeastExists ==
  ASSUME NEW a, NEW b, NEW x \in Nat, NEW y \in Nat, NEW u \in Nat, NEW v \in Nat, x <= u, y <= v
  PROVE  \E c : Least(a, b, x, y, u, v, c)
<1> DEFINE S == {c \in Nat : Within(a, b, x, y, u, v, c)}
<1>1. (u - x) + (v - y) \in S
  <2>1. (u - x) + (v - y) \in Nat
    OBVIOUS
  <2> QED
    BY <2>1, WithinNone
<1>2. PICK c \in S : \A e \in S : c <= e
  <2>1. S \subseteq Nat /\ S # {}
    BY <1>1
  <2> HIDE DEF S
  <2> QED
    BY <2>1, LeastNatural
<1>3. ASSUME NEW e \in Int, Within(a, b, x, y, u, v, e) PROVE c <= e
  <2>1. 0 <= e
    BY <1>3, WithinBound
  <2>2. e \in S
    BY <1>3, <2>1
  <2> QED
    BY <1>2, <2>2
<1> QED
  BY <1>2, <1>3 DEF Least

(* The recurrence of EditDistance. *)
IsTable(f, a, b, n, k) ==
  f = [p \in (0..n) \X (0..k) |->
        IF p[1] = 0 \/ p[2] = 0 THEN p[1] + p[2]
        ELSE IF a[p[1]] = b[p[2]] THEN f[<<p[1] - 1, p[2] - 1>>]
        ELSE 1 + Min2(f[<<p[1] - 1, p[2]>>], f[<<p[1], p[2] - 1>>])]

(* The least costs of all prefixes satisfy it. *)
LEMMA LeastStep ==
  ASSUME NEW a, NEW b, NEW i \in Nat, NEW j \in Nat, NEW c
  PROVE  /\ i = 0 \/ j = 0 => Least(a, b, 0, 0, i, j, i + j)
         /\ i # 0 /\ j # 0 /\ a[i] = b[j] /\ Least(a, b, 0, 0, i - 1, j - 1, c)
              => Least(a, b, 0, 0, i, j, c)
         /\ \A e : i # 0 /\ j # 0 /\ a[i] # b[j] /\ Least(a, b, 0, 0, i - 1, j, c) /\ Least(a, b, 0, 0, i, j - 1, e)
              => Least(a, b, 0, 0, i, j, 1 + Min2(c, e))
<1>1. ASSUME i = 0 \/ j = 0 PROVE Least(a, b, 0, 0, i, j, i + j)
  <2>1. Within(a, b, 0, 0, i, j, i + j)
    BY WithinNone
  <2>2. ASSUME NEW e \in Int, Within(a, b, 0, 0, i, j, e) PROVE i + j <= e
    <3>1. i - 0 - (j - 0) <= e /\ j - 0 - (i - 0) <= e
      BY <2>2, WithinBound
    <3> QED
      BY <1>1, <3>1
  <2> QED
    BY <2>1, <2>2 DEF Least
<1>2. ASSUME i # 0, j # 0, a[i] = b[j], Least(a, b, 0, 0, i - 1, j - 1, c)
      PROVE  Least(a, b, 0, 0, i, j, c)
  <2>1. /\ i - 1 \in Nat /\ j - 1 \in Nat /\ 1 \in Nat /\ 0 \in Nat /\ (i - 1) + 1 = i /\ (j - 1) + 1 = j
        /\ c \in Nat /\ c \in Int /\ 0 \in Int /\ 0 <= i - 1 /\ 0 <= j - 1 /\ i - 1 <= i /\ j - 1 <= j /\ c + 0 = c
    BY <1>2 DEF Least
  <2>2. Within(a, b, i - 1, j - 1, (i - 1) + 1, (j - 1) + 1, 0)
    <3>1. \A h \in 1..1 : a[(i - 1) + h] = b[(j - 1) + h]
      BY <1>2, <2>1
    <3> QED
      BY <2>1, <3>1, WithinSnake
  <2>3. Within(a, b, 0, 0, i - 1, j - 1, c) /\ Within(a, b, i - 1, j - 1, i, j, 0)
    BY <1>2, <2>1, <2>2 DEF Least
  <2>4. Within(a, b, 0, 0, i, j, c + 0)
    BY <2>1, <2>3, WithinConcat
  <2>5. ASSUME NEW e \in Int, Within(a, b, 0, 0, i, j, e) PROVE c <= e
    <3>1. Within(a, b, 0, 0, (i - 1) + 1, (j - 1) + 1, e)
      BY <2>1, <2>5
    <3>2. Within(a, b, 0, 0, i - 1, j - 1, e)
      BY <2>1, <3>1, WithinCutEnd
    <3> QED
      BY <1>2, <3>2 DEF Least
  <2> QED
    BY <2>1, <2>4, <2>5 DEF Least
<1>3. ASSUME NEW e, i # 0, j # 0, a[i] # b[j], Least(a, b, 0, 0, i - 1, j, c), Least(a, b, 0, 0, i, j - 1, e)
      PROVE  Least(a, b, 0, 0, i, j, 1 + Min2(c, e))
  <2>1. /\ i - 1 \in Nat /\ j - 1 \in Nat /\ 0 \in Nat /\ c \in Nat /\ e \in Nat /\ 1 \in Int
        /\ 0 <= i /\ 0 <= j /\ 0 <= i - 1 /\ 0 <= j - 1 /\ i - 1 <= i /\ j - 1 <= j /\ c \in Int /\ e \in Int
    BY <1>3 DEF Least
  <2>2. Within(a, b, 0, 0, i, j, c + 1)
    <3>1. Within(a, b, i - 1, j, i, j, 1)
      BY <2>1, WithinNone
    <3>2. Within(a, b, 0, 0, i - 1, j, c)
      BY <1>3 DEF Least
    <3> QED
      BY <2>1, <3>1, <3>2, j <= j, WithinConcat
  <2>3. Within(a, b, 0, 0, i, j, e + 1)
    <3>1. Within(a, b, i, j - 1, i, j, 1)
      BY <2>1, WithinNone
    <3>2. Within(a, b, 0, 0, i, j - 1, e)
      BY <1>3 DEF Least
    <3> QED
      BY <2>1, <3>1, <3>2, i <= i, WithinConcat
  <2>4. 1 + Min2(c, e) \in Nat /\ (1 + Min2(c, e) = c + 1 \/ 1 + Min2(c, e) = e + 1)
    BY <2>1 DEF Min2
  <2>5. ASSUME NEW g \in Int, Within(a, b, 0, 0, i, j, g) PROVE 1 + Min2(c, e) <= g
    <3>1. \/ i = 0 /\ j = 0
          \/ 0 < i /\ 0 < j /\ a[i] = b[j] /\ Within(a, b, 0, 0, i - 1, j - 1, g)
          \/ 0 < i /\ Within(a, b, 0, 0, i - 1, j, g - 1)
          \/ 0 < j /\ Within(a, b, 0, 0, i, j - 1, g - 1)
      BY <2>1, <2>5, WithinLast
    <3>2. g - 1 \in Int
      OBVIOUS
    <3>3. c <= g - 1 \/ e <= g - 1
      BY <1>3, <3>1, <3>2 DEF Least
    <3> QED
      BY <2>1, <3>3 DEF Min2
  <2>6. Within(a, b, 0, 0, i, j, 1 + Min2(c, e))
    BY <2>2, <2>3, <2>4
  <2> HIDE DEF Min2
  <2> QED
    BY <2>4, <2>5, <2>6 DEF Least
<1> QED
  BY <1>1, <1>2, <1>3

(* There is only one. *)
LEMMA LeastUnique ==
  ASSUME NEW a, NEW b, NEW x, NEW y, NEW u, NEW v, NEW c, NEW e,
         Least(a, b, x, y, u, v, c), Least(a, b, x, y, u, v, e)
  PROVE  c = e
<1>1. c \in Nat /\ e \in Nat /\ c <= e /\ e <= c
  BY DEF Least
<1> QED
  BY <1>1

(* The function that holds the least costs satisfies the recurrence, ... *)
LEMMA TableExists ==
  ASSUME NEW a, NEW b, NEW n \in Nat, NEW k \in Nat
  PROVE  \E f : IsTable(f, a, b, n, k)
<1> DEFINE D == (0..n) \X (0..k)
           f == [p \in D |-> CHOOSE c : Least(a, b, 0, 0, p[1], p[2], c)]
           g == [p \in D |->
                  IF p[1] = 0 \/ p[2] = 0 THEN p[1] + p[2]
                  ELSE IF a[p[1]] = b[p[2]] THEN f[<<p[1] - 1, p[2] - 1>>]
                  ELSE 1 + Min2(f[<<p[1] - 1, p[2]>>], f[<<p[1], p[2] - 1>>])]
<1>1. ASSUME NEW i \in 0..n, NEW j \in 0..k PROVE Least(a, b, 0, 0, i, j, f[<<i, j>>])
  <2>1. <<i, j>> \in D /\ <<i, j>>[1] = i /\ <<i, j>>[2] = j
    OBVIOUS
  <2>2. f[<<i, j>>] = CHOOSE c : Least(a, b, 0, 0, i, j, c)
    BY <2>1
  <2>3. \E c : Least(a, b, 0, 0, i, j, c)
    BY LeastExists
  <2> QED
    BY <2>2, <2>3
<1>2. ASSUME NEW p \in D PROVE f[p] = g[p]
  <2> DEFINE i == p[1]
             j == p[2]
  <2>1. i \in 0..n /\ j \in 0..k /\ p = <<i, j>>
    OBVIOUS
  <2>2. g[p] = IF i = 0 \/ j = 0 THEN i + j
               ELSE IF a[i] = b[j] THEN f[<<i - 1, j - 1>>]
               ELSE 1 + Min2(f[<<i - 1, j>>], f[<<i, j - 1>>])
    OBVIOUS
  <2> HIDE DEF i, j, f, g, Min2
  <2>3. Least(a, b, 0, 0, i, j, f[p])
    BY <1>1, <2>1
  <2>4. i \in Nat /\ j \in Nat
    BY <2>1
  <2>5. CASE i = 0 \/ j = 0
    <3>1. Least(a, b, 0, 0, i, j, i + j)
      BY <2>4, <2>5, LeastStep
    <3> QED
      BY <2>2, <2>3, <2>5, <3>1, LeastUnique
  <2>6. CASE i # 0 /\ j # 0
    <3>1. i - 1 \in 0..n /\ j - 1 \in 0..k
      BY <2>1, <2>6
    <3>2. CASE a[i] = b[j]
      <4>1. Least(a, b, 0, 0, i - 1, j - 1, f[<<i - 1, j - 1>>])
        BY <1>1, <3>1
      <4>2. Least(a, b, 0, 0, i, j, f[<<i - 1, j - 1>>])
        BY <2>4, <2>6, <3>2, <4>1, LeastStep
      <4> QED
        BY <2>2, <2>3, <2>6, <3>2, <4>2, LeastUnique
    <3>3. CASE a[i] # b[j]
      <4>1. Least(a, b, 0, 0, i - 1, j, f[<<i - 1, j>>]) /\ Least(a, b, 0, 0, i, j - 1, f[<<i, j - 1>>])
        BY <1>1, <2>1, <3>1
      <4>2. Least(a, b, 0, 0, i, j, 1 + Min2(f[<<i - 1, j>>], f[<<i, j - 1>>]))
        BY <2>4, <2>6, <3>3, <4>1, LeastStep
      <4> QED
        BY <2>2, <2>3, <2>6, <3>3, <4>2, LeastUnique
    <3> QED
      BY <3>2, <3>3
  <2> QED
    BY <2>4, <2>5, <2>6
<1>3. f = g
  BY <1>2
<1> HIDE DEF f
<1> QED
  BY <1>3 DEF IsTable

(* ... and what satisfies the recurrence holds the least costs. *)
LEMMA TableLeast ==
  ASSUME NEW a, NEW b, NEW n \in Nat, NEW k \in Nat, NEW f, IsTable(f, a, b, n, k)
  PROVE  \A i \in 0..n, j \in 0..k : Least(a, b, 0, 0, i, j, f[<<i, j>>])
<1> DEFINE S == {m \in Nat : \A i \in 0..n, j \in 0..k :
                              i + j <= m => Least(a, b, 0, 0, i, j, f[<<i, j>>])}
<1>1. ASSUME NEW i \in 0..n, NEW j \in 0..k
      PROVE  f[<<i, j>>] = IF i = 0 \/ j = 0 THEN i + j
                           ELSE IF a[i] = b[j] THEN f[<<i - 1, j - 1>>]
                           ELSE 1 + Min2(f[<<i - 1, j>>], f[<<i, j - 1>>])
  <2>1. <<i, j>> \in (0..n) \X (0..k) /\ <<i, j>>[1] = i /\ <<i, j>>[2] = j
    OBVIOUS
  <2> QED
    BY <2>1 DEF IsTable
<1>2. 0 \in S
  <2> SUFFICES ASSUME NEW i \in 0..n, NEW j \in 0..k, i + j <= 0
               PROVE  Least(a, b, 0, 0, i, j, f[<<i, j>>])
    OBVIOUS
  <2>1. i = 0 /\ i \in Nat /\ j \in Nat
    OBVIOUS
  <2>2. f[<<i, j>>] = i + j
    BY <1>1, <2>1
  <2>3. Least(a, b, 0, 0, i, j, i + j)
    BY <2>1, LeastStep
  <2> QED
    BY <2>2, <2>3
<1>3. ASSUME NEW m \in Nat, m \in S PROVE m + 1 \in S
  <2>0. m + 1 \in Nat
    OBVIOUS
  <2> SUFFICES ASSUME NEW i \in 0..n, NEW j \in 0..k, i + j <= m + 1
               PROVE  Least(a, b, 0, 0, i, j, f[<<i, j>>])
    BY <2>0
  <2>1. ASSUME NEW g \in 0..n, NEW h \in 0..k, g + h <= m PROVE Least(a, b, 0, 0, g, h, f[<<g, h>>])
    BY <1>3, <2>1
  <2>2. i \in Nat /\ j \in Nat
    OBVIOUS
  <2> HIDE DEF S, Min2
  <2>3. CASE i = 0 \/ j = 0
    BY <1>1, <2>2, <2>3, LeastStep
  <2>4. CASE i # 0 /\ j # 0
    <3>1. i - 1 \in 0..n /\ j - 1 \in 0..k /\ (i - 1) + (j - 1) <= m /\ (i - 1) + j <= m /\ i + (j - 1) <= m
      BY <2>4
    <3>2. CASE a[i] = b[j]
      <4>1. Least(a, b, 0, 0, i - 1, j - 1, f[<<i - 1, j - 1>>])
        BY <2>1, <3>1
      <4>2. Least(a, b, 0, 0, i, j, f[<<i - 1, j - 1>>])
        BY <2>2, <2>4, <3>2, <4>1, LeastStep
      <4> QED
        BY <1>1, <2>4, <3>2, <4>2
    <3>3. CASE a[i] # b[j]
      <4>1. Least(a, b, 0, 0, i - 1, j, f[<<i - 1, j>>]) /\ Least(a, b, 0, 0, i, j - 1, f[<<i, j - 1>>])
        BY <2>1, <3>1
      <4>2. Least(a, b, 0, 0, i, j, 1 + Min2(f[<<i - 1, j>>], f[<<i, j - 1>>]))
        BY <2>2, <2>4, <3>3, <4>1, LeastStep
      <4> QED
        BY <1>1, <2>4, <3>3, <4>2
    <3> QED
      BY <3>2, <3>3
  <2> QED
    BY <2>3, <2>4
<1>4. Nat \subseteq S
  <2> HIDE DEF S
  <2> QED
    BY <1>2, <1>3, NatSetInduction
<1>5. ASSUME NEW i \in 0..n, NEW j \in 0..k PROVE Least(a, b, 0, 0, i, j, f[<<i, j>>])
  <2>1. i + j \in Nat /\ i + j <= i + j
    OBVIOUS
  <2>2. i + j \in S
    <3> HIDE DEF S
    <3> QED
      BY <1>4, <2>1
  <2> QED
    BY <2>1, <2>2
<1> QED
  BY <1>5

(* So EditDistance, however it is computed, is the least cost. *)
LEMMA EditDistanceLeast ==
  ASSUME NEW a, NEW b, Len(a) \in Nat, Len(b) \in Nat
  PROVE  Least(a, b, 0, 0, Len(a), Len(b), EditDistance(a, b))
<1>1. \E f : IsTable(f, a, b, Len(a), Len(b))
  BY TableExists
<1>2. PICK f : IsTable(f, a, b, Len(a), Len(b)) /\ EditDistance(a, b) = f[<<Len(a), Len(b)>>]
  BY <1>1 DEF IsTable, EditDistance
<1> QED
  BY <1>2, TableLeast

(* The distance of two slices, where they stand in their texts. *)
LEMMA SliceDistance ==
  ASSUME NEW T, NEW a \in Seq(T), NEW b \in Seq(T),
         NEW x \in Nat, NEW y \in Nat, NEW u \in 0..Len(a), NEW v \in 0..Len(b), x <= u, y <= v
  PROVE  Least(a, b, x, y, u, v, EditDistance(SubSeq(a, x + 1, u), SubSeq(b, y + 1, v)))
<1> DEFINE r == SubSeq(a, x + 1, u)
           s == SubSeq(b, y + 1, v)
           n == u - x
           k == v - y
           c == EditDistance(r, s)
<1>1. /\ Len(r) = n /\ \A i \in 1..n : r[i] = a[x + i]
      /\ Len(s) = k /\ \A i \in 1..k : s[i] = b[y + i]
      /\ n \in Nat /\ k \in Nat /\ x + n = u /\ y + k = v
  OBVIOUS
<1> HIDE DEF r, s, n, k
<1>2. Least(r, s, 0, 0, n, k, c)
  BY <1>1, EditDistanceLeast
<1> HIDE DEF c
<1>3. ASSUME NEW e \in Int, Within(r, s, 0, 0, n, k, e) PROVE Within(a, b, x, y, u, v, e)
  <2>1. /\ SameFrom(r, 0, a, x, n) /\ SameFrom(s, 0, b, y, k)
        /\ 0 + n = n /\ 0 + k = k /\ 0 \in Nat
    BY <1>1 DEF SameFrom
  <2>2. Within(r, s, 0, 0, 0 + n, 0 + k, e)
    BY <1>3, <2>1
  <2>3. Within(a, b, x, y, x + n, y + k, e)
    BY <1>1, <2>1, <2>2, WithinShift
  <2> QED
    BY <1>1, <2>3
<1>4. ASSUME NEW e \in Int, Within(a, b, x, y, u, v, e) PROVE Within(r, s, 0, 0, n, k, e)
  <2>1. /\ SameFrom(a, x, r, 0, n) /\ SameFrom(b, y, s, 0, k)
        /\ 0 + n = n /\ 0 + k = k /\ 0 \in Nat
    BY <1>1 DEF SameFrom
  <2>2. Within(a, b, x, y, x + n, y + k, e)
    BY <1>1, <1>4
  <2>3. Within(r, s, 0, 0, 0 + n, 0 + k, e)
    BY <1>1, <2>1, <2>2, WithinShift
  <2> QED
    BY <2>1, <2>3
<1>5. c \in Nat /\ c \in Int
  BY <1>2 DEF Least
<1>6. Least(a, b, x, y, u, v, c)
  BY <1>2, <1>3, <1>4, <1>5 DEF Least
<1> QED
  BY <1>6 DEF c, r, s

=============================================================================
