------------------------------ MODULE SmallTexts ------------------------------
(***************************************************************************)
(* The inputs of the model-checking modules: short texts over a few line   *)
(* ids.  utils::Classifier numbers lines from the front in the order in    *)
(* which they first appear, across all the texts it is given in turn, so   *)
(* only texts numbered that way are states of the program; every other     *)
(* choice of ids is a renaming of one of them.                             *)
(***************************************************************************)
EXTENDS Alignments, SequencesExt

(* Each line id is at most one above the ids before it. *)
Classified(ids) ==
  \A i \in DOMAIN ids : ids[i] <= 1 + Cardinality({ids[j] : j \in 1..(i - 1)})

ClassifiedPairs(S, max1, max2) ==
  {pair \in BoundedSeq(S, max1) \X BoundedSeq(S, max2) :
     Classified(pair[1] \o pair[2])}

(* The ways to align old from position i with new from position j in at    *)
(* most n items of any length; an Equal may also be empty.                 *)
RECURSIVE AlignmentsFrom(_, _, _, _, _)
AlignmentsFrom(old, new, i, j, n) ==
  LET left1 == Len(old) - i
      left2 == Len(new) - j
      same == {l \in 0..Min2(left1, left2) : \A x \in 1..l : old[i + x] = new[j + x]}
      rest(diff, a, b) ==
        {<<diff>> \o tail : tail \in AlignmentsFrom(old, new, i + a, j + b, n - 1)}
  IN  (IF left1 = 0 /\ left2 = 0 THEN {<<>>} ELSE {})
      \cup (IF n = 0 THEN {}
            ELSE UNION ({rest(Delete(MkRange(i, l)), l, 0) : l \in 1..left1}
                        \cup {rest(Insert(MkRange(j, l)), 0, l) : l \in 1..left2}
                        \cup {rest(Equal(MkRange(i, l), MkRange(j, l)), l, l) : l \in same}))

(***************************************************************************)
(* What diff_slice may return for a pair of texts, in at most n items: the *)
(* lists that satisfy IsDiff, built along the shortest paths only.  budget *)
(* is the cost still to be spent, last the kind of the item before.        *)
(***************************************************************************)
RECURSIVE DiffsFrom(_, _, _, _, _, _, _)
DiffsFrom(old, new, i, j, n, budget, last) ==
  LET left1 == Len(old) - i
      left2 == Len(new) - j
      same == {l \in 1..Min2(left1, left2) : \A x \in 1..l : old[i + x] = new[j + x]}
      onPath(a, b, cost) ==
        EditDistance(SubSeq(old, i + a + 1, Len(old)), SubSeq(new, j + b + 1, Len(new)))
          = budget - cost
      rest(diff, a, b, cost) ==
        IF n > 0 /\ onPath(a, b, cost)
        THEN {<<diff>> \o tail :
                tail \in DiffsFrom(old, new, i + a, j + b, n - 1, budget - cost, diff.kind)}
        ELSE {}
  IN  IF left1 = 0 /\ left2 = 0 THEN {<<>>}
      ELSE UNION (
        (IF last = "Delete" THEN {}
         ELSE {rest(Delete(MkRange(i, l)), l, 0, l) : l \in 1..left1})
        \cup
        (IF last = "Insert" THEN {}
         ELSE {rest(Insert(MkRange(j, l)), 0, l, l) : l \in 1..left2})
        \cup
        {rest(Equal(MkRange(i, l), MkRange(j, l)), l, l, 0) : l \in same})

DiffsOf(old, new, n) == DiffsFrom(old, new, 0, 0, n, EditDistance(old, new), "Equal")

=============================================================================
