------------------------- MODULE ShortestEditScript -------------------------
(***************************************************************************)
(* What a diff promises, with no algorithm: an edit script that turns old  *)
(* into new appears one item at a time, from the front of both texts, and  *)
(* every prefix of it can still be completed to a script of minimal cost.  *)
(***************************************************************************)
EXTENDS Alignments

CONSTANTS Symbol, Inputs    \* the <<old, new>> pairs of sequences of symbols

VARIABLES old, new, script

svars == <<old, new, script>>

(* Where a script has got to in each text. *)
OldPos(s) == OldUpTo(s, Len(s))
NewPos(s) == NewUpTo(s, Len(s))

Init ==
  /\ <<old, new>> \in Inputs
  /\ script = <<>>

(* The non-empty items that can come next. *)
Items ==
  LET o(l) == MkRange(OldPos(script), l)
      n(l) == MkRange(NewPos(script), l)
      left1 == 1..(Len(old) - OldPos(script))
      left2 == 1..(Len(new) - NewPos(script))
  IN  {Delete(o(l)) : l \in left1}
      \cup {Insert(n(l)) : l \in left2}
      \cup {Equal(o(l), n(l)) : l \in left1 \cap left2}

(* The cost so far plus the distance still to go is the edit distance. *)
OnShortestPath(s) ==
  Cost(s) + EditDistance(SubSeq(old, OldPos(s) + 1, Len(old)),
                         SubSeq(new, NewPos(s) + 1, Len(new)))
    = EditDistance(old, new)

Emit ==
  /\ \E item \in Items :
       /\ script' = Append(script, item)
       /\ EquatesEqual(<<item>>, old, new)
       /\ OnShortestPath(Append(script, item))
  /\ UNCHANGED <<old, new>>

(* What a script may do; that it ends up complete is its fairness. *)
Safety == Init /\ [][Emit]_svars
Spec == Safety /\ WF_svars(Emit)

=============================================================================
