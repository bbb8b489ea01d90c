----------------------------- MODULE MCDiffSlice -----------------------------
(***************************************************************************)
(* DiffSlice on every classified pair of short texts, and Compact also on  *)
(* every alignment of still shorter ones in at most MaxItems items.  An    *)
(* Equal may be empty there: DiffRange::to_str shrinks an Equal to         *)
(* character boundaries, possibly to nothing, before compact() runs.       *)
(***************************************************************************)
EXTENDS DiffSlice, SmallTexts

CONSTANT MaxOld, MaxNew, MaxGiven, GivenSymbol, MaxItems

MCInputs == ClassifiedPairs(Symbol, MaxOld, MaxNew)

GivenTexts == ClassifiedPairs(GivenSymbol, MaxGiven, MaxGiven)
MCSolutions ==
  [pair \in MCInputs |-> IF pair \in GivenTexts
                         THEN AlignmentsFrom(pair[1], pair[2], 0, 0, MaxItems) ELSE {}]

=============================================================================
