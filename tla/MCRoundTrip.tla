----------------------------- MODULE MCRoundTrip -----------------------------
(***************************************************************************)
(* RoundTrip on every solution that diff_slice may return for short texts: *)
(* every diff of the two, of which ReturnsDiff says in MCDiffSlice that it *)
(* returns nothing else.  apply() also runs on every short base and every  *)
(* patch of at most two short hunks that the parser accepts, whether or    *)
(* not they were made for that base.                                       *)
(***************************************************************************)
EXTENDS RoundTrip, SmallTexts

CONSTANT MaxOld, MaxNew, MaxItems, MaxBase, MaxLines, Starts

MCInputs == ClassifiedPairs(Symbol, MaxOld, MaxNew)
MCSolutions == [pair \in MCInputs |-> DiffsOf(pair[1], pair[2], MaxItems)]

MCBases == BoundedSeq(Symbol, MaxBase)

HunkLines == BoundedSeq([kind : LineKinds, line : Symbol], MaxLines) \ {<<>>}

(* Hunks as the parser returns them: the ranges count the lines. *)
HunkSet ==
  {[old |-> [start |-> s1, len |-> OldCount(lines)],
    new |-> [start |-> s2, len |-> NewCount(lines)],
    lines |-> lines] : s1 \in Starts, s2 \in Starts, lines \in HunkLines}

MCPatches ==
  {<<h>> : h \in HunkSet} \cup {p \in HunkSet \X HunkSet : HunksInOrder(p)}

=============================================================================
