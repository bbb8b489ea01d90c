------------------------------- MODULE MCMerge -------------------------------
(***************************************************************************)
(* Merge on every triple of short texts and every two diffs of at most     *)
(* MaxItems items that diff_slice may return for them (DiffSlice's run     *)
(* shows that it returns no others).  The classifier numbers the lines of  *)
(* the ancestor first, then ours, then theirs.                             *)
(***************************************************************************)
EXTENDS Merge, SmallTexts

CONSTANT MaxAncestor, MaxOurs, MaxTheirs, MaxItems

MCInputs ==
  {t \in BoundedSeq(Symbol, MaxAncestor) \X BoundedSeq(Symbol, MaxOurs)
           \X BoundedSeq(Symbol, MaxTheirs) : Classified(t[1] \o t[2] \o t[3])}

MCPairs ==
  {<<t[1], t[2]>> : t \in MCInputs} \cup {<<t[1], t[3]>> : t \in MCInputs}

MCSolutions == [pair \in MCPairs |-> DiffsOf(pair[1], pair[2], MaxItems)]

=============================================================================
