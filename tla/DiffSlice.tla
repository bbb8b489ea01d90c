----------------------------- MODULE DiffSlice -----------------------------
(***************************************************************************)
(* diff/mod.rs: DiffOptions::diff_slice() runs myers::diff and then, in    *)
(* place on its result, cleanup::compact.  create_patch and merge get      *)
(* every solution they work on from here.  Composes MyersDiff and Compact, *)
(* which takes the solution over as `diffs`; compact may also be called on *)
(* any other alignment, as it is on the ranges that to_str has moved to    *)
(* character boundaries.                                                   *)
(***************************************************************************)
EXTENDS MyersDiff, Compact

VARIABLE given   \* history: has compact been called on another alignment
                 \* than diff()'s?

compactVars == <<diffs, pass, mode, pointer>>
dvars == <<vars, compactVars, given>>

DSInit ==
  /\ Init
  /\ \/ /\ mode = "idle" /\ diffs = <<>> /\ pass = "Delete" /\ pointer = 1
        /\ given = FALSE
     \/ CompactInit /\ given = TRUE

Search ==
  /\ mode = "idle" /\ Next
  /\ UNCHANGED <<compactVars, given>>

StartCompact ==
  /\ phase = "done" /\ mode = "idle"
  /\ mode' = "scan" /\ diffs' = solution
  /\ UNCHANGED <<vars, pass, pointer, given>>

CompactStep ==
  /\ mode # "idle" /\ CompactNext
  /\ UNCHANGED <<phase, stack, solution, vf, vb, box, d, k, given>>

DSNext == Search \/ StartCompact \/ CompactStep

DSSpec == DSInit /\ [][DSNext]_dvars /\ WF_dvars(DSNext)

-----------------------------------------------------------------------------
(* Properties *)

(***************************************************************************)
(* The promise that create_patch and merge rely on: what diff_slice        *)
(* returns aligns the two texts at minimal cost, although compaction has   *)
(* moved, split and merged items, and has no item that is empty and no     *)
(* edit that should have been merged with the one before it.               *)
(***************************************************************************)
ReturnsDiff == mode = "done" /\ ~given => IsDiff(diffs, old, new)

(***************************************************************************)
(* It does return, and never panics: every search meets before it runs out *)
(* of diagonals, its middle snake splits off a smaller box, and however    *)
(* edits are shifted up and down again, the passes get past them.          *)
(***************************************************************************)
Termination == <>(mode = "done")

=============================================================================
