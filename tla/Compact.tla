------------------------------ MODULE Compact ------------------------------
(***************************************************************************)
(* diff/cleanup.rs: compact() makes one pass over the Deletes of a         *)
(* solution and one over its Inserts.  Each edit is shifted up and then    *)
(* down as far as it goes: through equal text, across an edit of the other *)
(* kind, and into an edit of its own kind, with which it merges.  One step *)
(* is one iteration of a while loop.  The pointer counts from 1.           *)
(***************************************************************************)
EXTENDS Texts

CONSTANT
  Solutions   \* for each of the Inputs the lists of DiffRanges to compact

ASSUME SolutionsAssumption ==
  \A pair \in Inputs : \A ds \in Solutions[pair] :
    ds \in Seq(DiffRange) /\ Aligns(ds, pair[1], pair[2])

VARIABLES
  diffs,      \* the solution, edited in place
  pass,       \* the kind of edit this pass moves: "Delete", then "Insert"
  mode,       \* "idle" until compact is called, "scan" (compact), "up" or
              \* "down" (shift_diff_*), "done"
  pointer

cvars == <<texts, diffs, pass, mode, pointer>>

-----------------------------------------------------------------------------

Has(i) == i \in DOMAIN diffs
HasEqual(i) == Has(i) /\ ~IsEdit(diffs[i])
This == diffs[pointer]
OtherKind == IF This.kind = "Insert" THEN "Delete" ELSE "Insert"
Upto(i) == SubSeq(diffs, 1, i)
From(i) == SubSeq(diffs, i, Len(diffs))

UnlessEmpty(diff) == IF IsEmpty(diff) THEN <<>> ELSE <<diff>>

(* An Insert moves through the old side of an Equal, a Delete through the  *)
(* new side: how much text at the facing ends is the same?                 *)
UpLen(this, prev) ==
  IF this.kind = "Insert" THEN CommonSuffixLen(new, this.new, old, prev.old)
                          ELSE CommonSuffixLen(old, this.old, new, prev.new)
DownLen(this, next) ==
  IF this.kind = "Insert" THEN CommonPrefixLen(new, this.new, old, next.old)
                          ELSE CommonPrefixLen(old, this.old, new, next.new)

(* The Equal that a shifted edit leaves behind if none is there to grow. *)
LeftBelow(this, prev, len) ==
  IF this.kind = "Insert" THEN Equal(SliceBack(prev.old, len), SliceBack(this.new, len))
                          ELSE Equal(SliceBack(this.old, len), SliceBack(prev.new, len))
LeftAbove(this, next, len) ==
  IF this.kind = "Insert" THEN Equal(SliceTo(next.old, len), SliceTo(this.new, len))
                          ELSE Equal(SliceTo(this.old, len), SliceTo(next.new, len))

Up(diff, len)   == ForEach(diff, LAMBDA r : ShiftUp(r, len))
Down(diff, len) == ForEach(diff, LAMBDA r : ShiftDown(r, len))
GrownUp(diff, len)   == ForEach(diff, LAMBDA r : GrowUp(r, len))
GrownDown(diff, len) == ForEach(diff, LAMBDA r : GrowDown(r, len))
ShrunkBack(diff, len)  == ForEach(diff, LAMBDA r : ShrinkBack(r, len))
ShrunkFront(diff, len) == ForEach(diff, LAMBDA r : ShrinkFront(r, len))

(* Mutated GrownBelow. *)
GrownBelowDown(len) ==
  IF HasEqual(pointer + 1) THEN <<GrownDown(diffs[pointer + 1], len)>> \o From(pointer + 2)
  ELSE <<LeftBelow(This, diffs[pointer - 1], len)>> \o From(pointer + 1)

(* What is below the edit at `pointer` once it has moved up by len, and    *)
(* what is above it once it has moved down.                                *)
GrownBelow(len) ==
  IF HasEqual(pointer + 1) THEN <<GrownUp(diffs[pointer + 1], len)>> \o From(pointer + 2)
  ELSE <<LeftBelow(This, diffs[pointer - 1], len)>> \o From(pointer + 1)
GrownAbove(len) ==
  IF HasEqual(pointer - 1) THEN Append(Upto(pointer - 2), GrownDown(diffs[pointer - 1], len))
  ELSE Append(Upto(pointer - 1), LeftAbove(This, diffs[pointer + 1], len))

-----------------------------------------------------------------------------

CompactInit ==
  /\ diffs \in Solutions[<<old, new>>]
  /\ pass = "Delete" /\ mode = "scan" /\ pointer = 1

Scan ==
  /\ mode = "scan" /\ Has(pointer)
  /\ IF This.kind = pass THEN mode' = "up" /\ UNCHANGED pointer
     ELSE pointer' = pointer + 1 /\ UNCHANGED mode
  /\ UNCHANGED <<texts, diffs, pass>>

(* Mutated EndOfPass. *)
EndOfPassAtZero ==
  /\ mode = "scan" /\ ~Has(pointer)
  /\ IF pass = "Delete" THEN pass' = "Insert" /\ pointer' = 0 /\ UNCHANGED mode
     ELSE mode' = "done" /\ UNCHANGED <<pass, pointer>>
  /\ UNCHANGED <<texts, diffs>>
EndOfOnlyPass ==
  /\ mode = "scan" /\ ~Has(pointer)
  /\ mode' = "done"
  /\ UNCHANGED <<texts, diffs, pass, pointer>>

EndOfPass ==
  /\ mode = "scan" /\ ~Has(pointer)
  /\ IF pass = "Delete" THEN pass' = "Insert" /\ pointer' = 1 /\ UNCHANGED mode
     ELSE mode' = "done" /\ UNCHANGED <<pass, pointer>>
  /\ UNCHANGED <<texts, diffs>>

(* shift_diff_up, one action per match arm *)

Above == diffs[pointer - 1]
GoingUp(kindOfPrev) ==
  /\ mode = "up" /\ Has(pointer - 1)
  /\ Above.kind = kindOfPrev /\ IsEdit(This)
  /\ UNCHANGED <<texts, pass, mode>>

ShiftUpThroughEqual ==
  LET len == UpLen(This, Above)
      rest == UnlessEmpty(ShrunkBack(Above, len))
  IN  /\ GoingUp("Equal") /\ len # 0
      /\ diffs' = Upto(pointer - 2) \o rest \o <<Up(This, len)>> \o GrownBelow(len)
      /\ pointer' = pointer - 1 + Len(rest)

DropEmptyAbove ==
  /\ GoingUp("Equal") /\ UpLen(This, Above) = 0 /\ IsEmpty(Above)
  /\ diffs' = Upto(pointer - 2) \o From(pointer)
  /\ pointer' = pointer - 1

(* Mutated SwapUp. *)
SwapUpKeepingPointer ==
  /\ GoingUp(OtherKind)
  /\ diffs' = Upto(pointer - 2) \o <<This, Above>> \o From(pointer + 1)
  /\ UNCHANGED pointer

SwapUp ==
  /\ GoingUp(OtherKind)
  /\ diffs' = Upto(pointer - 2) \o <<This, Above>> \o From(pointer + 1)
  /\ pointer' = pointer - 1

MergeUp ==
  /\ GoingUp(This.kind)
  /\ diffs' = Upto(pointer - 2) \o <<GrownDown(Above, LenOf(This))>> \o From(pointer + 1)
  /\ pointer' = pointer - 1

StopUp ==
  /\ mode = "up"
  /\ Has(pointer - 1) =>
       /\ HasEqual(pointer - 1) /\ UpLen(This, Above) = 0 /\ ~IsEmpty(Above)
  /\ mode' = "down"
  /\ UNCHANGED <<texts, diffs, pass, pointer>>

(* shift_diff_down, likewise *)

Below == diffs[pointer + 1]
GoingDown(kindOfNext) ==
  /\ mode = "down" /\ Has(pointer + 1)
  /\ Below.kind = kindOfNext /\ IsEdit(This)
  /\ UNCHANGED <<texts, pass, mode>>

ShiftDownThroughEqual ==
  LET len == DownLen(This, Below)
      rest == UnlessEmpty(ShrunkFront(Below, len))
      above == GrownAbove(len)
  IN  /\ GoingDown("Equal") /\ len # 0
      /\ diffs' = above \o <<Down(This, len)>> \o rest \o From(pointer + 2)
      /\ pointer' = Len(above) + 1

DropEmptyBelow ==
  /\ GoingDown("Equal") /\ DownLen(This, Below) = 0 /\ IsEmpty(Below)
  /\ diffs' = Upto(pointer) \o From(pointer + 2)
  /\ UNCHANGED pointer

SwapDown ==
  /\ GoingDown(OtherKind)
  /\ diffs' = Upto(pointer - 1) \o <<Below, This>> \o From(pointer + 2)
  /\ pointer' = pointer + 1

(* Mutated MergeDown. *)
MergeDownByOwnLen ==
  /\ GoingDown(This.kind)
  /\ diffs' = Upto(pointer - 1) \o <<GrownDown(This, LenOf(This))>> \o From(pointer + 2)
  /\ UNCHANGED pointer

MergeDown ==
  /\ GoingDown(This.kind)
  /\ diffs' = Upto(pointer - 1) \o <<GrownDown(This, LenOf(Below))>> \o From(pointer + 2)
  /\ UNCHANGED pointer

(* Mutated StopDown. *)
StopDownInPlace ==
  /\ mode = "down"
  /\ Has(pointer + 1) =>
       /\ HasEqual(pointer + 1) /\ DownLen(This, Below) = 0 /\ ~IsEmpty(Below)
  /\ mode' = "scan"
  /\ UNCHANGED <<texts, diffs, pass, pointer>>

StopDown ==
  /\ mode = "down"
  /\ Has(pointer + 1) =>
       /\ HasEqual(pointer + 1) /\ DownLen(This, Below) = 0 /\ ~IsEmpty(Below)
  /\ mode' = "scan" /\ pointer' = pointer + 1
  /\ UNCHANGED <<texts, diffs, pass>>

CompactNext ==
  \/ Scan \/ EndOfPass
  \/ ShiftUpThroughEqual \/ DropEmptyAbove \/ SwapUp \/ MergeUp \/ StopUp
  \/ ShiftDownThroughEqual \/ DropEmptyBelow \/ SwapDown \/ MergeDown \/ StopDown

-----------------------------------------------------------------------------
(* Properties *)

(***************************************************************************)
(* Types; and shift_diff_up and shift_diff_down follow the edit they were  *)
(* called for: the arm that panics on any other range is never reached.    *)
(***************************************************************************)
CompactTypeOK ==
  mode # "idle" =>
    /\ diffs \in Seq(DiffRange)
    /\ pass \in {"Delete", "Insert"}
    /\ mode \in {"scan", "up", "down", "done"}
    /\ pointer \in Nat \ {0}
    /\ mode \in {"up", "down"} => Has(pointer) /\ This.kind = pass

(***************************************************************************)
(* Whatever is shifted, swapped or merged, the list describes the same two *)
(* texts after every iteration.                                            *)
(***************************************************************************)
StaysAligned == mode # "idle" => Aligns(diffs, old, new)

(***************************************************************************)
(* Shifting never makes a script longer: what it merges or swaps costs as  *)
(* much as it did before.                                                  *)
(***************************************************************************)
KeepsCostStep == mode # "idle" => Cost(diffs') = Cost(diffs)
KeepsCost == [][KeepsCostStep]_cvars

(***************************************************************************)
(* The point of it: in the end a block of edits is one Delete, one Insert  *)
(* or one of each, and none of them can be shifted down any further, in    *)
(* whatever order the two passes met them.                                 *)
(***************************************************************************)
Settled ==
  mode = "done" => \A i \in DOMAIN diffs : IsEdit(diffs[i]) =>
    /\ Has(i + 1) => diffs[i + 1].kind # diffs[i].kind
    /\ Has(i + 2) /\ IsEdit(diffs[i + 1]) => ~IsEdit(diffs[i + 2])
    /\ HasEqual(i + 1) => DownLen(diffs[i], diffs[i + 1]) = 0

=============================================================================
