------------------------------ MODULE MyersDiff ------------------------------
(***************************************************************************)
(* diff/myers.rs: the divide-and-conquer O(ND) diff.  conquer() recurses;  *)
(* here its pending work is an explicit stack of tasks, topmost first:     *)
(*   conquer : a call of conquer() on a box (an old and a new range),      *)
(*   search  : that call's find_middle_snake() and the two calls it makes, *)
(*   push    : one solution.push(..).                                      *)
(* find_middle_snake() runs one (d, k) iteration per step, on the two V    *)
(* arrays that every search of one diff() shares and none of them clears.  *)
(* A Rust panic is a state without successor that is not "done".           *)
(***************************************************************************)
EXTENDS Texts

VARIABLES
  phase,      \* "conquer", "forward", "backward" or "done"
  stack,      \* pending tasks
  solution,   \* the DiffRanges found so far
  vf, vb,     \* furthest x per diagonal, forward and backward
  box,        \* the old and new range find_middle_snake() works on
  d, k        \* its loop counters

vars == <<old, new, phase, stack, solution, vf, vb, box, d, k>>
searchVars == <<vf, vb, box, d, k>>

-----------------------------------------------------------------------------
(* V: a Vec of 2 * max_d cells indexed by the diagonals from -max_d. *)

(* Mutated MaxD. *)
MaxDWithoutSpare(len1, len2) == (len1 + len2 + 1) \div 2

MaxD(len1, len2) == (len1 + len2 + 1) \div 2 + 1

Diagonals == LET m == MaxD(Len(old), Len(new)) IN -m .. m - 1
NewV == [i \in Diagonals |-> 0]

(* Mutated Plant. *)
PlantNothing(v) == v

(* The start of a search plants 0 in diagonal 1 and leaves the rest as is. *)
Plant(v) == [v EXCEPT ![1] = 0]

-----------------------------------------------------------------------------
(* Tasks *)

ConquerTask(o, n) == [op |-> "conquer", item |-> Equal(o, n)]
SearchTask(o, n)  == [op |-> "search",  item |-> Equal(o, n)]
PushTask(item)    == [op |-> "push",    item |-> item]

PushUnlessEmpty(item) == IF IsEmpty(item) THEN <<>> ELSE <<PushTask(item)>>

PrefixLen(o, n) == CommonPrefixLen(old, o, new, n)
SuffixLen(o, n) == CommonSuffixLen(old, o, new, n)

(* What is left of a box whose common prefix and suffix have been taken off. *)
Middle(o, n) ==
  IF o.len = 0 /\ n.len = 0 THEN <<>>
  ELSE IF o.len = 0 THEN <<PushTask(Insert(n))>>
  ELSE IF n.len = 0 THEN <<PushTask(Delete(o))>>
  ELSE <<SearchTask(o, n)>>

(* Mutated ConquerTasks. *)
SuffixOfWholeBox(o, n) ==
  LET p == PrefixLen(o, n)
      s == SuffixLen(o, n)
  IN  PushUnlessEmpty(Equal(SliceTo(o, p), SliceTo(n, p)))
      \o Middle(MkRange(o.offset + p, o.len - p - s), MkRange(n.offset + p, n.len - p - s))
      \o PushUnlessEmpty(Equal(SliceBack(o, s), SliceBack(n, s)))
SuffixBeforeMiddle(o, n) ==
  LET p  == PrefixLen(o, n)
      o1 == SliceFrom(o, p)
      n1 == SliceFrom(n, p)
      s  == SuffixLen(o1, n1)
  IN  PushUnlessEmpty(Equal(SliceTo(o, p), SliceTo(n, p)))
      \o PushUnlessEmpty(Equal(SliceBack(o1, s), SliceBack(n1, s)))
      \o Middle(SliceTo(o1, o1.len - s), SliceTo(n1, n1.len - s))

(* One call of conquer(): the prefix, the middle, then the suffix. *)
ConquerTasks(o, n) ==
  LET p  == PrefixLen(o, n)
      o1 == SliceFrom(o, p)
      n1 == SliceFrom(n, p)
      s  == SuffixLen(o1, n1)
  IN  PushUnlessEmpty(Equal(SliceTo(o, p), SliceTo(n, p)))
      \o Middle(SliceTo(o1, o1.len - s), SliceTo(n1, n1.len - s))
      \o PushUnlessEmpty(Equal(SliceBack(o1, s), SliceBack(n1, s)))

-----------------------------------------------------------------------------
(* The state of a search *)

OldBox == box.old.len
NewBox == box.new.len
Delta == OldBox - NewBox
Odd == Delta % 2 = 1
AbsDelta == Max2(k - Delta, Delta - k)    \* |k - delta|

(* Mutated XStart. *)
XStartGreedy(v) == IF k = -d THEN v[k + 1] ELSE v[k - 1] + 1

(* The furthest x that d edits reach on diagonal k before any snake. *)
XStart(v) ==
  IF k = -d \/ (k # d /\ v[k - 1] < v[k + 1]) THEN v[k + 1] ELSE v[k - 1] + 1

(* old.get(x..) and new.get(y..) are None outside the box, where nothing is *)
(* compared; a negative y wraps around to a huge usize.                     *)
ForwardSnake(x, y) ==
  IF x <= OldBox /\ y \in 0..NewBox
  THEN PrefixLen(SliceFrom(box.old, x), SliceFrom(box.new, y))
  ELSE 0

BackwardSnake(x, y) ==
  IF x < OldBox /\ y >= 0 /\ y < NewBox
  THEN SuffixLen(SliceTo(box.old, OldBox - x), SliceTo(box.new, NewBox - y))
  ELSE 0

(* Mutated ForwardMeets. *)
MeetsBeyond(x) == Odd /\ AbsDelta <= d - 1 /\ x + vb[Delta - k] > OldBox

(* Do the forward and the backward path overlap on this diagonal? *)
ForwardMeets(x) == Odd /\ AbsDelta <= d - 1 /\ x + vb[Delta - k] >= OldBox
BackwardMeets(x) == ~Odd /\ AbsDelta <= d /\ x + vf[Delta - k] >= OldBox

-----------------------------------------------------------------------------

Init ==
  /\ \E pair \in Inputs : old = pair[1] /\ new = pair[2]
  /\ phase = "conquer"
  /\ stack = <<ConquerTask(MkRange(0, Len(old)), MkRange(0, Len(new)))>>
  /\ solution = <<>>
  /\ vf = NewV /\ vb = NewV
  /\ box = [old |-> EmptyRange, new |-> EmptyRange]
  /\ d = 0 /\ k = 0

Top(op) == phase = "conquer" /\ stack # <<>> /\ Head(stack).op = op

ConquerBox ==
  /\ Top("conquer")
  /\ LET call == Head(stack).item
     IN  stack' = ConquerTasks(call.old, call.new) \o Tail(stack)
  /\ UNCHANGED <<texts, phase, solution, searchVars>>

Push ==
  /\ Top("push")
  /\ solution' = Append(solution, Head(stack).item)
  /\ stack' = Tail(stack)
  /\ UNCHANGED <<texts, phase, searchVars>>

StartSearch ==
  /\ Top("search")
  /\ box' = [old |-> Head(stack).item.old, new |-> Head(stack).item.new]
  /\ stack' = Tail(stack)
  /\ vf' = Plant(vf)
  /\ vb' = Plant(vb)
  /\ d' = 0 /\ k' = 0
  /\ phase' = "forward"
  /\ UNCHANGED <<texts, solution>>

(* The snake starts at (x, y): split_at panics unless that is in the box. *)
SplitAt(x, y) ==
  /\ x \in 0..OldBox
  /\ y \in 0..NewBox
  /\ stack' = <<ConquerTask(SliceTo(box.old, x), SliceTo(box.new, y)),
                ConquerTask(SliceFrom(box.old, x), SliceFrom(box.new, y))>> \o stack
  /\ phase' = "conquer"
  /\ UNCHANGED <<d, k>>

(* `for k in (-d..=d).rev().step_by(2)`; after it the other direction, then *)
(* the next d.  Running out of d is the unreachable!().                     *)
NextForward ==
  /\ UNCHANGED d
  /\ IF k = -d THEN phase' = "backward" /\ k' = d
     ELSE phase' = phase /\ k' = k - 2

(* Mutated NextBackward. *)
NextBackwardSameD ==
  IF k = -d THEN phase' = "forward" /\ d' = d /\ k' = d
  ELSE phase' = phase /\ d' = d /\ k' = k - 2

NextBackward ==
  IF k = -d THEN phase' = "forward" /\ d' = d + 1 /\ k' = d + 1
  ELSE phase' = phase /\ d' = d /\ k' = k - 2

Searching(direction) == phase = direction /\ d < MaxD(OldBox, NewBox)

Forward ==
  /\ Searching("forward")
  /\ LET x0 == XStart(vf)
         x  == x0 + ForwardSnake(x0, x0 - k)
     IN  /\ vf' = [vf EXCEPT ![k] = x]
         /\ IF ForwardMeets(x) THEN SplitAt(x0, x0 - k)
            ELSE NextForward /\ UNCHANGED stack
  /\ UNCHANGED <<texts, solution, vb, box>>

Backward ==
  /\ Searching("backward")
  /\ LET x0 == XStart(vb)
         x  == x0 + BackwardSnake(x0, x0 - k)
     IN  /\ vb' = [vb EXCEPT ![k] = x]
         /\ IF BackwardMeets(x) THEN SplitAt(OldBox - x, NewBox - (x - k))
            ELSE NextBackward /\ UNCHANGED stack
  /\ UNCHANGED <<texts, solution, vf, box>>

Return ==
  /\ phase = "conquer" /\ stack = <<>>
  /\ phase' = "done"
  /\ UNCHANGED <<texts, stack, solution, searchVars>>

Next == ConquerBox \/ Push \/ StartSearch \/ Forward \/ Backward \/ Return

Spec == Init /\ [][Next]_vars /\ WF_vars(Next)

-----------------------------------------------------------------------------
(* Properties *)

Task == [op : {"conquer", "search", "push"}, item : DiffRange]

TypeOK ==
  /\ old \in Seq(Symbol) /\ new \in Seq(Symbol)
  /\ phase \in {"conquer", "forward", "backward", "done"}
  /\ stack \in Seq(Task)
  /\ solution \in Seq(DiffRange)
  /\ vf \in [Diagonals -> Nat] /\ vb \in [Diagonals -> Nat]
  /\ box \in [old : Ranges, new : Ranges]
  /\ d \in Nat /\ k \in Int

(***************************************************************************)
(* No step indexes a V array outside its 2 * max_d cells, although the     *)
(* arrays are sized once for the whole texts and serve every sub-box, and  *)
(* the loops also visit the diagonals next to the ones of this d.          *)
(***************************************************************************)
CellsTouched ==
  {k} \cup (IF k = -d THEN {k + 1} ELSE IF k = d THEN {k - 1} ELSE {k - 1, k + 1})
      \cup (IF phase = "forward" /\ Odd /\ AbsDelta <= d - 1 THEN {Delta - k} ELSE {})
      \cup (IF phase = "backward" /\ ~Odd /\ AbsDelta <= d THEN {Delta - k} ELSE {})

VIndexInBounds ==
  /\ Top("search") => 1 \in Diagonals
  /\ phase \in {"forward", "backward"} /\ d < MaxD(OldBox, NewBox)
       => CellsTouched \subseteq Diagonals

(***************************************************************************)
(* What has been pushed and what is still on the stack always cover both   *)
(* texts exactly, in order: no box is lost, searched twice or reordered by *)
(* the recursion.                                                          *)
(***************************************************************************)
Outstanding ==
  (IF phase \in {"forward", "backward"} THEN <<Equal(box.old, box.new)>> ELSE <<>>)
  \o [i \in DOMAIN stack |-> stack[i].item]

Partition ==
  LET all == solution \o Outstanding
  IN  Contiguous(all, old, new) /\ Covers(all, old, new)

(***************************************************************************)
(* The comment on V: V[k] holds the furthest x that a d-path reaches on    *)
(* diagonal k.  It holds for every cell this search has written, whatever  *)
(* earlier searches left in the arrays: a cell that lies in the box is the *)
(* furthest point of its diagonal within reach, and one that does not is   *)
(* beyond all of them.  Level(dir, j) is the d that last wrote cell j.     *)
(***************************************************************************)
Level(dir, j) ==
  IF (d - j) % 2 # 0 THEN d - 1
  ELSE IF phase = dir THEN (IF j > k THEN d ELSE d - 2)
  ELSE IF dir = "forward" THEN d ELSE d - 2

InBox(x, y) == x \in 0..OldBox /\ y \in 0..NewBox

Reachable(a, b, e, j) ==
  {x \in 0..OldBox : /\ x - j \in 0..NewBox
                     /\ EditDistance(SubSeq(a, 1, x), SubSeq(b, 1, x - j)) <= e}

IsFurthest(a, b, v, dir) ==
  \A j \in -d..d :
    LET e == Level(dir, j)
        reach == Reachable(a, b, e, j)
    IN  Max2(j, -j) <= e => /\ \A x \in reach : x <= v[j]
                            /\ InBox(v[j], v[j] - j) => v[j] \in reach

Reversed(s) == [i \in DOMAIN s |-> s[Len(s) + 1 - i]]

FurthestReaching ==
  phase \in {"forward", "backward"} =>
    LET a == AsSlice(old, box.old)
        b == AsSlice(new, box.new)
    IN  /\ IsFurthest(a, b, vf, "forward")
        /\ IsFurthest(Reversed(a), Reversed(b), vb, "backward")

(***************************************************************************)
(* What diff() promises: it emits, range by range, the items of one        *)
(* shortest edit script from old to new.  (That it emits all of it follows *)
(* from Partition, once it is done.)                                       *)
(***************************************************************************)
Script == INSTANCE ShortestEditScript WITH script <- solution
EmitsShortestScript == Script!Safety

=============================================================================
