------------------------------- MODULE Merge -------------------------------
(***************************************************************************)
(* merge/mod.rs: the three-way merge.  merge_solutions() walks the diffs   *)
(* of ours and of theirs against the ancestor side by side;                *)
(* diff3_range_to_merge_range() gathers what lies between equal ranges;    *)
(* cleanup_conflicts() settles conflicts that are none; output_result()    *)
(* writes the text.  One step is one iteration of a loop.  The four stages *)
(* run one after the other.  Lists count from 1.                           *)
(***************************************************************************)
EXTENDS ThreeWayMerge

CONSTANTS
  Symbol,      \* line ids
  Inputs,      \* the <<ancestor, ours, theirs>> texts that are merged
  Solutions,   \* for each <<old, new>> pair what diff_slice may return
  Styles       \* the conflict styles: "Merge", "Diff3" or both

ASSUME MergeAssumption ==
  /\ Inputs \subseteq Seq(Symbol) \X Seq(Symbol) \X Seq(Symbol)
  /\ Styles \subseteq {"Merge", "Diff3"}
  /\ \A texts \in Inputs : \A side \in {2, 3} :
       \A ds \in Solutions[<<texts[1], texts[side]>>] :
         /\ ds \in Seq(DiffRange) /\ Aligns(ds, texts[1], texts[side])
         /\ \A i \in DOMAIN ds : ~IsEmpty(ds[i])

VARIABLES
  ancestor, ours, theirs,       \* the texts
  ourSolution, theirSolution,   \* the two diffs
  style,
  stage,                        \* "walk", "gather", "cleanup", "output" or "done"
  ourNext, theirNext,           \* how many items each iterator has handed out
  ourItem, theirItem,           \* Option: the rest of the last one, <<>> for None
  walk,                         \* the Diff3Ranges
  at,                           \* the next item of the list a stage goes through
  region,                       \* Option ranges gathered since the last Equal
  merged,                       \* the MergeRanges
  output, conflicts

inputs == <<ancestor, ours, theirs, ourSolution, theirSolution, style>>
walkVars == <<ourNext, theirNext, ourItem, theirItem, walk>>
mvars == <<inputs, stage, walkVars, at, region, merged, output, conflicts>>

-----------------------------------------------------------------------------
(* merge_solutions *)

(* A Diff3Range or MergeRange; the sides its kind does not have are empty. *)
Range3(kind, a, o, t) == [kind |-> kind, ancestor |-> a, ours |-> o, theirs |-> t]

Some(x) == <<x>>
None == <<>>
Is(item, kinds) == item # None /\ item[1].kind \in kinds

(* slice::iter().next() *)
NextOf(list, n) == IF n < Len(list) THEN Some(list[n + 1]) ELSE None

(* After an item has been used up the iterator hands out the next. *)
UsedUp(item) == item = None \/ IsEmpty(item[1])
Refill(item, list, n) == IF UsedUp(item) THEN NextOf(list, n) ELSE item
Count(item, list, n) == IF UsedUp(item) THEN Min2(n + 1, Len(list)) ELSE n

ShrunkFront(diff, len) == ForEach(diff, LAMBDA r : ShrinkFront(r, len))

Consume(newOurs, newTheirs, range) ==
  /\ walk' = Append(walk, range)
  /\ ourItem' = Refill(newOurs, ourSolution, ourNext)
  /\ ourNext' = Count(newOurs, ourSolution, ourNext)
  /\ theirItem' = Refill(newTheirs, theirSolution, theirNext)
  /\ theirNext' = Count(newTheirs, theirSolution, theirNext)

(* What a stretch of the ancestor is, given what each side did with it. *)
Paired(o, t, len) ==
  LET a == SliceTo(o.old, len)
      our == SliceTo(o.new, len)
      their == SliceTo(t.new, len)
  IN  IF o.kind = "Equal"
      THEN IF t.kind = "Equal" THEN Range3("Equal", a, our, their)
                               ELSE Range3("AncestorOurs", a, our, EmptyRange)
      ELSE IF t.kind = "Equal" THEN Range3("AncestorTheirs", a, EmptyRange, their)
                               ELSE Range3("Ancestor", a, EmptyRange, EmptyRange)

-----------------------------------------------------------------------------
(* diff3_range_to_merge_range *)

NoRegion == [ancestor |-> None, ours |-> None, theirs |-> None]

(* set_or_merge_range, and the assertion in it. *)
Joins(range1, range2) ==
  range1 # None /\ range1[1].len # 0 /\ range2.len # 0 => RangeEnd(range1[1]) = range2.offset
SetOrMerge(range1, range2) ==
  IF range1 = None \/ range1[1].len = 0 THEN Some(range2)
  ELSE Some(GrowDown(range1[1], range2.len))

(* The sides of the region that a Diff3Range goes into. *)
SidesOf(kind) ==
  CASE kind = "Ancestor"       -> {"ancestor", "ours", "theirs"}
    [] kind = "AncestorOurs"   -> {"ancestor", "ours"}
    [] kind = "AncestorTheirs" -> {"ancestor", "theirs"}
    [] kind = "Ours"           -> {"ours"}
    [] kind = "Theirs"         -> {"theirs"}
    [] OTHER                   -> {}

OrEmpty(range) == IF range = None THEN EmptyRange ELSE range[1]

(* create_merge_range *)
CreateMergeRange(r) ==
  LET has == {side \in DOMAIN r : r[side] # None}
      range(kind) == <<Range3(kind, OrEmpty(r.ancestor), OrEmpty(r.ours), OrEmpty(r.theirs))>>
  IN  IF has \subseteq {"ancestor"} THEN <<>>
      ELSE IF has = {"ours"} THEN range("Ours")
      ELSE IF has = {"theirs"} THEN range("Theirs")
      ELSE range("Conflict")

(* Mutated Cleaned. *)
CleanedForOurs(m) ==
  LET a == AsSlice(ancestor, m.ancestor)
      o == AsSlice(ours, m.ours)
      t == AsSlice(theirs, m.theirs)
  IN  IF m.kind # "Conflict" THEN m
      ELSE IF o = t THEN Range3("Both", EmptyRange, m.ours, m.theirs)
      ELSE IF a = o \/ a = t THEN Range3("Ours", EmptyRange, m.ours, EmptyRange)
      ELSE m
CleanedBothOnly(m) ==
  IF m.kind = "Conflict" /\ AsSlice(ours, m.ours) = AsSlice(theirs, m.theirs)
  THEN Range3("Both", EmptyRange, m.ours, m.theirs)
  ELSE m

(* cleanup_conflicts, for one range *)
Cleaned(m) ==
  LET a == AsSlice(ancestor, m.ancestor)
      o == AsSlice(ours, m.ours)
      t == AsSlice(theirs, m.theirs)
  IN  IF m.kind # "Conflict" THEN m
      ELSE IF o = t THEN Range3("Both", EmptyRange, m.ours, m.theirs)
      ELSE IF a = o THEN Range3("Theirs", EmptyRange, EmptyRange, m.theirs)
      ELSE IF a = t THEN Range3("Ours", EmptyRange, m.ours, EmptyRange)
      ELSE m

(* output_result: what a range is written as *)
Lines(ids) == [n \in DOMAIN ids |-> [line |-> ids[n]]]
Marker(char) == <<[marker |-> char]>>

ConflictLines(a, o, t) ==
  Marker("<") \o Lines(o)
  \o (IF style = "Diff3" THEN Marker("|") \o Lines(a) ELSE <<>>)
  \o Marker("=") \o Lines(t) \o Marker(">")

Written(m) ==
  LET a == AsSlice(ancestor, m.ancestor)
      o == AsSlice(ours, m.ours)
      t == AsSlice(theirs, m.theirs)
  IN  CASE m.kind = "Equal"    -> Lines(a)
        [] m.kind = "Conflict" -> ConflictLines(a, o, t)
        [] m.kind = "Theirs"   -> Lines(t)
        [] OTHER               -> Lines(o)    \* Ours and Both

-----------------------------------------------------------------------------

Init ==
  /\ \E texts \in Inputs :
       /\ ancestor = texts[1] /\ ours = texts[2] /\ theirs = texts[3]
       /\ ourSolution \in Solutions[<<texts[1], texts[2]>>]
       /\ theirSolution \in Solutions[<<texts[1], texts[3]>>]
  /\ style \in Styles
  /\ stage = "walk"
  /\ ourItem = NextOf(ourSolution, 0) /\ ourNext = Min2(1, Len(ourSolution))
  /\ theirItem = NextOf(theirSolution, 0) /\ theirNext = Min2(1, Len(theirSolution))
  /\ walk = <<>> /\ at = 1 /\ region = NoRegion /\ merged = <<>>
  /\ output = <<>> /\ conflicts = 0

Walking ==
  /\ stage = "walk" /\ ~(ourItem = None /\ theirItem = None)
  /\ UNCHANGED <<inputs, stage, at, region, merged, output, conflicts>>

(* Inserts first, ours before theirs. *)
TakeOurs ==
  /\ Walking /\ Is(ourItem, {"Insert"})
  /\ Consume(None, theirItem, Range3("Ours", EmptyRange, ourItem[1].new, EmptyRange))

TakeTheirs ==
  /\ Walking /\ ~Is(ourItem, {"Insert"}) /\ Is(theirItem, {"Insert"})
  /\ Consume(ourItem, None, Range3("Theirs", EmptyRange, EmptyRange, theirItem[1].new))

(* Mutated Pair. *)
PairByOurs ==
  /\ Walking
  /\ Is(ourItem, {"Equal", "Delete"}) /\ Is(theirItem, {"Equal", "Delete"})
  /\ LET o == ourItem[1]
         t == theirItem[1]
         len == o.old.len
     IN  Consume(Some(ShrunkFront(o, len)), Some(ShrunkFront(t, len)), Paired(o, t, len))
PairKeepingTheirs ==
  /\ Walking
  /\ Is(ourItem, {"Equal", "Delete"}) /\ Is(theirItem, {"Equal", "Delete"})
  /\ LET o == ourItem[1]
         t == theirItem[1]
         len == Min2(o.old.len, t.old.len)
     IN  Consume(Some(ShrunkFront(o, len)), theirItem, Paired(o, t, len))

(* Both sides are at an Equal or a Delete: with only one of them left the   *)
(* code is unreachable!(), and their places in the ancestor are asserted.   *)
Pair ==
  /\ Walking
  /\ Is(ourItem, {"Equal", "Delete"}) /\ Is(theirItem, {"Equal", "Delete"})
  /\ ourItem[1].old.offset = theirItem[1].old.offset
  /\ LET o == ourItem[1]
         t == theirItem[1]
         len == Min2(o.old.len, t.old.len)
     IN  Consume(Some(ShrunkFront(o, len)), Some(ShrunkFront(t, len)), Paired(o, t, len))

StartStage(from, to) ==
  /\ stage = from /\ stage' = to
  /\ at' = 1
  /\ UNCHANGED <<inputs, walkVars, output, conflicts>>

EndWalk ==
  /\ ourItem = None /\ theirItem = None
  /\ StartStage("walk", "gather")
  /\ UNCHANGED <<region, merged>>

Gathering ==
  /\ stage = "gather" /\ at <= Len(walk)
  /\ at' = at + 1
  /\ UNCHANGED <<inputs, stage, walkVars, output, conflicts>>

(* An Equal closes the region before it. *)
GatherEqual ==
  /\ Gathering /\ walk[at].kind = "Equal"
  /\ merged' = merged \o CreateMergeRange(region) \o <<walk[at]>>
  /\ region' = NoRegion

GatherChange ==
  LET sides == SidesOf(walk[at].kind)
  IN  /\ Gathering /\ walk[at].kind # "Equal"
      /\ \A side \in sides : Joins(region[side], walk[at][side])
      /\ region' = [side \in DOMAIN region |->
                      IF side \in sides THEN SetOrMerge(region[side], walk[at][side])
                                        ELSE region[side]]
      /\ UNCHANGED merged

(* Mutated EndGather. *)
EndGatherDropping ==
  /\ at > Len(walk)
  /\ StartStage("gather", "cleanup")
  /\ UNCHANGED <<region, merged>>

EndGather ==
  /\ at > Len(walk)
  /\ StartStage("gather", "cleanup")
  /\ merged' = merged \o CreateMergeRange(region)
  /\ region' = NoRegion

Cleanup ==
  /\ stage = "cleanup" /\ at <= Len(merged)
  /\ merged' = [merged EXCEPT ![at] = Cleaned(@)]
  /\ at' = at + 1
  /\ UNCHANGED <<inputs, stage, walkVars, region, output, conflicts>>

EndCleanup ==
  /\ at > Len(merged)
  /\ StartStage("cleanup", "output")
  /\ UNCHANGED <<region, merged>>

Output ==
  /\ stage = "output" /\ at <= Len(merged)
  /\ output' = output \o Written(merged[at])
  /\ conflicts' = conflicts + (IF merged[at].kind = "Conflict" THEN 1 ELSE 0)
  /\ at' = at + 1
  /\ UNCHANGED <<inputs, stage, walkVars, region, merged>>

(* Ok(output) without conflicts, Err(output) with them. *)
Return ==
  /\ at > Len(merged)
  /\ StartStage("output", "done")
  /\ UNCHANGED <<region, merged>>

Next ==
  \/ TakeOurs \/ TakeTheirs \/ Pair \/ EndWalk
  \/ GatherEqual \/ GatherChange \/ EndGather
  \/ Cleanup \/ EndCleanup
  \/ Output \/ Return

Spec == Init /\ [][Next]_mvars /\ WF_mvars(Next)

-----------------------------------------------------------------------------
(* Properties *)

Kinds3 == {"Equal", "Conflict", "Ancestor", "AncestorOurs", "AncestorTheirs",
           "Ours", "Theirs", "Both"}
Ranges3 == [kind : Kinds3, ancestor : Ranges, ours : Ranges, theirs : Ranges]

TypeOK ==
  /\ stage \in {"walk", "gather", "cleanup", "output", "done"}
  /\ ourNext \in 0..Len(ourSolution) /\ theirNext \in 0..Len(theirSolution)
  /\ \A item \in {ourItem, theirItem} : item # None => item[1] \in DiffRange
  /\ walk \in Seq(Ranges3) /\ merged \in Seq(Ranges3)
  /\ \A side \in DOMAIN region : region[side] # None => region[side][1] \in Ranges
  /\ at \in Nat \ {0} /\ conflicts \in Nat

(***************************************************************************)
(* Before conflicts are cleaned up, the merge ranges account for every     *)
(* line of all three texts exactly once and in order: no change of either  *)
(* side has been dropped or taken twice.                                   *)
(***************************************************************************)
Concatenated(text, side) ==
  FlattenSeq([n \in DOMAIN merged |-> AsSlice(text, merged[n][side])])
LosesNothing ==
  stage = "cleanup" /\ at = 1 =>
    /\ Concatenated(ancestor, "ancestor") = ancestor
    /\ Concatenated(ours, "ours") = ours
    /\ Concatenated(theirs, "theirs") = theirs

(***************************************************************************)
(* The outcome is that of the textbook three-way merge on the same two     *)
(* diffs: the ancestor lines both sides keep are fixed, and what lies      *)
(* between two of them is settled as a whole, by taking the side that      *)
(* changed it, either when both changed it alike, and with a conflict when *)
(* they changed it differently.  So a text that only one side has changed  *)
(* is taken from that side, without a conflict.                            *)
(***************************************************************************)
Textbook == ThreeWay(<<ancestor, ours, theirs>>, ourSolution, theirSolution)
Rendered(chunk) ==
  IF chunk.conflict THEN ConflictLines(chunk.original, chunk.ours, chunk.theirs)
  ELSE Lines(chunk.lines)
AgreesWithTextbook ==
  stage = "done" =>
    /\ conflicts = Cardinality({a \in DOMAIN Textbook : Textbook[a].chunk.conflict})
    /\ output = FlattenSeq([a \in DOMAIN Textbook |->
                  Rendered(Textbook[a].chunk) \o Lines(Textbook[a].line)])

(***************************************************************************)
(* The merge ends and never panics.  Every iteration of the walk uses up   *)
(* an item of one of the two diffs, also when the pieces they are cut into *)
(* never have the same lengths; an Equal or Delete of one side always      *)
(* meets one of the other, at the same place in the ancestor (the          *)
(* unreachable!() and the assertions on offsets); and what is gathered     *)
(* into one region is adjacent (the assertion in set_or_merge_range).      *)
(***************************************************************************)
Termination == <>(stage = "done")

=============================================================================
