-------------------------- MODULE MyersDiff_proofs --------------------------
(***************************************************************************)
(* Type correctness of MyersDiff, the bounds of its V arrays, that the     *)
(* ranges it emits and those still to be searched partition both texts,    *)
(* that every search finds a point of a shortest path, and that what is    *)
(* emitted is therefore a shortest edit script, for texts of any length    *)
(* over any set of symbols.                                                *)
(***************************************************************************)
EXTENDS MyersDiff, Alignments_proofs

(***************************************************************************)
(* The inductive invariant.  No box is larger than the texts the V arrays  *)
(* were sized for, boxes that are searched are not empty, and the loop     *)
(* over k only stops at diagonals d, d - 2, ..., -d.                       *)
(***************************************************************************)
BoundedTask ==
  {t \in Task : /\ t.item.old.len <= Len(old) /\ t.item.new.len <= Len(new)
                /\ t.op = "search" => t.item.old.len > 0 /\ t.item.new.len > 0}

SearchBounded ==
  /\ OldBox <= Len(old) /\ NewBox <= Len(new)
  /\ phase \in {"forward", "backward"} =>
       /\ OldBox > 0 /\ NewBox > 0
       /\ \E i \in 0..d : k = d - 2 * i

Inv == TypeOK /\ stack \in Seq(BoundedTask) /\ SearchBounded

-----------------------------------------------------------------------------

(* Ranges cut out of a range lie in it. *)
LEMMA SliceType ==
  ASSUME NEW r \in Ranges, NEW x \in 0..r.len
  PROVE  /\ SliceTo(r, x) \in Ranges /\ SliceTo(r, x).len = x
         /\ SliceFrom(r, x) \in Ranges /\ SliceFrom(r, x).len = r.len - x
         /\ SliceBack(r, x) \in Ranges /\ SliceBack(r, x).len = x
BY DEF Ranges, SliceTo, SliceFrom, SliceBack, MkRange

(* The common prefix of two ranges is no longer than either of them. *)
LEMMA PrefixLenType ==
  ASSUME NEW o \in Ranges, NEW n \in Ranges
  PROVE  PrefixLen(o, n) \in 0..Min2(o.len, n.len)
BY CommonPrefixLenProperty DEF PrefixLen

(* Nor is the common suffix of what the prefix leaves of them. *)
LEMMA SuffixLenType ==
  ASSUME NEW o \in Ranges, NEW n \in Ranges
  PROVE  SuffixLen(o, n) \in 0..Min2(o.len, n.len)
BY CommonSuffixLenProperty DEF SuffixLen

(* What a call of conquer() still has to do stays inside its box. *)
LEMMA ConquerTasksType ==
  ASSUME old \in Seq(Symbol), new \in Seq(Symbol),
         NEW o \in Ranges, o.len <= Len(old),
         NEW n \in Ranges, n.len <= Len(new)
  PROVE  ConquerTasks(o, n) \in Seq(BoundedTask)
<1> DEFINE p  == PrefixLen(o, n)
           o1 == SliceFrom(o, p)
           n1 == SliceFrom(n, p)
           s  == SuffixLen(o1, n1)
<1>1. /\ p \in 0..o.len /\ p \in 0..n.len
      /\ o.len \in Nat /\ n.len \in Nat /\ Len(old) \in Nat /\ Len(new) \in Nat
  BY PrefixLenType DEF Min2, Ranges
<1>2. /\ o1 \in Ranges /\ o1.len = o.len - p
      /\ n1 \in Ranges /\ n1.len = n.len - p
  BY <1>1, SliceType
<1>3. s \in 0..o1.len /\ s \in 0..n1.len
  <2>1. s \in 0..Min2(o1.len, n1.len)
    BY <1>2, SuffixLenType
  <2> QED
    BY <1>1, <1>2, <2>1 DEF Min2
<1> HIDE DEF p, o1, n1, s
<1>4. ASSUME NEW a \in Ranges, a.len <= Len(old), NEW b \in Ranges, b.len <= Len(new)
      PROVE  /\ PushUnlessEmpty(Equal(a, b)) \in Seq(BoundedTask)
             /\ Middle(a, b) \in Seq(BoundedTask)
  <2>1. /\ PushTask(Equal(a, b)) \in BoundedTask
        /\ PushTask(Insert(b)) \in BoundedTask
        /\ PushTask(Delete(a)) \in BoundedTask
    BY <1>1, <1>4 DEF PushTask, Equal, Insert, Delete, EmptyRange, MkRange,
                      BoundedTask, Task, DiffRange, Ranges
  <2>2. a.len # 0 /\ b.len # 0 => SearchTask(a, b) \in BoundedTask
    BY <1>4 DEF SearchTask, Equal, BoundedTask, Task, DiffRange, Ranges
  <2> QED
    BY <2>1, <2>2 DEF PushUnlessEmpty, Middle
<1>5. /\ SliceTo(o, p) \in Ranges /\ SliceTo(o, p).len <= Len(old)
      /\ SliceTo(n, p) \in Ranges /\ SliceTo(n, p).len <= Len(new)
  BY <1>1, SliceType
<1>6. /\ SliceTo(o1, o1.len - s) \in Ranges /\ SliceTo(o1, o1.len - s).len <= Len(old)
      /\ SliceTo(n1, n1.len - s) \in Ranges /\ SliceTo(n1, n1.len - s).len <= Len(new)
  <2>1. /\ o1.len - s \in 0..o1.len /\ o1.len - s <= Len(old)
        /\ n1.len - s \in 0..n1.len /\ n1.len - s <= Len(new)
    BY SMTT(60), <1>1, <1>2, <1>3
  <2> QED
    BY <1>2, <2>1, SliceType
<1>7. /\ SliceBack(o1, s) \in Ranges /\ SliceBack(o1, s).len <= Len(old)
      /\ SliceBack(n1, s) \in Ranges /\ SliceBack(n1, s).len <= Len(new)
  <2>1. s <= Len(old) /\ s <= Len(new)
    BY <1>1, <1>2, <1>3
  <2> QED
    BY <1>2, <1>3, <2>1, SliceType
<1>8. ConquerTasks(o, n)
        = PushUnlessEmpty(Equal(SliceTo(o, p), SliceTo(n, p)))
          \o Middle(SliceTo(o1, o1.len - s), SliceTo(n1, n1.len - s))
          \o PushUnlessEmpty(Equal(SliceBack(o1, s), SliceBack(n1, s)))
  BY DEF ConquerTasks, p, o1, n1, s
<1>9. /\ PushUnlessEmpty(Equal(SliceTo(o, p), SliceTo(n, p))) \in Seq(BoundedTask)
      /\ Middle(SliceTo(o1, o1.len - s), SliceTo(n1, n1.len - s)) \in Seq(BoundedTask)
      /\ PushUnlessEmpty(Equal(SliceBack(o1, s), SliceBack(n1, s))) \in Seq(BoundedTask)
  BY <1>4, <1>5, <1>6, <1>7
<1> QED
  BY <1>8, <1>9

-----------------------------------------------------------------------------

(* The arrays reach one diagonal beyond the last d of every box. *)
LEMMA DiagonalsReach ==
  ASSUME Inv
  PROVE  /\ Len(old) \in Nat /\ Len(new) \in Nat
         /\ OldBox \in Nat /\ NewBox \in Nat /\ Delta \in Int
         /\ \A j \in Int : Max2(j, -j) + 1 <= MaxD(OldBox, NewBox) => j \in Diagonals
         /\ OldBox > 0 \/ NewBox > 0 => 1 \in Diagonals
<1>1. Len(old) \in Nat /\ Len(new) \in Nat /\ OldBox \in Nat /\ NewBox \in Nat
  BY DEF Inv, TypeOK, OldBox, NewBox, Ranges
<1>2. OldBox <= Len(old) /\ NewBox <= Len(new)
  BY DEF Inv, SearchBounded
<1>3. MaxD(OldBox, NewBox) <= MaxD(Len(old), Len(new)) /\ MaxD(Len(old), Len(new)) \in Nat
  BY <1>1, <1>2 DEF MaxD
<1>4. Diagonals = (-MaxD(Len(old), Len(new))) .. (MaxD(Len(old), Len(new)) - 1)
  BY DEF Diagonals
<1>5. ASSUME NEW j \in Int, Max2(j, -j) + 1 <= MaxD(OldBox, NewBox)
      PROVE  j \in Diagonals
  BY <1>1, <1>3, <1>4, <1>5 DEF Max2, MaxD
<1>6. OldBox > 0 \/ NewBox > 0 => 1 \in Diagonals
  BY <1>1, <1>2, <1>4 DEF MaxD
<1> QED
  BY <1>1, <1>5, <1>6 DEF Delta

(* While a search runs, so do k and the neighbours it reads. *)
LEMMA SearchInBounds ==
  ASSUME Inv, phase \in {"forward", "backward"}, d < MaxD(OldBox, NewBox)
  PROVE  /\ k \in Diagonals
         /\ k # d => k + 1 \in Diagonals
         /\ k = -d => k + 1 \in Diagonals
         /\ k # -d => k - 1 \in Diagonals
         /\ AbsDelta <= d => Delta - k \in Diagonals
<1>1. PICK i \in 0..d : k = d - 2 * i
  BY DEF Inv, SearchBounded
<1>2. d \in Nat /\ k \in -d..d /\ MaxD(OldBox, NewBox) \in Nat
  BY SMTT(60), <1>1, DiagonalsReach DEF Inv, TypeOK, MaxD
<1>3. \A j \in -d..d : j \in Diagonals
  BY <1>2, DiagonalsReach DEF Max2
<1>4. k # d => k + 1 \in -d..d
  BY <1>2
<1>5. k # -d => k - 1 \in -d..d
  BY <1>2
<1>6. k = -d => k + 1 \in Diagonals
  <2>1. CASE d = 0
    BY <2>1, DiagonalsReach DEF Inv, SearchBounded
  <2>2. CASE d # 0
    BY <1>2, <1>3, <2>2
  <2> QED
    BY <2>1, <2>2
<1>7. AbsDelta <= d => Delta - k \in -d..d
  BY <1>2, DiagonalsReach DEF AbsDelta, Max2
<1> QED
  BY <1>2, <1>3, <1>4, <1>5, <1>6, <1>7

(* So the furthest points the search works with are naturals. *)
LEMMA XStartType ==
  ASSUME Inv, phase \in {"forward", "backward"}, d < MaxD(OldBox, NewBox),
         NEW v \in [Diagonals -> Nat]
  PROVE  XStart(v) \in Nat
<1>1. k = -d => v[k + 1] \in Nat
  BY SearchInBounds
<1>2. k # -d => v[k - 1] \in Nat
  BY SearchInBounds
<1>3. k # d => v[k + 1] \in Nat
  BY SearchInBounds
<1> QED
  BY <1>1, <1>2, <1>3 DEF XStart

(* A snake that starts at or above zero ends at or above its start. *)
LEMMA SnakeType ==
  ASSUME Inv, NEW x \in Nat, NEW y \in Int
  PROVE  ForwardSnake(x, y) \in Nat /\ BackwardSnake(x, y) \in Nat
<1>1. box.old \in Ranges /\ box.new \in Ranges
  BY DEF Inv, TypeOK
<1>2. ForwardSnake(x, y) \in Nat
  <2>1. CASE x <= OldBox /\ y \in 0..NewBox
    <3>1. x \in 0..box.old.len /\ y \in 0..box.new.len
      BY <2>1, DiagonalsReach DEF OldBox, NewBox
    <3>2. SliceFrom(box.old, x) \in Ranges /\ SliceFrom(box.new, y) \in Ranges
      BY <1>1, <3>1, SliceType
    <3> QED
      BY <2>1, <3>2, PrefixLenType DEF ForwardSnake, Min2
  <2> QED
    BY <2>1 DEF ForwardSnake
<1>3. BackwardSnake(x, y) \in Nat
  <2>1. CASE x < OldBox /\ y >= 0 /\ y < NewBox
    <3>1. OldBox - x \in 0..box.old.len /\ NewBox - y \in 0..box.new.len
      <4>1. OldBox \in Nat /\ NewBox \in Nat
        BY DiagonalsReach
      <4> QED
        BY <2>1, <4>1 DEF OldBox, NewBox
    <3>2. SliceTo(box.old, OldBox - x) \in Ranges /\ SliceTo(box.new, NewBox - y) \in Ranges
      BY <1>1, <3>1, SliceType
    <3> QED
      BY <2>1, <3>2, SuffixLenType DEF BackwardSnake, Min2
  <2> QED
    BY <2>1 DEF BackwardSnake
<1> QED
  BY <1>2, <1>3

-----------------------------------------------------------------------------

(* diff() starts on the whole texts, with arrays as large as they need. *)
LEMMA InitInv == Init => Inv
<1> SUFFICES ASSUME Init PROVE Inv
  OBVIOUS
<1>1. old \in Seq(Symbol) /\ new \in Seq(Symbol)
  BY InputsAssumption DEF Init
<1>2. Len(old) \in Nat /\ Len(new) \in Nat
  BY <1>1
<1>3. NewV \in [Diagonals -> Nat]
  BY DEF NewV
<1>4. ConquerTask(MkRange(0, Len(old)), MkRange(0, Len(new))) \in BoundedTask
  BY <1>2 DEF ConquerTask, Equal, MkRange, BoundedTask, Task, DiffRange, Ranges
<1>5. stack \in Seq(BoundedTask)
  BY <1>4 DEF Init
<1>6. stack \in Seq(Task)
  BY <1>5 DEF BoundedTask
<1>7. TypeOK
  BY <1>1, <1>3, <1>6 DEF Init, TypeOK, Ranges, EmptyRange, MkRange
<1>8. SearchBounded
  BY <1>2 DEF Init, SearchBounded, OldBox, NewBox, EmptyRange, MkRange
<1> QED
  BY <1>5, <1>7, <1>8 DEF Inv

(* Every step keeps the texts, so the arrays and the bounds stay as they are. *)
LEMMA FixedTexts ==
  ASSUME UNCHANGED texts
  PROVE  Diagonals' = Diagonals /\ BoundedTask' = BoundedTask
BY DEF texts, Diagonals, BoundedTask

(* Sequence facts: the pending work without its first task, and with more. *)
LEMMA StackType ==
  ASSUME Inv, UNCHANGED texts
  PROVE  /\ stack # <<>> => Head(stack) \in BoundedTask /\ Tail(stack) \in Seq(BoundedTask)
         /\ stack' \in Seq(BoundedTask) => stack' \in Seq(BoundedTask)' /\ stack' \in Seq(Task)
<1>1. stack \in Seq(BoundedTask)
  BY DEF Inv
<1>2. BoundedTask \subseteq Task
  BY DEF BoundedTask
<1> QED
  BY <1>1, <1>2, FixedTexts

(* A call of conquer() leaves smaller boxes to do. *)
LEMMA ConquerBoxInv == Inv /\ ConquerBox => Inv'
<1> SUFFICES ASSUME Inv, ConquerBox PROVE Inv'
  OBVIOUS
<1> DEFINE call == Head(stack).item
<1>1. UNCHANGED texts /\ stack # <<>>
  BY DEF ConquerBox, Top
<1>2. call.old \in Ranges /\ call.old.len <= Len(old) /\ call.new \in Ranges /\ call.new.len <= Len(new)
  BY <1>1, StackType DEF BoundedTask, Task, DiffRange
<1>3. ConquerTasks(call.old, call.new) \in Seq(BoundedTask)
  BY <1>2, ConquerTasksType DEF Inv, TypeOK
<1>4. stack' \in Seq(BoundedTask)
  BY <1>1, <1>3, StackType DEF ConquerBox
<1>5. stack' \in Seq(BoundedTask)' /\ stack' \in Seq(Task)
  BY <1>1, <1>4, StackType
<1>6. TypeOK'
  BY <1>1, <1>5, FixedTexts DEF ConquerBox, Inv, TypeOK, texts, searchVars
<1>7. SearchBounded'
  BY <1>1 DEF ConquerBox, Top, Inv, SearchBounded, OldBox, NewBox, texts, searchVars
<1> QED
  BY <1>5, <1>6, <1>7 DEF Inv

(* Emitting a range takes its task off the stack. *)
LEMMA PushInv == Inv /\ Push => Inv'
<1> SUFFICES ASSUME Inv, Push PROVE Inv'
  OBVIOUS
<1>1. UNCHANGED texts /\ stack # <<>>
  BY DEF Push, Top
<1>2. stack' \in Seq(BoundedTask)' /\ stack' \in Seq(Task)
  BY <1>1, StackType DEF Push
<1>3. solution' \in Seq(DiffRange)
  <2>1. Head(stack).item \in DiffRange
    BY <1>1, StackType DEF BoundedTask, Task
  <2> QED
    BY <2>1 DEF Push, Inv, TypeOK
<1>4. TypeOK'
  BY <1>1, <1>2, <1>3, FixedTexts DEF Push, Inv, TypeOK, texts, searchVars
<1>5. SearchBounded'
  BY <1>1 DEF Push, Top, Inv, SearchBounded, OldBox, NewBox, texts, searchVars
<1> QED
  BY <1>2, <1>4, <1>5 DEF Inv

(* A search begins inside the box it is called for. *)
LEMMA StartSearchInv == Inv /\ StartSearch => Inv'
<1> SUFFICES ASSUME Inv, StartSearch PROVE Inv'
  OBVIOUS
<1> DEFINE item == Head(stack).item
<1>1. UNCHANGED texts /\ stack # <<>> /\ Head(stack).op = "search"
  BY DEF StartSearch, Top
<1>2. /\ item.old \in Ranges /\ item.old.len <= Len(old) /\ item.old.len > 0
      /\ item.new \in Ranges /\ item.new.len <= Len(new) /\ item.new.len > 0
  BY <1>1, StackType DEF BoundedTask, Task, DiffRange
<1>3. stack' \in Seq(BoundedTask)' /\ stack' \in Seq(Task)
  BY <1>1, StackType DEF StartSearch
<1>4. vf' \in [Diagonals -> Nat] /\ vb' \in [Diagonals -> Nat]
  BY DEF StartSearch, Plant, Inv, TypeOK
<1>5. TypeOK'
  BY <1>1, <1>2, <1>3, <1>4, FixedTexts DEF StartSearch, Inv, TypeOK, texts
<1>6. SearchBounded'
  <2>1. OldBox' > 0 /\ NewBox' > 0 /\ OldBox' <= Len(old)' /\ NewBox' <= Len(new)'
    BY <1>1, <1>2 DEF StartSearch, OldBox, NewBox, texts
  <2>2. 0 \in 0..d' /\ k' = d' - 2 * 0
    BY DEF StartSearch
  <2> QED
    BY <2>1, <2>2 DEF SearchBounded
<1> QED
  BY <1>3, <1>5, <1>6 DEF Inv

(* The split of a box at a point inside it. *)
LEMMA SplitAtInv ==
  ASSUME Inv, phase \in {"forward", "backward"}, UNCHANGED <<texts, solution, box>>,
         vf' \in [Diagonals -> Nat], vb' \in [Diagonals -> Nat],
         NEW x, NEW y, SplitAt(x, y)
  PROVE  Inv'
<1>1. UNCHANGED texts
  OBVIOUS
<1>2. /\ box.old \in Ranges /\ box.new \in Ranges
      /\ box.old.len <= Len(old) /\ box.new.len <= Len(new)
      /\ box.old.len \in Nat /\ box.new.len \in Nat
      /\ Len(old) \in Nat /\ Len(new) \in Nat
      /\ x \in 0..box.old.len /\ y \in 0..box.new.len
  BY DEF Inv, TypeOK, SearchBounded, SplitAt, OldBox, NewBox, Ranges
<1>3. ASSUME NEW o \in Ranges, o.len <= Len(old), NEW n \in Ranges, n.len <= Len(new)
      PROVE  ConquerTask(o, n) \in BoundedTask
  BY <1>3 DEF ConquerTask, Equal, BoundedTask, Task, DiffRange
<1>4. /\ ConquerTask(SliceTo(box.old, x), SliceTo(box.new, y)) \in BoundedTask
      /\ ConquerTask(SliceFrom(box.old, x), SliceFrom(box.new, y)) \in BoundedTask
  <2>1. x <= Len(old) /\ y <= Len(new) /\ box.old.len - x <= Len(old) /\ box.new.len - y <= Len(new)
    BY <1>2
  <2> QED
    BY ZenonT(60), <1>2, <1>3, <2>1, SliceType
<1>5. stack' \in Seq(BoundedTask)
  BY <1>4 DEF SplitAt, Inv
<1>6. stack' \in Seq(BoundedTask)' /\ stack' \in Seq(Task)
  BY <1>1, <1>5, StackType
<1>7. TypeOK'
  BY <1>1, <1>6, FixedTexts DEF SplitAt, Inv, TypeOK, texts
<1>8. SearchBounded'
  BY DEF SplitAt, Inv, SearchBounded, OldBox, NewBox, texts
<1> QED
  BY <1>6, <1>7, <1>8 DEF Inv

(* The next iteration of one of the loops over k. *)
LEMMA NextKInv ==
  ASSUME Inv, UNCHANGED <<texts, solution, box, stack>>,
         vf' \in [Diagonals -> Nat], vb' \in [Diagonals -> Nat],
         \/ phase = "forward" /\ NextForward
         \/ phase = "backward" /\ NextBackward
  PROVE  Inv'
<1>1. UNCHANGED texts
  OBVIOUS
<1>2. stack' \in Seq(BoundedTask)' /\ stack' \in Seq(Task)
  BY <1>1, StackType DEF Inv
<1>3. PICK i \in 0..d : k = d - 2 * i
  BY DEF Inv, SearchBounded
<1>4. d \in Nat
  BY DEF Inv, TypeOK
<1>5. phase' \in {"forward", "backward"} /\ d' \in Nat /\ \E j \in 0..d' : k' = d' - 2 * j
  <2>1. CASE k # -d
    <3>1. phase' = phase /\ d' = d /\ k' = k - 2
      BY <2>1 DEF NextForward, NextBackward
    <3>2. i + 1 \in 0..d' /\ k' = d' - 2 * (i + 1)
      BY <1>3, <1>4, <2>1, <3>1
    <3> QED
      BY <1>4, <3>1, <3>2
  <2>2. CASE k = -d
    <3>1. phase' \in {"forward", "backward"} /\ d' \in Nat /\ k' = d'
      BY <1>4, <2>2 DEF NextForward, NextBackward
    <3>2. \A e \in Nat : 0 \in 0..e /\ e = e - 2 * 0
      OBVIOUS
    <3> QED
      BY <3>1, <3>2
  <2> QED
    BY <2>1, <2>2
<1>6. k' \in Int
  BY <1>5
<1>7. TypeOK'
  BY <1>1, <1>2, <1>5, <1>6, FixedTexts DEF Inv, TypeOK, texts
<1>8. SearchBounded'
  BY <1>5 DEF Inv, SearchBounded, OldBox, NewBox, texts
<1> QED
  BY <1>2, <1>7, <1>8 DEF Inv

(* The forward loop: one k, or the split when the paths meet. *)
LEMMA ForwardInv == Inv /\ Forward => Inv'
<1> SUFFICES ASSUME Inv, Forward PROVE Inv'
  OBVIOUS
<1> DEFINE x0 == XStart(vf)
           x  == x0 + ForwardSnake(x0, x0 - k)
<1>1. /\ phase = "forward" /\ d < MaxD(OldBox, NewBox)
      /\ UNCHANGED <<texts, solution, vb, box>>
      /\ vf' = [vf EXCEPT ![k] = x]
      /\ SplitAt(x0, x0 - k) \/ (NextForward /\ UNCHANGED stack)
  BY DEF Forward, Searching
<1>2. vf \in [Diagonals -> Nat] /\ vb \in [Diagonals -> Nat] /\ k \in Int
  BY DEF Inv, TypeOK
<1>3. x0 \in Nat
  BY <1>1, <1>2, XStartType
<1>4. x \in Nat
  <2>1. x0 - k \in Int
    BY <1>2, <1>3
  <2>2. ForwardSnake(x0, x0 - k) \in Nat
    BY <1>3, <2>1, SnakeType
  <2> QED
    BY <1>3, <2>2
<1>5. vf' \in [Diagonals -> Nat] /\ vb' \in [Diagonals -> Nat]
  BY <1>1, <1>2, <1>4
<1> HIDE DEF x0, x
<1>6. CASE SplitAt(x0, x0 - k)
  BY <1>1, <1>5, <1>6, SplitAtInv
<1>7. CASE NextForward /\ UNCHANGED stack
  BY <1>1, <1>5, <1>7, NextKInv
<1> QED
  BY <1>1, <1>6, <1>7

(* The backward loop, likewise. *)
LEMMA BackwardInv == Inv /\ Backward => Inv'
<1> SUFFICES ASSUME Inv, Backward PROVE Inv'
  OBVIOUS
<1> DEFINE x0 == XStart(vb)
           x  == x0 + BackwardSnake(x0, x0 - k)
<1>1. /\ phase = "backward" /\ d < MaxD(OldBox, NewBox)
      /\ UNCHANGED <<texts, solution, vf, box>>
      /\ vb' = [vb EXCEPT ![k] = x]
      /\ SplitAt(OldBox - x, NewBox - (x - k)) \/ (NextBackward /\ UNCHANGED stack)
  BY DEF Backward, Searching
<1>2. vf \in [Diagonals -> Nat] /\ vb \in [Diagonals -> Nat] /\ k \in Int
  BY DEF Inv, TypeOK
<1>3. x0 \in Nat
  BY <1>1, <1>2, XStartType
<1>4. x \in Nat
  <2>1. x0 - k \in Int
    BY <1>2, <1>3
  <2>2. BackwardSnake(x0, x0 - k) \in Nat
    BY <1>3, <2>1, SnakeType
  <2> QED
    BY <1>3, <2>2
<1>5. vf' \in [Diagonals -> Nat] /\ vb' \in [Diagonals -> Nat]
  BY <1>1, <1>2, <1>4
<1> HIDE DEF x0, x
<1>6. CASE SplitAt(OldBox - x, NewBox - (x - k))
  BY <1>1, <1>5, <1>6, SplitAtInv
<1>7. CASE NextBackward /\ UNCHANGED stack
  BY <1>1, <1>5, <1>7, NextKInv
<1> QED
  BY <1>1, <1>6, <1>7

(* No step of the program leaves the invariant. *)
LEMMA NextInv == Inv /\ [Next]_vars => Inv'
<1> SUFFICES ASSUME Inv, [Next]_vars PROVE Inv'
  OBVIOUS
<1>1. CASE ConquerBox
  BY <1>1, ConquerBoxInv
<1>2. CASE Push
  BY <1>2, PushInv
<1>3. CASE StartSearch
  BY <1>3, StartSearchInv
<1>4. CASE Forward
  BY <1>4, ForwardInv
<1>5. CASE Backward
  BY <1>5, BackwardInv
<1>6. CASE Return
  <2>1. UNCHANGED <<texts, stack, solution, searchVars>> /\ phase' = "done"
    BY <1>6 DEF Return
  <2>2. BoundedTask' = BoundedTask /\ Diagonals' = Diagonals
    BY <2>1, FixedTexts
  <2> QED
    BY <2>1, <2>2 DEF Inv, TypeOK, SearchBounded, OldBox, NewBox, texts, searchVars
<1>7. CASE UNCHANGED vars
  <2>1. UNCHANGED <<texts, stack, solution, searchVars, phase>>
    BY <1>7 DEF vars, texts, searchVars
  <2>2. BoundedTask' = BoundedTask /\ Diagonals' = Diagonals
    BY <2>1, FixedTexts
  <2> QED
    BY <2>1, <2>2 DEF Inv, TypeOK, SearchBounded, OldBox, NewBox, texts, searchVars
<1> QED
  BY <1>1, <1>2, <1>3, <1>4, <1>5, <1>6, <1>7 DEF Next

(* The cells a search in bounds touches are the ones of the arrays. *)
LEMMA InvInBounds == Inv => VIndexInBounds
<1> SUFFICES ASSUME Inv PROVE VIndexInBounds
  OBVIOUS
<1>1. ASSUME Top("search") PROVE 1 \in Diagonals
  <2>1. Head(stack) \in BoundedTask /\ Head(stack).op = "search"
    BY <1>1 DEF Top, Inv
  <2>2. Len(old) > 0
    BY <2>1, DiagonalsReach DEF BoundedTask, Task, DiffRange, Ranges
  <2>3. Diagonals = (-MaxD(Len(old), Len(new))) .. (MaxD(Len(old), Len(new)) - 1)
    BY DEF Diagonals
  <2> QED
    BY <2>2, <2>3, DiagonalsReach DEF MaxD
<1>2. ASSUME phase \in {"forward", "backward"}, d < MaxD(OldBox, NewBox)
      PROVE  CellsTouched \subseteq Diagonals
  <2>1. AbsDelta \in Int /\ d \in Nat /\ k \in Int
    BY DiagonalsReach DEF Inv, TypeOK, AbsDelta, Max2
  <2>2. AbsDelta <= d - 1 => AbsDelta <= d
    BY <2>1
  <2> QED
    BY <1>2, <2>2, SearchInBounds DEF CellsTouched
<1> QED
  BY <1>1, <1>2 DEF VIndexInBounds

-----------------------------------------------------------------------------
(* The recursion covers both texts *)

(***************************************************************************)
(* What is pushed equates equal text, what is still to be diffed is a box, *)
(* and together they lead from the beginnings of the texts to their ends.  *)
(***************************************************************************)
SoundTask ==
  {t \in Task : IF t.op = "push" THEN t.item \in Matching(old, new)
                                 ELSE t.item.kind = "Equal"}

Items(tasks) == [i \in DOMAIN tasks |-> tasks[i].item]

Tiled ==
  /\ solution \in Seq(Matching(old, new))
  /\ stack \in Seq(SoundTask)
  /\ \E x, y \in Nat : /\ Path(solution, 0, 0, x, y)
                       /\ Path(Outstanding, x, y, Len(old), Len(new))
  /\ phase = "done" => stack = <<>>

(* The items of tasks, one list after the other. *)
LEMMA ItemsConcat ==
  ASSUME NEW a \in Seq(Task), NEW b \in Seq(Task)
  PROVE  Items(a) \in Seq(DiffRange) /\ Items(a \o b) = Items(a) \o Items(b)
<1>1. ASSUME NEW ts \in Seq(Task) PROVE Items(ts) \in Seq(DiffRange) /\ Len(Items(ts)) = Len(ts)
  <2>1. Len(ts) \in Nat /\ DOMAIN ts = 1..Len(ts) /\ \A i \in 1..Len(ts) : ts[i].item \in DiffRange
    <3>1. \A t \in Task : t.item \in DiffRange
      BY DEF Task
    <3>2. Len(ts) \in Nat /\ DOMAIN ts = 1..Len(ts) /\ \A i \in 1..Len(ts) : ts[i] \in Task
      OBVIOUS
    <3> QED
      BY <3>1, <3>2
  <2>2. Items(ts) \in [1..Len(ts) -> DiffRange]
    BY <2>1 DEF Items
  <2> QED
    BY <2>1, <2>2, RowIsSeq
<1>2. /\ a \o b \in Seq(Task) /\ Len(a \o b) = Len(a) + Len(b)
      /\ DOMAIN a = 1..Len(a) /\ DOMAIN b = 1..Len(b) /\ DOMAIN (a \o b) = 1..Len(a) + Len(b)
      /\ \A i \in 1..Len(a) : i \in DOMAIN (a \o b) /\ (a \o b)[i] = a[i]
      /\ \A i \in 1..Len(b) : Len(a) + i \in DOMAIN (a \o b) /\ (a \o b)[Len(a) + i] = b[i]
  OBVIOUS
<1> DEFINE r == Items(a \o b)
           s == Items(a)
           t == Items(b)
<1>3. /\ r \in Seq(DiffRange) /\ Len(r) = Len(a) + Len(b)
      /\ s \in Seq(DiffRange) /\ Len(s) = Len(a)
      /\ t \in Seq(DiffRange) /\ Len(t) = Len(b)
  BY <1>1, <1>2
<1>4. /\ \A i \in 1..Len(a) : r[i] = s[i]
      /\ \A i \in 1..Len(b) : r[Len(a) + i] = t[i]
  BY <1>2 DEF Items
<1> HIDE DEF r, s, t
<1>5. /\ Len(r) = Len(s) + Len(t)
      /\ \A i \in 1..Len(s) : r[i] = s[i]
      /\ \A i \in 1..Len(t) : r[Len(s) + i] = t[i]
  BY <1>3, <1>4
<1>6. r = s \o t
  BY <1>3, <1>5, ConcatElements
<1> QED
  BY <1>3, <1>6 DEF r, s, t

(* One task, and none. *)
LEMMA ItemsSingle ==
  ASSUME NEW t \in Task
  PROVE  Items(<<t>>) = <<t.item>> /\ Items(<<>>) = <<>>
BY DEF Items

(* The tasks of conquer(): where the prefix or the suffix leads ... *)
LEMMA PushUnlessEmptyPath ==
  ASSUME NEW a \in Ranges, NEW b \in Ranges, a.len = b.len,
         \A i \in 1..a.len : old[a.offset + i] = new[b.offset + i]
  PROVE  /\ PushUnlessEmpty(Equal(a, b)) \in Seq(SoundTask)
         /\ PushUnlessEmpty(Equal(a, b)) \in Seq(Task)
         /\ Path(Items(PushUnlessEmpty(Equal(a, b))), a.offset, b.offset, RangeEnd(a), RangeEnd(b))
<1> DEFINE item == Equal(a, b)
           t == PushTask(item)
<1>1. /\ a.offset \in Nat /\ b.offset \in Nat /\ a.len \in Nat
      /\ item \in DiffRange /\ item.old = a /\ item.new = b /\ item.kind = "Equal"
  BY DEF Ranges, Equal, DiffRange
<1>2. t \in Task /\ t.op = "push" /\ t.item = item
  BY <1>1 DEF Task, PushTask
<1>3. item \in Matching(old, new)
  BY <1>1 DEF Matching
<1>4. t \in SoundTask
  BY <1>2, <1>3 DEF SoundTask
<1>5. OldLen(item) = a.len /\ NewLen(item) = a.len /\ LenOf(item) = a.len
  BY <1>1 DEF OldLen, NewLen, LenOf, Inner, InOld, InNew
<1>6. InOld(item) /\ InNew(item)
  BY <1>1 DEF InOld, InNew
<1> HIDE DEF item, t
<1>7. CASE a.len = 0
  <2>1. PushUnlessEmpty(item) = <<>>
    BY <1>5, <1>7 DEF PushUnlessEmpty, IsEmpty
  <2>2. RangeEnd(a) = a.offset /\ RangeEnd(b) = b.offset
    BY <1>1, <1>7 DEF RangeEnd
  <2>3. Items(<<>>) = <<>>
    BY DEF Items
  <2> QED
    BY <1>1, <2>1, <2>2, <2>3, PathEmpty DEF item
<1>8. CASE a.len # 0
  <2>1. PushUnlessEmpty(item) = <<t>>
    BY <1>5, <1>8 DEF PushUnlessEmpty, IsEmpty, t
  <2>2. Path(<<item>>, a.offset, b.offset, RangeEnd(a), RangeEnd(b))
    BY <1>1, <1>5, <1>6, PathSingle DEF RangeEnd
  <2>3. Items(<<t>>) = <<item>>
    BY <1>2, ItemsSingle
  <2> QED
    BY <1>2, <1>4, <2>1, <2>2, <2>3 DEF item
<1> QED
  BY <1>7, <1>8

(* ... and where what is between them does. *)
LEMMA MiddlePath ==
  ASSUME NEW a \in Ranges, NEW b \in Ranges
  PROVE  /\ Middle(a, b) \in Seq(SoundTask)
         /\ Middle(a, b) \in Seq(Task)
         /\ Path(Items(Middle(a, b)), a.offset, b.offset, RangeEnd(a), RangeEnd(b))
<1>1. a.offset \in Nat /\ b.offset \in Nat /\ a.len \in Nat /\ b.len \in Nat
  BY DEF Ranges
<1>2. Insert(b) \in DiffRange /\ Delete(a) \in DiffRange /\ Equal(a, b) \in DiffRange
  BY DEF Insert, Delete, Equal, EmptyRange, MkRange, DiffRange, Ranges
<1>3. Insert(b) \in Matching(old, new) /\ Delete(a) \in Matching(old, new)
  BY <1>2 DEF Matching, Insert, Delete, IsEdit
<1>4. CASE a.len = 0 /\ b.len = 0
  <2>1. Middle(a, b) = <<>>
    BY <1>4 DEF Middle
  <2>2. RangeEnd(a) = a.offset /\ RangeEnd(b) = b.offset
    BY <1>1, <1>4 DEF RangeEnd
  <2>3. Items(<<>>) = <<>>
    BY DEF Items
  <2> QED
    BY <1>1, <2>1, <2>2, <2>3, PathEmpty
<1>5. CASE a.len = 0 /\ b.len # 0
  <2> DEFINE t == PushTask(Insert(b))
  <2>1. Middle(a, b) = <<t>>
    BY <1>5 DEF Middle
  <2>2. t \in Task /\ t \in SoundTask /\ t.item = Insert(b)
    BY <1>2, <1>3 DEF Task, SoundTask, PushTask
  <2>3. Path(<<Insert(b)>>, a.offset, b.offset, RangeEnd(a), RangeEnd(b))
    <3>1. RangeEnd(a) = a.offset + 0 /\ RangeEnd(b) = b.offset + b.len
      BY <1>1, <1>5 DEF RangeEnd
    <3> QED
      BY <1>1, <1>2, <3>1, PathSingle DEF Insert, InOld, InNew, OldLen, NewLen
  <2> HIDE DEF t
  <2>4. Items(<<t>>) = <<Insert(b)>>
    BY <2>2, ItemsSingle
  <2> QED
    BY <2>1, <2>2, <2>3, <2>4
<1>6. CASE a.len # 0 /\ b.len = 0
  <2> DEFINE t == PushTask(Delete(a))
  <2>1. Middle(a, b) = <<t>>
    BY <1>6 DEF Middle
  <2>2. t \in Task /\ t \in SoundTask /\ t.item = Delete(a)
    BY <1>2, <1>3 DEF Task, SoundTask, PushTask
  <2>3. Path(<<Delete(a)>>, a.offset, b.offset, RangeEnd(a), RangeEnd(b))
    <3>1. RangeEnd(a) = a.offset + a.len /\ RangeEnd(b) = b.offset + 0
      BY <1>1, <1>6 DEF RangeEnd
    <3> QED
      BY <1>1, <1>2, <3>1, PathSingle DEF Delete, InOld, InNew, OldLen, NewLen
  <2> HIDE DEF t
  <2>4. Items(<<t>>) = <<Delete(a)>>
    BY <2>2, ItemsSingle
  <2> QED
    BY <2>1, <2>2, <2>3, <2>4
<1>7. CASE a.len # 0 /\ b.len # 0
  <2> DEFINE t == SearchTask(a, b)
  <2>1. Middle(a, b) = <<t>>
    BY <1>7 DEF Middle
  <2>2. t \in Task /\ t \in SoundTask /\ t.item = Equal(a, b)
    BY <1>2 DEF Task, SoundTask, SearchTask, Equal
  <2>3. Path(<<Equal(a, b)>>, a.offset, b.offset, RangeEnd(a), RangeEnd(b))
    BY <1>1, <1>2, PathSingle DEF Equal, InOld, InNew, OldLen, NewLen, RangeEnd
  <2> HIDE DEF t
  <2>4. Items(<<t>>) = <<Equal(a, b)>>
    BY <2>2, ItemsSingle
  <2> QED
    BY <2>1, <2>2, <2>3, <2>4
<1> QED
  BY <1>4, <1>5, <1>6, <1>7

(* What the prefix and the suffix of two ranges of the texts have in common. *)
LEMMA PrefixAndSuffixMatch ==
  ASSUME NEW o \in Ranges, NEW n \in Ranges
  PROVE  /\ PrefixLen(o, n) \in 0..o.len /\ PrefixLen(o, n) \in 0..n.len
         /\ \A i \in 1..PrefixLen(o, n) : old[o.offset + i] = new[n.offset + i]
         /\ SuffixLen(o, n) \in 0..o.len /\ SuffixLen(o, n) \in 0..n.len
         /\ \A i \in 0..SuffixLen(o, n) - 1 : old[RangeEnd(o) - i] = new[RangeEnd(n) - i]
<1>1. o.len \in Nat /\ n.len \in Nat
  BY DEF Ranges
<1>2. \A i \in 1..PrefixLen(o, n) : old[o.offset + i] = new[n.offset + i]
  BY CommonPrefixLenProperty DEF PrefixLen
<1>3. \A i \in 0..SuffixLen(o, n) - 1 : old[RangeEnd(o) - i] = new[RangeEnd(n) - i]
  BY CommonSuffixLenProperty DEF SuffixLen
<1>4. \A i \in 0..Min2(o.len, n.len) : i \in 0..o.len /\ i \in 0..n.len
  BY <1>1 DEF Min2
<1> QED
  BY <1>2, <1>3, <1>4, PrefixLenType, SuffixLenType

(* A call of conquer() leaves tasks that lead from corner to corner of its box. *)
LEMMA ConquerTasksPath ==
  ASSUME NEW o \in Ranges, NEW n \in Ranges
  PROVE  /\ ConquerTasks(o, n) \in Seq(SoundTask)
         /\ ConquerTasks(o, n) \in Seq(Task)
         /\ Path(Items(ConquerTasks(o, n)), o.offset, n.offset, RangeEnd(o), RangeEnd(n))
<1> DEFINE p  == PrefixLen(o, n)
           o1 == SliceFrom(o, p)
           n1 == SliceFrom(n, p)
           s  == SuffixLen(o1, n1)
           prefix == PushUnlessEmpty(Equal(SliceTo(o, p), SliceTo(n, p)))
           om == SliceTo(o1, o1.len - s)
           nm == SliceTo(n1, n1.len - s)
           suffix == PushUnlessEmpty(Equal(SliceBack(o1, s), SliceBack(n1, s)))
<1>1. /\ o.offset \in Nat /\ n.offset \in Nat /\ o.len \in Nat /\ n.len \in Nat
      /\ p \in 0..o.len /\ p \in 0..n.len
      /\ \A i \in 1..p : old[o.offset + i] = new[n.offset + i]
  BY PrefixAndSuffixMatch DEF Ranges
<1>2. /\ o1 \in Ranges /\ o1.len = o.len - p /\ o1.offset = o.offset + p
      /\ n1 \in Ranges /\ n1.len = n.len - p /\ n1.offset = n.offset + p
  BY <1>1 DEF SliceFrom, MkRange, Ranges
<1>3. /\ s \in 0..o1.len /\ s \in 0..n1.len
      /\ \A i \in 0..s - 1 : old[RangeEnd(o1) - i] = new[RangeEnd(n1) - i]
  BY <1>2, PrefixAndSuffixMatch
<1>4. ConquerTasks(o, n) = prefix \o Middle(om, nm) \o suffix
  BY DEF ConquerTasks
<1>5. /\ SliceTo(o, p) \in Ranges /\ SliceTo(o, p).offset = o.offset /\ SliceTo(o, p).len = p
      /\ SliceTo(n, p) \in Ranges /\ SliceTo(n, p).offset = n.offset /\ SliceTo(n, p).len = p
  BY <1>1 DEF SliceTo, MkRange, Ranges
<1> HIDE DEF p, o1, n1, s
<1>6. /\ om \in Ranges /\ om.offset = o.offset + p /\ RangeEnd(om) = o.offset + o.len - s
      /\ nm \in Ranges /\ nm.offset = n.offset + p /\ RangeEnd(nm) = n.offset + n.len - s
  BY <1>1, <1>2, <1>3 DEF SliceTo, MkRange, Ranges, RangeEnd
<1> DEFINE os == SliceBack(o1, s)
           ns == SliceBack(n1, s)
<1>7. /\ os \in Ranges /\ os.offset = o.offset + o.len - s /\ os.len = s
      /\ ns \in Ranges /\ ns.offset = n.offset + n.len - s /\ ns.len = s
      /\ RangeEnd(os) = RangeEnd(o) /\ RangeEnd(ns) = RangeEnd(n)
  <2>1. /\ os = MkRange(o.offset + o.len - s, s)
        /\ ns = MkRange(n.offset + n.len - s, s)
    BY <1>1, <1>2, <1>3 DEF SliceBack, SliceFrom, MkRange
  <2>2. /\ s \in Nat /\ o.offset + o.len - s \in Nat /\ n.offset + n.len - s \in Nat
    BY <1>1, <1>2, <1>3
  <2> HIDE DEF os, ns
  <2> QED
    BY <1>1, <2>1, <2>2 DEF MkRange, Ranges, RangeEnd
<1>8. ASSUME NEW i \in 1..os.len PROVE old[os.offset + i] = new[ns.offset + i]
  <2>1. s - i \in 0..s - 1
    BY <1>1, <1>2, <1>3, <1>7
  <2>2. RangeEnd(o1) - (s - i) = os.offset + i /\ RangeEnd(n1) - (s - i) = ns.offset + i
    BY <1>1, <1>2, <1>3, <1>7 DEF RangeEnd
  <2> QED
    BY <1>3, <2>1, <2>2
<1> HIDE DEF os, ns
<1>9. /\ prefix \in Seq(SoundTask) /\ prefix \in Seq(Task)
      /\ Path(Items(prefix), o.offset, n.offset, om.offset, nm.offset)
  <2>1. RangeEnd(SliceTo(o, p)) = om.offset /\ RangeEnd(SliceTo(n, p)) = nm.offset
    BY <1>5, <1>6 DEF RangeEnd
  <2> QED
    BY <1>1, <1>5, <2>1, PushUnlessEmptyPath
<1> HIDE DEF om, nm
<1>10. /\ Middle(om, nm) \in Seq(SoundTask) /\ Middle(om, nm) \in Seq(Task)
       /\ Path(Items(Middle(om, nm)), om.offset, nm.offset, os.offset, ns.offset)
  BY <1>6, <1>7, MiddlePath
<1>11. /\ suffix \in Seq(SoundTask) /\ suffix \in Seq(Task)
       /\ Path(Items(suffix), os.offset, ns.offset, RangeEnd(o), RangeEnd(n))
  BY <1>7, <1>8, PushUnlessEmptyPath DEF os, ns
<1> HIDE DEF prefix, suffix
<1>12. /\ om.offset \in Nat /\ nm.offset \in Nat /\ os.offset \in Nat /\ ns.offset \in Nat
  BY <1>6, <1>7 DEF Ranges
<1> DEFINE both == prefix \o Middle(om, nm)
<1>13. /\ both \in Seq(SoundTask) /\ both \in Seq(Task)
       /\ Path(Items(both), o.offset, n.offset, os.offset, ns.offset)
  <2>1. /\ Items(prefix) \in Seq(DiffRange) /\ Items(Middle(om, nm)) \in Seq(DiffRange)
        /\ Items(both) = Items(prefix) \o Items(Middle(om, nm))
    BY <1>9, <1>10, ItemsConcat
  <2>2. both \in Seq(SoundTask) /\ both \in Seq(Task)
    BY <1>9, <1>10
  <2> HIDE DEF both
  <2> QED
    BY <1>1, <1>9, <1>10, <1>12, <2>1, <2>2, PathConcat
<1>14. /\ both \o suffix \in Seq(SoundTask) /\ both \o suffix \in Seq(Task)
       /\ Path(Items(both \o suffix), o.offset, n.offset, RangeEnd(o), RangeEnd(n))
  <2> HIDE DEF both
  <2>1. /\ Items(both) \in Seq(DiffRange) /\ Items(suffix) \in Seq(DiffRange)
        /\ Items(both \o suffix) = Items(both) \o Items(suffix)
    BY <1>11, <1>13, ItemsConcat
  <2>2. both \o suffix \in Seq(SoundTask) /\ both \o suffix \in Seq(Task)
    BY <1>11, <1>13
  <2> QED
    BY <1>1, <1>11, <1>12, <1>13, <2>1, <2>2, PathConcat
<1> QED
  BY <1>4, <1>14

-----------------------------------------------------------------------------

(* What is outstanding: the box of the search that runs, then the stack. *)
Searched ==
  IF phase \in {"forward", "backward"} THEN <<Equal(box.old, box.new)>> ELSE <<>>

(* What has been emitted and what is still to be searched, as lists of
   items. *)
LEMMA OutstandingType ==
  ASSUME Inv
  PROVE  /\ Outstanding = Searched \o Items(stack) /\ Outstanding \in Seq(DiffRange)
         /\ Searched \in Seq(DiffRange) /\ Items(stack) \in Seq(DiffRange)
         /\ phase \notin {"forward", "backward"} => Outstanding = Items(stack)
         /\ stack # <<>> =>
              /\ Tail(stack) \in Seq(Task) /\ Head(stack) \in Task
              /\ Items(Tail(stack)) \in Seq(DiffRange)
              /\ Items(stack) = <<Head(stack).item>> \o Items(Tail(stack))
<1>1. stack \in Seq(Task) /\ box.old \in Ranges /\ box.new \in Ranges
  BY DEF Inv, TypeOK
<1>2. Items(stack) \in Seq(DiffRange)
  BY <1>1, ItemsConcat
<1>3. Searched \in Seq(DiffRange)
  <2>1. Equal(box.old, box.new) \in DiffRange
    BY <1>1 DEF Equal, DiffRange
  <2> QED
    BY <2>1 DEF Searched
<1>4. Outstanding = Searched \o Items(stack)
  BY DEF Outstanding, Searched, Items
<1>5. /\ phase \notin {"forward", "backward"} => Outstanding = Items(stack)
      /\ Outstanding \in Seq(DiffRange)
  <2>1. \A s, t \in Seq(DiffRange) : s \o t \in Seq(DiffRange)
    OBVIOUS
  <2> QED
    BY <1>2, <1>3, <1>4, <2>1 DEF Searched
<1>6. ASSUME stack # <<>>
      PROVE  /\ Tail(stack) \in Seq(Task) /\ Head(stack) \in Task
             /\ Items(Tail(stack)) \in Seq(DiffRange)
             /\ Items(stack) = <<Head(stack).item>> \o Items(Tail(stack))
  <2>1. /\ Tail(stack) \in Seq(Task) /\ Head(stack) \in Task /\ <<Head(stack)>> \in Seq(Task)
        /\ stack = <<Head(stack)>> \o Tail(stack)
    BY <1>1, <1>6
  <2>2. Items(<<Head(stack)>> \o Tail(stack)) = Items(<<Head(stack)>>) \o Items(Tail(stack))
    BY <2>1, ItemsConcat
  <2> QED
    BY <2>1, <2>2, ItemsConcat, ItemsSingle
<1> QED
  BY <1>2, <1>3, <1>4, <1>5, <1>6

(* Cover facts that every step uses: the texts stay, and so do their lengths. *)
LEMMA FixedTiles ==
  ASSUME UNCHANGED texts
  PROVE  Matching(old, new)' = Matching(old, new) /\ SoundTask' = SoundTask
BY DEF texts, Matching, SoundTask

(* One box of the whole texts covers them. *)
LEMMA InitTiled == Init => Tiled
<1> SUFFICES ASSUME Init PROVE Tiled
  OBVIOUS
<1> DEFINE o == MkRange(0, Len(old))
           n == MkRange(0, Len(new))
           t == ConquerTask(o, n)
<1>1. Inv
  BY InitInv
<1>2. Len(old) \in Nat /\ Len(new) \in Nat
  BY <1>1 DEF Inv, TypeOK
<1>3. o \in Ranges /\ n \in Ranges /\ o.offset = 0 /\ n.offset = 0 /\ o.len = Len(old) /\ n.len = Len(new)
  BY <1>2 DEF MkRange, Ranges
<1>4. phase = "conquer" /\ stack = <<t>> /\ solution = <<>>
  BY DEF Init
<1> HIDE DEF o, n
<1>5. t \in Task /\ t \in SoundTask /\ t.item = Equal(o, n) /\ Equal(o, n) \in DiffRange
  BY <1>3 DEF ConquerTask, Equal, Task, DiffRange, SoundTask
<1> HIDE DEF t
<1>6. Outstanding = <<Equal(o, n)>>
  <2>1. Outstanding = Items(stack)
    BY <1>1, <1>4, OutstandingType
  <2>2. Items(<<t>>) = <<t.item>>
    BY <1>5, ItemsSingle
  <2> QED
    BY <1>4, <1>5, <2>1, <2>2
<1>7. Path(<<Equal(o, n)>>, 0, 0, Len(old), Len(new))
  BY <1>2, <1>3, <1>5, PathSingle DEF Equal, InOld, InNew, OldLen, NewLen
<1>8. Path(solution, 0, 0, 0, 0)
  BY <1>4, PathEmpty
<1>9. solution \in Seq(Matching(old, new)) /\ stack \in Seq(SoundTask)
  BY <1>4, <1>5
<1> QED
  BY <1>4, <1>6, <1>7, <1>8, <1>9 DEF Tiled

(* A call of conquer() is replaced by what covers its box. *)
LEMMA ConquerBoxTiled == Inv /\ Tiled /\ ConquerBox => Tiled'
<1> SUFFICES ASSUME Inv, Tiled, ConquerBox PROVE Tiled'
  OBVIOUS
<1> DEFINE call == Head(stack).item
           o == call.old
           n == call.new
           tasks == ConquerTasks(o, n)
           rest == Tail(stack)
<1>1. /\ UNCHANGED texts /\ UNCHANGED solution /\ stack # <<>> /\ stack' = tasks \o rest
      /\ phase = "conquer" /\ phase' = "conquer" /\ Head(stack).op = "conquer"
  BY DEF ConquerBox, Top
<1>2. stack \in Seq(SoundTask)
  BY DEF Tiled
<1>3. /\ rest \in Seq(SoundTask) /\ Head(stack) \in SoundTask
      /\ rest \in Seq(Task) /\ Head(stack) \in Task /\ Items(rest) \in Seq(DiffRange)
      /\ Outstanding = <<call>> \o Items(rest)
  BY <1>1, <1>2, OutstandingType
<1>4. call \in DiffRange /\ call.kind = "Equal" /\ o \in Ranges /\ n \in Ranges
  BY <1>1, <1>3 DEF SoundTask, Task, DiffRange
<1>5. OldLen(call) = o.len /\ NewLen(call) = n.len /\ InOld(call) /\ InNew(call)
  BY <1>4 DEF OldLen, NewLen, InOld, InNew
<1> HIDE DEF call
<1>6. PICK x \in Nat, y \in Nat : Path(solution, 0, 0, x, y) /\ Path(Outstanding, x, y, Len(old), Len(new))
  BY DEF Tiled
<1>7. /\ o.offset = x /\ n.offset = y
      /\ Path(Items(rest), x + o.len, y + n.len, Len(old), Len(new))
      /\ x + o.len \in Nat /\ y + n.len \in Nat
  BY <1>3, <1>4, <1>5, <1>6, PathCons DEF Begins
<1> HIDE DEF o, n
<1>8. /\ tasks \in Seq(SoundTask) /\ tasks \in Seq(Task)
      /\ Path(Items(tasks), x, y, x + o.len, y + n.len)
  BY <1>4, <1>7, ConquerTasksPath DEF RangeEnd
<1> HIDE DEF tasks, rest
<1>9. Items(tasks) \in Seq(DiffRange) /\ Items(tasks \o rest) = Items(tasks) \o Items(rest)
  BY <1>3, <1>8, ItemsConcat
<1>10. Path(Items(tasks \o rest), x, y, Len(old), Len(new))
  BY <1>3, <1>7, <1>8, <1>9, PathConcat
<1>11. Outstanding' = Items(tasks \o rest)
  <2>1. Outstanding' = Searched' \o Items(stack')
    BY DEF Outstanding, Searched, Items
  <2>2. Searched' = <<>>
    BY <1>1 DEF Searched
  <2>3. Items(tasks \o rest) \in Seq(DiffRange)
    BY <1>3, <1>9
  <2> QED
    BY <1>1, <2>1, <2>2, <2>3
<1>12. stack' \in Seq(SoundTask)
  BY <1>1, <1>3, <1>8
<1> QED
  BY <1>1, <1>6, <1>10, <1>11, <1>12, FixedTiles DEF Tiled, texts

(* Emitting an item moves the border between solution and stack past it. *)
LEMMA PushTiled == Inv /\ Tiled /\ Push => Tiled'
<1> SUFFICES ASSUME Inv, Tiled, Push PROVE Tiled'
  OBVIOUS
<1> DEFINE item == Head(stack).item
           rest == Tail(stack)
<1>1. /\ UNCHANGED texts /\ stack # <<>> /\ stack' = rest /\ solution' = Append(solution, item)
      /\ phase = "conquer" /\ phase' = "conquer" /\ Head(stack).op = "push"
  BY DEF Push, Top
<1>2. stack \in Seq(SoundTask) /\ solution \in Seq(Matching(old, new))
  BY DEF Tiled
<1>3. /\ rest \in Seq(SoundTask) /\ Head(stack) \in SoundTask
      /\ Head(stack) \in Task /\ Items(rest) \in Seq(DiffRange)
      /\ Outstanding = <<item>> \o Items(rest)
  <2>1. rest \in Seq(SoundTask) /\ Head(stack) \in SoundTask
    BY <1>1, <1>2
  <2> QED
    BY <1>1, <2>1, OutstandingType
<1>4. item \in Matching(old, new) /\ item \in DiffRange
  BY <1>1, <1>3 DEF SoundTask, Matching
<1> HIDE DEF item
<1>5. PICK x \in Nat, y \in Nat : Path(solution, 0, 0, x, y) /\ Path(Outstanding, x, y, Len(old), Len(new))
  BY DEF Tiled
<1> DEFINE u == x + OldLen(item)
           v == y + NewLen(item)
<1>6. Begins(item, x, y) /\ u \in Nat /\ v \in Nat /\ Path(Items(rest), u, v, Len(old), Len(new))
  BY <1>3, <1>4, <1>5, PathCons
<1>7. Path(<<item>>, x, y, u, v)
  BY <1>4, <1>6, PathSingle DEF Begins
<1> HIDE DEF u, v, rest
<1>8. solution' \in Seq(Matching(old, new)) /\ stack' \in Seq(SoundTask)
  BY <1>1, <1>2, <1>3, <1>4
<1>9. Path(solution', 0, 0, u, v)
  <2>1. solution \in Seq(DiffRange) /\ <<item>> \in Seq(DiffRange) /\ solution' = solution \o <<item>>
    <3>1. solution \in Seq(DiffRange)
      BY DEF Inv, TypeOK
    <3> QED
      BY <1>1, <1>4, <3>1
  <2> QED
    BY <1>5, <1>6, <1>7, <2>1, PathConcat
<1>10. Outstanding' = Items(rest)
  <2>1. Outstanding' = Searched' \o Items(stack')
    BY DEF Outstanding, Searched, Items
  <2>2. Searched' = <<>>
    BY <1>1 DEF Searched
  <2>3. Items(rest) \in Seq(DiffRange)
    BY <1>3, <1>3
  <2> QED
    BY <1>1, <2>1, <2>2, <2>3
<1> QED
  BY <1>1, <1>6, <1>8, <1>9, <1>10, FixedTiles DEF Tiled, texts

(* The box of a search is the one its task named. *)
LEMMA StartSearchTiled == Inv /\ Tiled /\ StartSearch => Tiled'
<1> SUFFICES ASSUME Inv, Tiled, StartSearch PROVE Tiled'
  OBVIOUS
<1> DEFINE item == Head(stack).item
           rest == Tail(stack)
<1>1. /\ UNCHANGED texts /\ UNCHANGED solution /\ stack # <<>> /\ stack' = rest
      /\ phase = "conquer" /\ phase' = "forward" /\ Head(stack).op = "search"
      /\ box' = [old |-> item.old, new |-> item.new]
  BY DEF StartSearch, Top
<1>2. stack \in Seq(SoundTask)
  BY DEF Tiled
<1>3. /\ rest \in Seq(SoundTask) /\ Head(stack) \in SoundTask /\ Head(stack) \in Task
      /\ Items(rest) \in Seq(DiffRange)
      /\ Outstanding = <<item>> \o Items(rest)
  BY <1>1, <1>2, OutstandingType
<1>4. item \in DiffRange /\ item.kind = "Equal"
  BY <1>1, <1>3 DEF SoundTask, Task
<1>5. Searched' = <<item>>
  <2>1. Equal(item.old, item.new) = item
    BY <1>4 DEF Equal, DiffRange
  <2>2. Searched' = <<Equal(box'.old, box'.new)>>
    BY <1>1 DEF Searched
  <2>3. box'.old = item.old /\ box'.new = item.new
    BY <1>1
  <2> HIDE DEF item
  <2> QED
    BY <2>1, <2>2, <2>3
<1> HIDE DEF item, rest
<1>6. Outstanding' = Outstanding
  <2>1. Outstanding' = Searched' \o Items(stack')
    BY DEF Outstanding, Searched, Items
  <2> QED
    BY <1>1, <1>3, <1>5, <2>1
<1>7. stack' \in Seq(SoundTask)
  BY <1>1, <1>3
<1> QED
  BY <1>1, <1>6, <1>7, FixedTiles DEF Tiled, texts

(* A sequence fact. *)
LEMMA TwoInFront ==
  ASSUME NEW T, NEW a \in T, NEW b \in T, NEW s \in Seq(T)
  PROVE  <<a, b>> \o s = <<a>> \o (<<b>> \o s)
<1>1. <<a>> \in Seq(T) /\ <<b>> \in Seq(T)
  OBVIOUS
<1>2. <<a>> \o <<b>> = <<a, b>>
  <2>1. /\ <<a, b>> \in Seq(T) /\ Len(<<a, b>>) = 2
        /\ <<a, b>>[1] = a /\ <<a, b>>[2] = b
    OBVIOUS
  <2>2. /\ Len(<<a>>) = 1 /\ Len(<<b>>) = 1 /\ <<a>>[1] = a /\ <<b>>[1] = b
        /\ 1..1 = {1} /\ 1 + 1 = 2
    OBVIOUS
  <2>3. /\ Len(<<a, b>>) = Len(<<a>>) + Len(<<b>>)
        /\ \A i \in 1..Len(<<a>>) : <<a, b>>[i] = <<a>>[i]
        /\ \A i \in 1..Len(<<b>>) : <<a, b>>[Len(<<a>>) + i] = <<b>>[i]
    BY <2>1, <2>2
  <2> QED
    BY <1>1, <2>1, <2>3, ConcatElements
<1>3. (<<a>> \o <<b>>) \o s = <<a>> \o (<<b>> \o s)
  BY <1>1
<1> QED
  BY <1>2, <1>3

(* A box is split into the two in its corners, between the same places. *)
LEMMA SplitAtTiled ==
  ASSUME Inv, Tiled, phase \in {"forward", "backward"}, UNCHANGED <<texts, solution, box>>,
         NEW px, NEW py, SplitAt(px, py)
  PROVE  Tiled'
<1> DEFINE a == ConquerTask(SliceTo(box.old, px), SliceTo(box.new, py))
           b == ConquerTask(SliceFrom(box.old, px), SliceFrom(box.new, py))
           whole == Equal(box.old, box.new)
<1>1. /\ UNCHANGED texts /\ UNCHANGED solution /\ phase' = "conquer"
      /\ stack' = <<a, b>> \o stack
  BY DEF SplitAt
<1>2. /\ px \in 0..box.old.len /\ py \in 0..box.new.len
      /\ box.old \in Ranges /\ box.new \in Ranges
      /\ box.old.len \in Nat /\ box.new.len \in Nat
      /\ stack \in Seq(SoundTask) /\ stack \in Seq(Task)
  BY DEF SplitAt, OldBox, NewBox, Inv, TypeOK, Tiled, Ranges
<1>3. /\ SliceTo(box.old, px) = MkRange(box.old.offset, px)
      /\ SliceTo(box.new, py) = MkRange(box.new.offset, py)
      /\ SliceFrom(box.old, px) = MkRange(box.old.offset + px, box.old.len - px)
      /\ SliceFrom(box.new, py) = MkRange(box.new.offset + py, box.new.len - py)
  BY DEF SliceTo, SliceFrom
<1>4. /\ a \in Task /\ a \in SoundTask /\ a.item \in DiffRange /\ a.item.kind = "Equal"
      /\ a.item.old = MkRange(box.old.offset, px) /\ a.item.new = MkRange(box.new.offset, py)
  <2>1. MkRange(box.old.offset, px) \in Ranges /\ MkRange(box.new.offset, py) \in Ranges
    BY <1>2 DEF MkRange, Ranges
  <2> QED
    BY <1>3, <2>1 DEF ConquerTask, Equal, Task, SoundTask, DiffRange
<1>5. /\ b \in Task /\ b \in SoundTask /\ b.item \in DiffRange /\ b.item.kind = "Equal"
      /\ b.item.old = MkRange(box.old.offset + px, box.old.len - px)
      /\ b.item.new = MkRange(box.new.offset + py, box.new.len - py)
  <2>1. /\ MkRange(box.old.offset + px, box.old.len - px) \in Ranges
        /\ MkRange(box.new.offset + py, box.new.len - py) \in Ranges
    BY SMTT(60), <1>2 DEF MkRange, Ranges
  <2> QED
    BY <1>3, <2>1 DEF ConquerTask, Equal, Task, SoundTask, DiffRange
<1>6. whole \in DiffRange /\ whole.kind = "Equal" /\ whole.old = box.old /\ whole.new = box.new
  BY <1>2 DEF Equal, DiffRange
<1> HIDE DEF a, b, whole
<1>7. Outstanding = <<whole>> \o Items(stack) /\ Items(stack) \in Seq(DiffRange)
  BY OutstandingType DEF Searched, whole
<1>8. Outstanding' = <<a.item>> \o (<<b.item>> \o Items(stack))
  <2>1. Outstanding' = Searched' \o Items(stack')
    BY DEF Outstanding, Searched, Items
  <2>2. Searched' = <<>>
    BY <1>1 DEF Searched
  <2>3. /\ stack' = <<a>> \o (<<b>> \o stack) /\ <<a>> \in Seq(Task) /\ <<b>> \in Seq(Task)
        /\ <<b>> \o stack \in Seq(Task)
    <3>1. <<a, b>> \o stack = <<a>> \o (<<b>> \o stack)
      <4>1. a \in Task /\ b \in Task /\ stack \in Seq(Task)
        BY <1>2, <1>4, <1>5
      <4> QED
        BY <4>1, TwoInFront
    <3> QED
      BY <1>1, <1>2, <1>4, <1>5, <3>1
  <2>4. Items(stack') = <<a.item>> \o (<<b.item>> \o Items(stack))
    BY <1>2, <1>4, <1>5, <2>3, ItemsConcat, ItemsSingle
  <2>5. Items(stack') \in Seq(DiffRange)
    BY <1>4, <1>5, <1>7, <2>4
  <2> QED
    BY <2>1, <2>2, <2>4, <2>5
<1>9. PICK x \in Nat, y \in Nat : Path(solution, 0, 0, x, y) /\ Path(Outstanding, x, y, Len(old), Len(new))
  BY DEF Tiled
<1>10. /\ OldLen(whole) = box.old.len /\ NewLen(whole) = box.new.len /\ InOld(whole) /\ InNew(whole)
       /\ OldLen(a.item) = px /\ NewLen(a.item) = py /\ InOld(a.item) /\ InNew(a.item)
       /\ OldLen(b.item) = box.old.len - px /\ NewLen(b.item) = box.new.len - py
       /\ InOld(b.item) /\ InNew(b.item)
       /\ a.item.old.offset = box.old.offset /\ a.item.new.offset = box.new.offset
       /\ b.item.old.offset = box.old.offset + px /\ b.item.new.offset = box.new.offset + py
  BY <1>4, <1>5, <1>6 DEF OldLen, NewLen, InOld, InNew, MkRange
<1>11. /\ box.old.offset = x /\ box.new.offset = y
       /\ Path(Items(stack), x + box.old.len, y + box.new.len, Len(old), Len(new))
  BY <1>6, <1>7, <1>9, <1>10, PathCons DEF Begins
<1>12. Path(<<b.item>> \o Items(stack), x + px, y + py, Len(old), Len(new))
  <2>1. /\ x + px \in Nat /\ y + py \in Nat
        /\ (x + px) + OldLen(b.item) = x + box.old.len
        /\ (y + py) + NewLen(b.item) = y + box.new.len
    <3>1. /\ px \in Nat /\ py \in Nat /\ box.old.len \in Nat /\ box.new.len \in Nat
          /\ OldLen(b.item) = box.old.len - px /\ NewLen(b.item) = box.new.len - py
      BY <1>2, <1>10
    <3> QED
      BY <3>1
  <2>2. Begins(b.item, x + px, y + py)
    BY <1>10, <1>11 DEF Begins
  <2> QED
    BY <1>5, <1>7, <1>11, <2>1, <2>2, PathCons
<1>13. Path(Outstanding', x, y, Len(old), Len(new))
  <2>1. Begins(a.item, x, y)
    BY <1>10, <1>11 DEF Begins
  <2>2. <<b.item>> \o Items(stack) \in Seq(DiffRange)
    BY <1>5, <1>7
  <2> QED
    BY <1>4, <1>8, <1>10, <1>12, <2>1, <2>2, PathCons
<1>14. stack' \in Seq(SoundTask)
  BY <1>1, <1>2, <1>4, <1>5
<1> QED
  BY <1>1, <1>9, <1>13, <1>14, FixedTiles DEF Tiled, texts

(* A step of a search that goes on leaves everything where it is. *)
LEMMA NextKTiled ==
  ASSUME Inv, Tiled, UNCHANGED <<texts, solution, box, stack>>,
         \/ phase = "forward" /\ NextForward
         \/ phase = "backward" /\ NextBackward
  PROVE  Tiled'
<1>1. phase \in {"forward", "backward"} /\ phase' \in {"forward", "backward"}
  BY DEF NextForward, NextBackward
<1>2. Outstanding' = Outstanding
  BY <1>1 DEF Outstanding
<1> QED
  BY <1>1, <1>2, FixedTiles DEF Tiled, texts

(* So the whole recursion covers both texts at every step. *)
LEMMA NextTiled == Inv /\ Tiled /\ [Next]_vars => Tiled'
<1> SUFFICES ASSUME Inv, Tiled, [Next]_vars PROVE Tiled'
  OBVIOUS
<1>1. CASE ConquerBox
  BY <1>1, ConquerBoxTiled
<1>2. CASE Push
  BY <1>2, PushTiled
<1>3. CASE StartSearch
  BY <1>3, StartSearchTiled
<1>4. CASE Forward
  <2> DEFINE x0 == XStart(vf)
  <2>1. /\ phase = "forward" /\ UNCHANGED <<texts, solution, box>>
        /\ SplitAt(x0, x0 - k) \/ (NextForward /\ UNCHANGED stack)
    BY <1>4 DEF Forward, Searching
  <2> HIDE DEF x0
  <2> QED
    BY <2>1, SplitAtTiled, NextKTiled
<1>5. CASE Backward
  <2> DEFINE x == XStart(vb) + BackwardSnake(XStart(vb), XStart(vb) - k)
  <2>1. /\ phase = "backward" /\ UNCHANGED <<texts, solution, box>>
        /\ SplitAt(OldBox - x, NewBox - (x - k)) \/ (NextBackward /\ UNCHANGED stack)
    BY <1>5 DEF Backward, Searching
  <2> HIDE DEF x
  <2> QED
    BY <2>1, SplitAtTiled, NextKTiled
<1>6. CASE Return
  <2>1. /\ UNCHANGED <<texts, solution, stack>> /\ stack = <<>>
        /\ Outstanding' = Outstanding
    BY <1>6 DEF Return, Outstanding, searchVars
  <2> QED
    BY <2>1, FixedTiles DEF Tiled, texts
<1>7. CASE UNCHANGED vars
  <2>1. UNCHANGED <<texts, solution, stack, phase>> /\ Outstanding' = Outstanding
    BY <1>7 DEF vars, texts, Outstanding
  <2> QED
    BY <2>1, FixedTiles DEF Tiled, texts
<1> QED
  BY <1>1, <1>2, <1>3, <1>4, <1>5, <1>6, <1>7 DEF Next

(* Items that lead from the beginnings to the ends are a partition. *)
LEMMA TiledPartition == Inv /\ Tiled => Partition
<1> SUFFICES ASSUME Inv, Tiled PROVE Partition
  OBVIOUS
<1>1. solution \in Seq(DiffRange) /\ Outstanding \in Seq(DiffRange)
  <2>1. solution \in Seq(DiffRange)
    BY DEF Inv, TypeOK
  <2>2. Outstanding \in Seq(DiffRange)
    BY OutstandingType
  <2> QED
    BY <2>1, <2>2
<1>2. Path(solution \o Outstanding, 0, 0, Len(old), Len(new))
  BY <1>1, PathConcat DEF Tiled
<1>3. solution \o Outstanding \in Seq(DiffRange)
  BY <1>1
<1> QED
  BY <1>2, <1>3, PathCovers DEF Partition

(* At the end the items emitted are all of it, and none equates what differs. *)
LEMMA TiledAligns ==
  ASSUME Inv, Tiled, phase = "done"
  PROVE  /\ Aligns(solution, old, new)
         /\ solution \in Seq(Matching(old, new))
         /\ Path(solution, 0, 0, Len(old), Len(new))
<1>1. solution \in Seq(Matching(old, new)) /\ solution \in Seq(DiffRange)
  BY DEF Tiled, Inv, TypeOK
<1>2. Outstanding = <<>>
  BY OutstandingType DEF Tiled, Items
<1>3. Path(solution, 0, 0, Len(old), Len(new))
  BY <1>2, PathEmpty DEF Tiled
<1> QED
  BY <1>1, <1>3, PathCovers, MatchingEquates DEF Aligns

-----------------------------------------------------------------------------
(* One search *)

(***************************************************************************)
(* One search, for any two texts a and b of n and m elements.  How far     *)
(* diagonal j is from the one that ends in the corner (n, m):              *)
(***************************************************************************)
Far(j, n, m) == Max2(j - (n - m), (n - m) - j)

(***************************************************************************)
(* What the cell of diagonal j is worth once it has been written at the    *)
(* level e: no point of the diagonal that e edits reach lies beyond it; it *)
(* is such a point itself, if it lies in the box; and if it does not, then *)
(* the path to it has left the box where the corner was nearer.            *)
(***************************************************************************)
Furthest(a, b, n, m, j, e, z) ==
  /\ z \in Nat /\ j <= z
  /\ \A x \in 0..n : x - j \in 0..m /\ Within(a, b, 0, 0, x, x - j, e) => x <= z
  /\ z <= n /\ z - j <= m => Within(a, b, 0, 0, z, z - j, e)
  /\ (z <= n /\ z - j <= m) \/ Within(a, b, 0, 0, n, m, e + Far(j, n, m) - 2)

(* The last edit of such a path, a deletion or an insertion, ends at or
   before x, where the last snake starts. *)
Deletion(a, b, n, m, j, e, x) ==
  \A z \in 1..n : z - j \in 0..m /\ Within(a, b, 0, 0, z - 1, z - j, e - 1) => z <= x
Insertion(a, b, n, m, j, e, x) ==
  \A z \in 0..n : z - j \in 1..m /\ Within(a, b, 0, 0, z, z - j - 1, e - 1) => z <= x

Reaches(a, b, n, m, j, e, x) ==
  /\ x \in Nat /\ j <= x
  /\ x <= n /\ x - j <= m => Within(a, b, 0, 0, x, x - j, e)
  /\ (x <= n /\ x - j <= m) \/ Within(a, b, 0, 0, n, m, e + Far(j, n, m) - 2)

Starts(a, b, n, m, j, e, x) ==
  /\ Reaches(a, b, n, m, j, e, x)
  /\ Deletion(a, b, n, m, j, e, x)
  /\ Insertion(a, b, n, m, j, e, x)

(* A deletion from the diagonal below. *)
LEMMA FromBelow ==
  ASSUME NEW a, NEW b, NEW n \in Nat, NEW m \in Nat, NEW j \in Int, NEW e \in Int, NEW z,
         Furthest(a, b, n, m, j - 1, e - 1, z)
  PROVE  Reaches(a, b, n, m, j, e, z + 1) /\ Deletion(a, b, n, m, j, e, z + 1)
<1> DEFINE x == z + 1
<1>1. /\ z \in Nat /\ j - 1 <= z /\ x \in Nat /\ j <= x
      /\ e - 1 \in Int /\ (e - 1) + 1 = e /\ z - (j - 1) = x - j
  BY DEF Furthest
<1>2. ASSUME x <= n, x - j <= m PROVE Within(a, b, 0, 0, x, x - j, e)
  <2>1. Within(a, b, 0, 0, z, x - j, e - 1)
    BY <1>1, <1>2 DEF Furthest
  <2>2. x - j \in Nat /\ 0 \in Nat /\ z <= x /\ x - j <= x - j /\ 0 <= z /\ 0 <= x - j /\ 1 \in Int
    BY <1>1
  <2> HIDE DEF Within
  <2>3. Within(a, b, z, x - j, x, x - j, 1)
    BY <1>1, <2>2, WithinNone
  <2>4. Within(a, b, 0, 0, x, x - j, (e - 1) + 1)
    BY <1>1, <2>1, <2>2, <2>3, WithinConcat
  <2> QED
    BY <1>1, <2>4
<1>3. ASSUME ~(x <= n /\ x - j <= m) PROVE Within(a, b, 0, 0, n, m, e + Far(j, n, m) - 2)
  <2>1. CASE ~(z <= n /\ z - (j - 1) <= m)
    <3>1. Within(a, b, 0, 0, n, m, (e - 1) + Far(j - 1, n, m) - 2)
      BY <2>1 DEF Furthest
    <3>2. (e - 1) + Far(j - 1, n, m) - 2 <= e + Far(j, n, m) - 2
      BY DEF Far, Max2
    <3>3. (e - 1) + Far(j - 1, n, m) - 2 \in Int /\ e + Far(j, n, m) - 2 \in Int /\ 0 \in Nat
      BY DEF Far, Max2
    <3> QED
      BY <3>1, <3>2, <3>3, WithinMore
  <2>2. CASE z <= n /\ z - (j - 1) <= m
    <3>1. z = n /\ x - j <= m /\ x - j \in Nat
      BY <1>1, <1>3, <2>2
    <3>2. Within(a, b, 0, 0, n, x - j, e - 1)
      BY <1>1, <2>2, <3>1 DEF Furthest
    <3>3. Within(a, b, n, x - j, n, m, m - (x - j))
      <4>1. (n - n) + (m - (x - j)) <= m - (x - j) /\ m - (x - j) \in Int /\ n <= n
        BY <3>1
      <4> QED
        BY <3>1, <4>1, WithinNone
    <3>4. Within(a, b, 0, 0, n, m, (e - 1) + (m - (x - j)))
      <4>1. 0 \in Nat /\ 0 <= n /\ n <= n /\ 0 <= x - j /\ m - (x - j) \in Int
        BY <3>1
      <4> QED
        BY <1>1, <3>1, <3>2, <3>3, <4>1, WithinConcat
    <3>5. (e - 1) + (m - (x - j)) = e + Far(j, n, m) - 2
      BY <1>1, <3>1 DEF Far, Max2
    <3> QED
      BY <3>4, <3>5
  <2> QED
    BY <2>1, <2>2
<1>4. ASSUME NEW y \in 1..n, y - j \in 0..m, Within(a, b, 0, 0, y - 1, y - j, e - 1) PROVE y <= x
  <2>1. y - 1 \in 0..n /\ (y - 1) - (j - 1) = y - j
    OBVIOUS
  <2>2. y - 1 <= z
    BY <1>4, <2>1 DEF Furthest
  <2> QED
    BY <1>1, <2>2
<1>5. Deletion(a, b, n, m, j, e, x)
  BY <1>4 DEF Deletion
<1>6. Reaches(a, b, n, m, j, e, x)
  BY <1>1, <1>2, <1>3 DEF Reaches
<1> QED
  BY <1>5, <1>6

(* An insertion from the diagonal above. *)
LEMMA FromAbove ==
  ASSUME NEW a, NEW b, NEW n \in Nat, NEW m \in Nat, NEW j \in Int, NEW e \in Int, NEW z,
         Furthest(a, b, n, m, j + 1, e - 1, z)
  PROVE  Reaches(a, b, n, m, j, e, z) /\ Insertion(a, b, n, m, j, e, z)
<1>1. /\ z \in Nat /\ j + 1 <= z /\ j <= z
      /\ e - 1 \in Int /\ (e - 1) + 1 = e /\ z - (j + 1) = z - j - 1
  BY DEF Furthest
<1>2. ASSUME z <= n, z - j <= m PROVE Within(a, b, 0, 0, z, z - j, e)
  <2>1. Within(a, b, 0, 0, z, z - j - 1, e - 1)
    BY <1>1, <1>2 DEF Furthest
  <2>2. /\ z - j \in Nat /\ z - j - 1 \in Nat /\ 0 \in Nat /\ z <= z /\ z - j - 1 <= z - j
        /\ 0 <= z /\ 0 <= z - j - 1 /\ 1 \in Int
    BY <1>1
  <2> HIDE DEF Within
  <2>3. Within(a, b, z, z - j - 1, z, z - j, 1)
    BY <1>1, <2>2, WithinNone
  <2>4. Within(a, b, 0, 0, z, z - j, (e - 1) + 1)
    BY <1>1, <2>1, <2>2, <2>3, WithinConcat
  <2> QED
    BY <1>1, <2>4
<1>3. ASSUME ~(z <= n /\ z - j <= m) PROVE Within(a, b, 0, 0, n, m, e + Far(j, n, m) - 2)
  <2>1. CASE ~(z <= n /\ z - (j + 1) <= m)
    <3>1. Within(a, b, 0, 0, n, m, (e - 1) + Far(j + 1, n, m) - 2)
      BY <2>1 DEF Furthest
    <3>2. (e - 1) + Far(j + 1, n, m) - 2 <= e + Far(j, n, m) - 2
      BY DEF Far, Max2
    <3>3. (e - 1) + Far(j + 1, n, m) - 2 \in Int /\ e + Far(j, n, m) - 2 \in Int /\ 0 \in Nat
      BY DEF Far, Max2
    <3> QED
      BY <3>1, <3>2, <3>3, WithinMore
  <2>2. CASE z <= n /\ z - (j + 1) <= m
    <3>1. z - j - 1 = m /\ z <= n
      BY <1>1, <1>3, <2>2
    <3>2. Within(a, b, 0, 0, z, m, e - 1)
      BY <1>1, <2>2, <3>1 DEF Furthest
    <3>3. Within(a, b, z, m, n, m, n - z)
      <4>1. (n - z) + (m - m) <= n - z /\ n - z \in Int /\ m <= m
        BY <1>1
      <4> QED
        BY <1>1, <3>1, <4>1, WithinNone
    <3>4. Within(a, b, 0, 0, n, m, (e - 1) + (n - z))
      <4>1. 0 \in Nat /\ 0 <= z /\ m <= m /\ 0 <= m /\ n - z \in Int
        BY <1>1
      <4> QED
        BY <1>1, <3>1, <3>2, <3>3, <4>1, WithinConcat
    <3>5. (e - 1) + (n - z) = e + Far(j, n, m) - 2
      BY <1>1, <3>1 DEF Far, Max2
    <3> QED
      BY <3>4, <3>5
  <2> QED
    BY <2>1, <2>2
<1>4. ASSUME NEW y \in 0..n, y - j \in 1..m, Within(a, b, 0, 0, y, y - j - 1, e - 1) PROVE y <= z
  <2>1. y - (j + 1) \in 0..m /\ y - (j + 1) = y - j - 1
    BY <1>4
  <2> QED
    BY <1>4, <2>1 DEF Furthest
<1>5. Insertion(a, b, n, m, j, e, z)
  BY <1>4 DEF Insertion
<1>6. Reaches(a, b, n, m, j, e, z)
  BY <1>1, <1>2, <1>3 DEF Reaches
<1> QED
  BY <1>5, <1>6

(* The greater of two starts. *)
LEMMA LaterStart ==
  ASSUME NEW a, NEW b, NEW n \in Nat, NEW m \in Nat, NEW j \in Int, NEW e \in Int, NEW x \in Int, NEW y \in Int, y <= x
  PROVE  /\ Deletion(a, b, n, m, j, e, y) => Deletion(a, b, n, m, j, e, x)
         /\ Insertion(a, b, n, m, j, e, y) => Insertion(a, b, n, m, j, e, x)
BY DEF Deletion, Insertion

(* What XStart() takes from the cells of the neighbours. *)
Start(e0, j, x, below, above) ==
  IF e0 = 0 THEN x = 0
  ELSE x = IF j = -e0 \/ (j # e0 /\ below < above) THEN above ELSE below + 1

(* It is where the last snake starts. *)
LEMMA StartsThere ==
  ASSUME NEW a, NEW b, NEW n \in Nat, NEW m \in Nat, NEW e \in Nat, NEW j \in Int,
         NEW below, NEW above, NEW x, Start(e, j, x, below, above), -e <= j, j <= e,
         e # 0 /\ j # -e => Furthest(a, b, n, m, j - 1, e - 1, below),
         e # 0 /\ j # e => Furthest(a, b, n, m, j + 1, e - 1, above)
  PROVE  Starts(a, b, n, m, j, e, x)
<1>1. CASE e = 0
  <2>1. j = 0 /\ x = 0
    BY <1>1 DEF Start
  <2>2. Within(a, b, 0, 0, 0, 0, 0)
    BY WithinNone
  <2>3. Reaches(a, b, n, m, j, e, x)
    BY <1>1, <2>1, <2>2 DEF Reaches
  <2>4. Deletion(a, b, n, m, j, e, x)
    <3> SUFFICES ASSUME NEW z \in 1..n, z - j \in 0..m, Within(a, b, 0, 0, z - 1, z - j, e - 1) PROVE FALSE
      BY DEF Deletion
    <3>1. e - 1 \in Int /\ z - 1 \in Nat /\ z - j \in Nat /\ 0 \in Nat /\ 0 <= z - 1 /\ 0 <= z - j
      OBVIOUS
    <3>2. 0 <= e - 1
      BY <3>1, WithinBound
    <3> QED
      BY <1>1, <3>2
  <2>5. Insertion(a, b, n, m, j, e, x)
    <3> SUFFICES ASSUME NEW z \in 0..n, z - j \in 1..m, Within(a, b, 0, 0, z, z - j - 1, e - 1) PROVE FALSE
      BY DEF Insertion
    <3>1. e - 1 \in Int /\ z \in Nat /\ z - j - 1 \in Nat /\ 0 \in Nat /\ 0 <= z /\ 0 <= z - j - 1
      OBVIOUS
    <3>2. 0 <= e - 1
      BY <3>1, WithinBound
    <3> QED
      BY <1>1, <3>2
  <2> QED
    BY <2>3, <2>4, <2>5 DEF Starts
<1>2. CASE e # 0 /\ j = -e
  <2>1. x = above /\ Furthest(a, b, n, m, j + 1, e - 1, above)
    BY <1>2 DEF Start
  <2>2. Reaches(a, b, n, m, j, e, x) /\ Insertion(a, b, n, m, j, e, x)
    BY <2>1, FromAbove
  <2>3. Deletion(a, b, n, m, j, e, x)
    <3> SUFFICES ASSUME NEW z \in 1..n, z - j \in 0..m, Within(a, b, 0, 0, z - 1, z - j, e - 1) PROVE FALSE
      BY DEF Deletion
    <3>1. e - 1 \in Int /\ z - 1 \in Nat /\ z - j \in Nat /\ 0 \in Nat /\ 0 <= z - 1 /\ 0 <= z - j
      OBVIOUS
    <3>2. ((z - j) - 0) - ((z - 1) - 0) <= e - 1
      BY <3>1, WithinBound
    <3> QED
      BY <1>2, <3>2
  <2> QED
    BY <2>2, <2>3 DEF Starts
<1>3. CASE e # 0 /\ j = e
  <2>1. x = below + 1 /\ Furthest(a, b, n, m, j - 1, e - 1, below)
    BY <1>3 DEF Start
  <2>2. Reaches(a, b, n, m, j, e, x) /\ Deletion(a, b, n, m, j, e, x)
    BY <2>1, FromBelow
  <2>3. Insertion(a, b, n, m, j, e, x)
    <3> SUFFICES ASSUME NEW z \in 0..n, z - j \in 1..m, Within(a, b, 0, 0, z, z - j - 1, e - 1) PROVE FALSE
      BY DEF Insertion
    <3>1. e - 1 \in Int /\ z \in Nat /\ z - j - 1 \in Nat /\ 0 \in Nat /\ 0 <= z /\ 0 <= z - j - 1
      OBVIOUS
    <3>2. (z - 0) - ((z - j - 1) - 0) <= e - 1
      BY <3>1, WithinBound
    <3> QED
      BY <1>3, <3>2
  <2> QED
    BY <2>2, <2>3 DEF Starts
<1>4. CASE e # 0 /\ j # e /\ j # -e
  <2>1. Furthest(a, b, n, m, j - 1, e - 1, below) /\ Furthest(a, b, n, m, j + 1, e - 1, above)
    BY <1>4
  <2>2. below \in Nat /\ above \in Nat
    BY <2>1 DEF Furthest
  <2>3. /\ Reaches(a, b, n, m, j, e, above) /\ Insertion(a, b, n, m, j, e, above)
        /\ Reaches(a, b, n, m, j, e, below + 1) /\ Deletion(a, b, n, m, j, e, below + 1)
    BY <2>1, FromAbove, FromBelow
  <2>4. CASE below < above
    <3>1. x = above /\ below + 1 <= above
      BY <1>4, <2>2, <2>4 DEF Start
    <3>2. Deletion(a, b, n, m, j, e, above)
      BY <2>2, <2>3, <3>1, LaterStart
    <3> QED
      BY <2>3, <3>1, <3>2 DEF Starts
  <2>5. CASE ~(below < above)
    <3>1. x = below + 1
      BY <1>4, <2>2, <2>5 DEF Start
    <3>2. x \in Int /\ above \in Int /\ above <= x /\ e \in Int
      BY <2>2, <2>5, <3>1
    <3>3. Insertion(a, b, n, m, j, e, x)
      BY <2>3, <3>2, LaterStart
    <3> QED
      BY <2>3, <3>1, <3>3 DEF Starts
  <2> QED
    BY <2>4, <2>5
<1> QED
  BY <1>1, <1>2, <1>3, <1>4

(* A snake: the common prefix of what follows a point of the box. *)
Snake(a, b, n, m, x, y, s) ==
  /\ s \in Nat
  /\ IF x <= n /\ y <= m
     THEN /\ x + s <= n /\ y + s <= m /\ SameFrom(a, x, b, y, s)
          /\ x + s < n /\ y + s < m => a[x + s + 1] # b[y + s + 1]
     ELSE s = 0

(* Where it ends is as far as these edits get on its diagonal. *)
LEMMA SnakeEnds ==
  ASSUME NEW a, NEW b, NEW n \in Nat, NEW m \in Nat, NEW e \in Int, NEW j \in Int, NEW x, NEW s,
         Starts(a, b, n, m, j, e, x), Snake(a, b, n, m, x, x - j, s)
  PROVE  Furthest(a, b, n, m, j, e, x + s)
<1> DEFINE z == x + s
<1>1. x \in Nat /\ j <= x /\ s \in Nat /\ z \in Nat /\ j <= z /\ z - j = (x - j) + s
  BY DEF Starts, Reaches, Snake
<1>2. (z <= n /\ z - j <= m) => (x <= n /\ x - j <= m)
  BY <1>1
<1>3. ASSUME z <= n, z - j <= m PROVE Within(a, b, 0, 0, z, z - j, e)
  <2>1. x <= n /\ x - j <= m /\ SameFrom(a, x, b, x - j, s) /\ Within(a, b, 0, 0, x, x - j, e)
    BY <1>2, <1>3 DEF Snake, Starts, Reaches
  <2>2. x - j \in Nat
    BY <1>1
  <2>3. Within(a, b, x, x - j, x + s, (x - j) + s, 0)
    BY <1>1, <2>1, <2>2, WithinSnake DEF SameFrom
  <2>4. /\ z - j \in Nat /\ 0 \in Nat /\ 0 <= x /\ 0 <= x - j /\ x <= z /\ x - j <= z - j /\ e + 0 = e /\ 0 \in Int
    BY <1>1
  <2>5. Within(a, b, x, x - j, z, z - j, 0)
    BY <1>1, <2>3
  <2> HIDE DEF z
  <2>6. Within(a, b, 0, 0, z, z - j, e + 0)
    BY <1>1, <2>1, <2>2, <2>4, <2>5, WithinConcat
  <2> QED
    BY <2>4, <2>6
<1>4. ASSUME ~(z <= n /\ z - j <= m) PROVE Within(a, b, 0, 0, n, m, e + Far(j, n, m) - 2)
  <2>1. ~(x <= n /\ x - j <= m)
    BY <1>1, <1>4 DEF Snake
  <2> QED
    BY <2>1 DEF Starts, Reaches
<1>5. ASSUME NEW y \in 0..n, y - j \in 0..m, Within(a, b, 0, 0, y, y - j, e) PROVE y <= z
  <2> DEFINE S == {h \in Nat : h <= n /\ h - j \in 0..m /\ Within(a, b, 0, 0, h, h - j, e) /\ ~(h <= z)}
  <2> SUFFICES ASSUME S # {} PROVE FALSE
    BY <1>5
  <2>1. PICK h \in S : \A i \in S : h <= i
    <3>1. S \subseteq Nat
      OBVIOUS
    <3> HIDE DEF S
    <3> QED
      BY <3>1, LeastNatural
  <2>2. h \in Nat /\ h <= n /\ h - j \in 0..m /\ Within(a, b, 0, 0, h, h - j, e) /\ z < h
    BY <1>1
  <2>3. /\ h - j \in Nat /\ 0 \in Nat /\ 0 <= h /\ 0 <= h - j
    BY <2>2
  <2>4. \/ h = 0 /\ h - j = 0
        \/ 0 < h /\ 0 < h - j /\ a[h] = b[h - j] /\ Within(a, b, 0, 0, h - 1, (h - j) - 1, e)
        \/ 0 < h /\ Within(a, b, 0, 0, h - 1, h - j, e - 1)
        \/ 0 < h - j /\ Within(a, b, 0, 0, h, (h - j) - 1, e - 1)
    BY <2>2, <2>3, WithinLast
  <2>5. CASE h = 0 /\ h - j = 0
    BY <1>1, <2>2, <2>5
  <2>6. CASE 0 < h /\ Within(a, b, 0, 0, h - 1, h - j, e - 1)
    <3>1. h \in 1..n
      BY <2>2, <2>6
    <3>2. h <= x
      BY <2>2, <2>6, <3>1 DEF Starts, Deletion
    <3> QED
      BY <1>1, <2>2, <3>2
  <2>7. CASE 0 < h - j /\ Within(a, b, 0, 0, h, (h - j) - 1, e - 1)
    <3>1. h \in 0..n /\ h - j \in 1..m
      BY <2>2, <2>7
    <3>2. h <= x
      BY <2>2, <2>7, <3>1 DEF Starts, Insertion
    <3> QED
      BY <1>1, <2>2, <3>2
  <2>8. CASE 0 < h /\ 0 < h - j /\ a[h] = b[h - j] /\ Within(a, b, 0, 0, h - 1, (h - j) - 1, e)
    <3>1. h - 1 \in Nat /\ h - 1 <= n /\ (h - 1) - j \in 0..m /\ (h - j) - 1 = (h - 1) - j
      BY <2>2, <2>8
    <3>2. Within(a, b, 0, 0, h - 1, (h - 1) - j, e)
      BY <2>8, <3>1
    <3>3. h - 1 \notin S
      BY <2>1, <2>2
    <3>4. h - 1 <= z
      BY <3>1, <3>2, <3>3
    <3>5. h = z + 1 /\ h - j = (z - j) + 1
      BY <1>1, <2>2, <3>4
    <3>6. z < n /\ z - j < m /\ x <= n /\ x - j <= m
      BY <1>1, <2>2, <3>5
    <3>7. a[x + s + 1] # b[(x - j) + s + 1]
      BY <1>1, <3>6 DEF Snake
    <3>8. h = x + s + 1 /\ h - j = (x - j) + s + 1
      BY <1>1, <3>5
    <3> QED
      BY <2>8, <3>7, <3>8
  <2> QED
    BY <2>4, <2>5, <2>6, <2>7, <2>8
<1> HIDE DEF z
<1>6. Furthest(a, b, n, m, j, e, z)
  BY <1>1, <1>3, <1>4, <1>5 DEF Furthest
<1> QED
  BY <1>6 DEF z

(***************************************************************************)
(* Where the two paths meet: a point (x, y) that e edits reach, a snake of *)
(* s elements from there, and on the same diagonal of the texts read       *)
(* backwards (r and q) a cell z that g edits reach, no further from the    *)
(* end than the snake's end.  From (x, y) it takes g edits to the end.     *)
(***************************************************************************)
LEMMA MeetReaches ==
  ASSUME NEW a, NEW b, NEW r, NEW q, NEW n \in Nat, NEW m \in Nat, Backwards(a, r, n), Backwards(b, q, m),
         NEW g \in Int, NEW x \in 0..n, NEW y \in 0..m, NEW s \in Nat, x + s <= n, y + s <= m,
         SameFrom(a, x, b, y, s), NEW z, Furthest(r, q, n, m, (n - m) - (x - y), g, z),
         n <= x + s + z, z <= n, z - ((n - m) - (x - y)) <= m
  PROVE  Within(a, b, x, y, n, m, g)
<1> DEFINE f == n - z
           h == m - (z - ((n - m) - (x - y)))
           j == (n - m) - (x - y)
<1>1. z \in Nat /\ j <= z /\ z - j \in 0..m /\ f \in 0..n /\ h \in 0..m /\ f - h = x - y /\ f <= x + s
  BY DEF Furthest
<1>2. Within(r, q, 0, 0, z, z - j, g)
  BY <1>1 DEF Furthest
<1>3. /\ z \in 0..n /\ 0 \in 0..n /\ 0 \in 0..m /\ 0 <= z /\ 0 <= z - j
      /\ n - z = f /\ m - (z - j) = h /\ n - 0 = n /\ m - 0 = m
  BY <1>1
<1> HIDE DEF f, h, j
<1>4. Within(a, b, n - z, m - (z - j), n - 0, m - 0, g)
  BY <1>1, <1>2, <1>3, WithinReversed
<1>5. Within(a, b, f, h, n, m, g)
  BY <1>3, <1>4
<1>6. CASE f <= x
  <2> DEFINE i == x - f
  <2>1. i \in Nat /\ f + i = x /\ h + i = y /\ f \in Nat /\ h \in Nat /\ f + i <= n /\ h + i <= m
    BY <1>1, <1>6
  <2> HIDE DEF i
  <2>2. Within(a, b, f + i, h + i, n, m, g)
    BY <1>5, <2>1, WithinLater
  <2> QED
    BY <2>1, <2>2
<1>7. CASE x < f
  <2> DEFINE i == f - x
  <2>1. /\ i \in Nat /\ x + i = f /\ y + i = h /\ i <= s /\ x \in Nat /\ y \in Nat /\ f \in Nat /\ h \in Nat
        /\ x <= f /\ y <= h /\ f <= n /\ h <= m /\ 0 \in Int /\ 0 + g = g
    BY <1>1, <1>7
  <2> HIDE DEF i
  <2>2. \A c \in 1..i : a[x + c] = b[y + c]
    BY <2>1 DEF SameFrom
  <2>3. Within(a, b, x, y, x + i, y + i, 0)
    BY <2>1, <2>2, WithinSnake
  <2>4. Within(a, b, x, y, f, h, 0)
    BY <2>1, <2>3
  <2>5. Within(a, b, x, y, n, m, 0 + g)
    BY <1>5, <2>1, <2>4, WithinConcat
  <2> QED
    BY <2>1, <2>5
<1> QED
  BY <1>1, <1>6, <1>7

(* On this diagonal the cells of both directions still leave a gap. *)
Apart(a, b, r, q, n, m, e, g, j, x, z) ==
  /\ Furthest(a, b, n, m, j, e, x)
  /\ Far(j, n, m) <= g => Furthest(r, q, n, m, (n - m) - j, g, z) /\ x + z < n

(***************************************************************************)
(* Paths that have not met: if there is a gap on every diagonal of this    *)
(* parity, then e + g edits are not enough for the whole box, provided     *)
(* that one edit less is not.                                              *)
(***************************************************************************)
LEMMA ApartMeansMore ==
  ASSUME NEW a, NEW b, NEW r, NEW q, NEW n \in Nat, NEW m \in Nat, Backwards(r, a, n), Backwards(q, b, m),
         NEW e \in Nat, NEW g \in Nat, NEW v, NEW w,
         \A i \in 0..e : Apart(a, b, r, q, n, m, e, g, e - 2 * i, v[e - 2 * i], w[(n - m) - (e - 2 * i)]),
         ~Within(a, b, 0, 0, n, m, e + g - 1)
  PROVE  ~Within(a, b, 0, 0, n, m, e + g)
<1> SUFFICES ASSUME Within(a, b, 0, 0, n, m, e + g) PROVE FALSE
  OBVIOUS
<1>1. PICK s \in 0..n, t \in 0..m : Within(a, b, 0, 0, s, t, e) /\ Within(a, b, s, t, n, m, g)
  <2>1. 0 \in Nat /\ 0 <= n /\ 0 <= m
    OBVIOUS
  <2> QED
    BY <2>1, WithinSplit
<1>2. /\ s \in Nat /\ t \in Nat /\ 0 <= s /\ 0 <= t /\ s <= n /\ t <= m /\ 0 \in Nat /\ e \in Int /\ g \in Int
  OBVIOUS
<1>3. (s - 0) - (t - 0) <= e /\ (t - 0) - (s - 0) <= e
  BY <1>1, <1>2, WithinBound
<1>4. (n - s) - (m - t) <= g /\ (m - t) - (n - s) <= g
  BY <1>1, <1>2, WithinBound
<1>5. PICK i \in 0..e : s - t = e - 2 * i
  <2> SUFFICES ASSUME \A i \in 0..e : s - t # e - 2 * i PROVE FALSE
    OBVIOUS
  <2>1. \E i \in 0..e : s - t = e - 2 * i \/ s - t = e - 2 * i - 1
    <3> DEFINE c == e - (s - t)
    <3>1. c \in 0..2 * e
      BY <1>3
    <3>2. c \div 2 \in 0..e /\ (c = 2 * (c \div 2) \/ c = 2 * (c \div 2) + 1)
      BY <3>1
    <3>3. s - t = e - c
      OBVIOUS
    <3> HIDE DEF c
    <3>4. s - t = e - 2 * (c \div 2) \/ s - t = e - 2 * (c \div 2) - 1
      BY <3>1, <3>2, <3>3
    <3> QED
      BY <3>2, <3>4
  <2>2. PICK i \in 0..e : s - t = e - 2 * i - 1
    BY <2>1
  <2>3. (s - 0) + (t - 0) = e + 2 * (t - i) - 1 /\ t - i \in Int /\ e - 1 \in Int
    BY <2>2
  <2>4. Within(a, b, 0, 0, s, t, e - 1)
    BY <1>1, <1>2, <2>3, WithinParity
  <2>5. Within(a, b, 0, 0, n, m, (e - 1) + g)
    BY <1>1, <1>2, <2>3, <2>4, WithinConcat
  <2> QED
    BY <2>5, (e - 1) + g = e + g - 1
<1> DEFINE j == e - 2 * i
           x == v[j]
           z == w[(n - m) - j]
<1>6. Apart(a, b, r, q, n, m, e, g, j, x, z)
  OBVIOUS
<1>7. j \in Int /\ s - j = t /\ s - t = j
  BY <1>5
<1> HIDE DEF j, x, z
<1>8. s <= x /\ x \in Nat
  BY <1>1, <1>6, <1>7 DEF Apart, Furthest
<1>9. Far(j, n, m) <= g
  BY <1>4, <1>7 DEF Far, Max2
<1>10. /\ n - s \in 0..n /\ (n - s) - ((n - m) - j) = m - t /\ m - t \in 0..m /\ n - n = 0 /\ m - m = 0
       /\ n \in 0..n /\ m \in 0..m
  BY <1>7
<1>11. Within(r, q, n - n, m - m, n - s, m - t, g)
  BY <1>1, <1>2, <1>10, WithinReversed
<1>12. Within(r, q, 0, 0, n - s, (n - s) - ((n - m) - j), g)
  BY <1>10, <1>11
<1>13. n - s <= z /\ z \in Nat /\ x + z < n
  BY <1>6, <1>9, <1>10, <1>12 DEF Apart, Furthest
<1> QED
  BY <1>8, <1>13

-----------------------------------------------------------------------------
(* The search finds a shortest path *)

Running == phase \in {"forward", "backward"}

BoxOld == AsSlice(old, box.old)
BoxNew == AsSlice(new, box.new)

(***************************************************************************)
(* The search invariant, for a box of the texts a and b, r and q when read *)
(* backwards, of n and m elements.  The loops are in the direction p, with *)
(* the counters e for d and h for k.                                       *)
(***************************************************************************)
LevelAt(p, e, h, dir, j) ==
  IF (e - j) % 2 # 0 THEN e - 1
  ELSE IF p = dir THEN (IF j > h THEN e ELSE e - 2)
  ELSE IF dir = "forward" THEN e ELSE e - 2

(* The cells that this search has written, each at its level. *)
Cells(a, b, n, m, p, e, h, v, dir) ==
  \A j \in -e..e : Max2(j, -j) <= LevelAt(p, e, h, dir, j)
    => Furthest(a, b, n, m, j, LevelAt(p, e, h, dir, j), v[j])

(* The paths have not met on diagonal j. *)
OddBox(n, m) == (n - m) % 2 = 1
Gap(n, m, p, e, v, w, j) ==
  /\ p = "forward" /\ OddBox(n, m) /\ Far(j, n, m) <= e - 1 => v[j] + w[(n - m) - j] < n
  /\ p = "backward" /\ ~OddBox(n, m) /\ Far(j, n, m) <= e => w[j] + v[(n - m) - j] < n

(* The edits that have been tried are not enough for the box. *)
NotEnough(a, b, n, m, c) == ~Within(a, b, 0, 0, n, m, c)

Sound(a, b, r, q, n, m, p, e, h, v, w) ==
  /\ Cells(a, b, n, m, p, e, h, v, "forward")
  /\ Cells(r, q, n, m, p, e, h, w, "backward")
  /\ e = 0 => v[1] = 0 /\ w[1] = 0
  /\ NotEnough(a, b, n, m, 2 * e - 2)
  /\ p = "backward" /\ OddBox(n, m) => NotEnough(a, b, n, m, 2 * e - 1)
  /\ \A i \in 0..e : e - 2 * i > h => Gap(n, m, p, e, v, w, e - 2 * i)

SearchSound ==
  Running => Sound(BoxOld, BoxNew, Reversed(BoxOld), Reversed(BoxNew), OldBox, NewBox,
                   phase, d, k, vf, vb)

(* The box of a search lies in the texts. *)
LEMMA BoxInTexts ==
  ASSUME Inv, Tiled, Running
  PROVE  /\ box.old.offset \in Nat /\ box.new.offset \in Nat
         /\ OldBox \in Nat /\ NewBox \in Nat /\ OldBox > 0 /\ NewBox > 0
         /\ box.old.offset + OldBox <= Len(old) /\ box.new.offset + NewBox <= Len(new)
         /\ Len(BoxOld) = OldBox /\ \A i \in 1..OldBox : BoxOld[i] = old[box.old.offset + i]
         /\ Len(BoxNew) = NewBox /\ \A i \in 1..NewBox : BoxNew[i] = new[box.new.offset + i]
         /\ BoxOld \in Seq(Symbol) /\ BoxNew \in Seq(Symbol)
<1> DEFINE item == Equal(box.old, box.new)
<1>1. /\ box.old \in Ranges /\ box.new \in Ranges /\ box.old.offset \in Nat /\ box.new.offset \in Nat
      /\ OldBox \in Nat /\ NewBox \in Nat /\ OldBox = box.old.len /\ NewBox = box.new.len
      /\ old \in Seq(Symbol) /\ new \in Seq(Symbol) /\ OldBox > 0 /\ NewBox > 0
  BY DEF Inv, TypeOK, Ranges, OldBox, NewBox, SearchBounded, Running
<1>2. Outstanding = <<item>> \o Items(stack) /\ Items(stack) \in Seq(DiffRange)
  BY OutstandingType DEF Searched, Running
<1>3. item \in DiffRange /\ OldLen(item) = OldBox /\ NewLen(item) = NewBox
      /\ InOld(item) /\ InNew(item) /\ item.old = box.old /\ item.new = box.new
  BY <1>1 DEF Equal, DiffRange, OldLen, NewLen, InOld, InNew
<1>4. PICK x \in Nat, y \in Nat : Path(Outstanding, x, y, Len(old), Len(new))
  BY DEF Tiled
<1> HIDE DEF item
<1>5. Begins(item, x, y) /\ Path(Items(stack), x + OldBox, y + NewBox, Len(old), Len(new))
  BY <1>2, <1>3, <1>4, PathCons
<1>6. box.old.offset = x /\ box.new.offset = y
  BY <1>3, <1>5 DEF Begins
<1> DEFINE items == Items(stack)
<1>7. OldUpTo(items, Len(items)) \in Nat /\ NewUpTo(items, Len(items)) \in Nat
  <2>1. Len(items) \in 0..Len(items)
    BY <1>2
  <2> HIDE DEF items
  <2> QED
    BY <1>2, <2>1, UpToType DEF items
<1>8. /\ Len(old) = (x + OldBox) + OldUpTo(items, Len(items))
      /\ Len(new) = (y + NewBox) + NewUpTo(items, Len(items))
  BY <1>5 DEF Path
<1> HIDE DEF items
<1>9. box.old.offset + OldBox <= Len(old) /\ box.new.offset + NewBox <= Len(new)
  <2> DEFINE p == OldUpTo(items, Len(items))
             q == NewUpTo(items, Len(items))
  <2>1. p \in Nat /\ q \in Nat /\ Len(old) = (x + OldBox) + p /\ Len(new) = (y + NewBox) + q
    BY <1>7, <1>8
  <2>2. OldBox \in Nat /\ NewBox \in Nat
    BY <1>1
  <2> HIDE DEF p, q
  <2>3. x + OldBox <= Len(old) /\ y + NewBox <= Len(new)
    BY <2>1, <2>2
  <2> QED
    BY <1>6, <2>3
<1>10. ASSUME NEW t \in Seq(Symbol), NEW r \in Ranges, RangeEnd(r) <= Len(t)
       PROVE  /\ Len(AsSlice(t, r)) = r.len /\ AsSlice(t, r) \in Seq(Symbol)
              /\ \A i \in 1..r.len : AsSlice(t, r)[i] = t[r.offset + i]
  <2> DEFINE a == AsSlice(t, r)
             n == r.len
  <2>1. a = [i \in 1..n |-> t[r.offset + i]]
    BY SliceElements
  <2>2. n \in Nat /\ r.offset \in Nat /\ RangeEnd(r) = r.offset + n
    BY DEF Ranges, RangeEnd
  <2> HIDE DEF a, n
  <2>3. ASSUME NEW i \in 1..n PROVE t[r.offset + i] \in Symbol
    BY <1>10, <2>2
  <2>4. a \in [1..n -> Symbol]
    BY <2>1, <2>3
  <2>5. a \in Seq(Symbol) /\ Len(a) = n
    BY <2>2, <2>4, RowIsSeq
  <2>6. \A i \in 1..n : a[i] = t[r.offset + i]
    BY <2>1
  <2> QED
    BY <2>5, <2>6 DEF a, n
<1>11. RangeEnd(box.old) <= Len(old) /\ RangeEnd(box.new) <= Len(new)
  BY <1>1, <1>9 DEF RangeEnd
<1>12. /\ Len(BoxOld) = OldBox /\ BoxOld \in Seq(Symbol)
       /\ \A i \in 1..OldBox : BoxOld[i] = old[box.old.offset + i]
  BY <1>1, <1>10, <1>11 DEF BoxOld
<1>13. /\ Len(BoxNew) = NewBox /\ BoxNew \in Seq(Symbol)
       /\ \A i \in 1..NewBox : BoxNew[i] = new[box.new.offset + i]
  BY <1>1, <1>10, <1>11 DEF BoxNew
<1> QED
  BY <1>1, <1>9, <1>12, <1>13

(* The texts of a box read from the end. *)
LEMMA ReversedBackwards ==
  ASSUME NEW T, NEW s \in Seq(T)
  PROVE  /\ Reversed(s) \in Seq(T) /\ Len(Reversed(s)) = Len(s)
         /\ Backwards(Reversed(s), s, Len(s)) /\ Backwards(s, Reversed(s), Len(s))
<1> DEFINE n == Len(s)
<1>1. n \in Nat /\ DOMAIN s = 1..n /\ \A i \in 1..n : n + 1 - i \in 1..n /\ s[i] \in T
  OBVIOUS
<1>2. Reversed(s) = [i \in 1..n |-> s[n + 1 - i]]
  BY <1>1 DEF Reversed
<1>3. Reversed(s) \in [1..n -> T]
  BY <1>1, <1>2
<1> HIDE DEF n
<1>4. Reversed(s) \in Seq(T) /\ Len(Reversed(s)) = n
  BY <1>1, <1>3, RowIsSeq
<1>5. Backwards(Reversed(s), s, n)
  BY <1>2 DEF Backwards
<1>6. Backwards(s, Reversed(s), n)
  <2> SUFFICES ASSUME NEW i \in 1..n PROVE s[i] = Reversed(s)[n + 1 - i]
    BY DEF Backwards
  <2>1. n + 1 - i \in 1..n /\ n + 1 - (n + 1 - i) = i
    BY <1>1
  <2> QED
    BY <1>2, <2>1
<1> QED
  BY <1>4, <1>5, <1>6 DEF n

(* What the loops call a snake is one. *)
LEMMA ForwardSnakeIs ==
  ASSUME Inv, Tiled, Running, NEW x \in Nat, NEW y \in Int, 0 <= y
  PROVE  Snake(BoxOld, BoxNew, OldBox, NewBox, x, y, ForwardSnake(x, y))
<1> DEFINE f == box.old.offset
           g == box.new.offset
           n == OldBox
           m == NewBox
<1>1. /\ f \in Nat /\ g \in Nat /\ n \in Nat /\ m \in Nat /\ n = box.old.len /\ m = box.new.len
      /\ \A i \in 1..n : BoxOld[i] = old[f + i]
      /\ \A i \in 1..m : BoxNew[i] = new[g + i]
  BY BoxInTexts DEF OldBox, NewBox
<1> HIDE DEF f, g, n, m
<1>2. CASE x <= n /\ y <= m
  <2> DEFINE o == SliceFrom(box.old, x)
             w == SliceFrom(box.new, y)
             s == PrefixLen(o, w)
  <2>1. ForwardSnake(x, y) = s
    <3>1. y \in 0..m
      BY <1>1, <1>2
    <3> QED
      BY <1>2, <3>1 DEF ForwardSnake, n, m
  <2>2. /\ o \in Ranges /\ o.offset = f + x /\ o.len = n - x
        /\ w \in Ranges /\ w.offset = g + y /\ w.len = m - y
    BY <1>1, <1>2 DEF SliceFrom, MkRange, Ranges, f, g
  <2> HIDE DEF o, w
  <2>3. /\ s \in 0..Min2(n - x, m - y)
        /\ \A i \in 1..s : old[(f + x) + i] = new[(g + y) + i]
        /\ s < Min2(n - x, m - y) => old[(f + x) + s + 1] # new[(g + y) + s + 1]
    <3>1. s = CommonPrefixLen(old, o, new, w)
      BY DEF PrefixLen
    <3> HIDE DEF s
    <3> QED
      BY <2>2, <3>1, CommonPrefixLenProperty
  <2> HIDE DEF s
  <2>4. s \in Nat /\ x + s <= n /\ y + s <= m /\ y \in Nat
    BY <1>1, <1>2, <2>3 DEF Min2
  <2>5. ASSUME NEW i \in Nat, 1 <= i, x + i <= n, y + i <= m
        PROVE  BoxOld[x + i] = old[(f + x) + i] /\ BoxNew[y + i] = new[(g + y) + i]
    <3>1. x + i \in 1..n /\ y + i \in 1..m /\ f + (x + i) = (f + x) + i /\ g + (y + i) = (g + y) + i
      BY <1>1, <2>4, <2>5
    <3> QED
      BY <1>1, <3>1
  <2>6. SameFrom(BoxOld, x, BoxNew, y, s)
    <3> SUFFICES ASSUME NEW i \in 1..s PROVE BoxOld[x + i] = BoxNew[y + i]
      BY DEF SameFrom
    <3>1. i \in Nat /\ 1 <= i /\ x + i <= n /\ y + i <= m
      BY <1>1, <2>4
    <3> QED
      BY <2>3, <2>5, <3>1
  <2>7. ASSUME x + s < n, y + s < m PROVE BoxOld[x + s + 1] # BoxNew[y + s + 1]
    <3>1. /\ s < Min2(n - x, m - y) /\ s + 1 \in Nat /\ 1 <= s + 1 /\ x + (s + 1) <= n /\ y + (s + 1) <= m
          /\ x + (s + 1) = x + s + 1 /\ y + (s + 1) = y + s + 1
          /\ (f + x) + (s + 1) = (f + x) + s + 1 /\ (g + y) + (s + 1) = (g + y) + s + 1
      BY <1>1, <2>4, <2>7 DEF Min2
    <3>2. BoxOld[x + (s + 1)] = old[(f + x) + (s + 1)] /\ BoxNew[y + (s + 1)] = new[(g + y) + (s + 1)]
      BY <2>5, <3>1
    <3> QED
      BY <2>3, <3>1, <3>2
  <2> QED
    BY <1>2, <2>1, <2>4, <2>6, <2>7 DEF Snake, n, m
<1>3. CASE ~(x <= n /\ y <= m)
  <2>1. ForwardSnake(x, y) = 0
    BY <1>1, <1>3 DEF ForwardSnake, n, m
  <2> QED
    BY <1>3, <2>1 DEF Snake, n, m
<1> QED
  BY <1>2, <1>3

(* Backwards too: it is a common suffix, which reversed is a prefix. *)
LEMMA BackwardSnakeIs ==
  ASSUME Inv, Tiled, Running, NEW x \in Nat, NEW y \in Int, 0 <= y
  PROVE  Snake(Reversed(BoxOld), Reversed(BoxNew), OldBox, NewBox, x, y, BackwardSnake(x, y))
<1> DEFINE f == box.old.offset
           g == box.new.offset
           n == OldBox
           m == NewBox
           r == Reversed(BoxOld)
           q == Reversed(BoxNew)
<1>1. /\ f \in Nat /\ g \in Nat /\ n \in Nat /\ m \in Nat /\ n = box.old.len /\ m = box.new.len
      /\ \A i \in 1..n : BoxOld[i] = old[f + i]
      /\ \A i \in 1..m : BoxNew[i] = new[g + i]
  BY BoxInTexts DEF OldBox, NewBox
<1>2. Backwards(r, BoxOld, n) /\ Backwards(q, BoxNew, m)
  BY BoxInTexts, ReversedBackwards
<1> HIDE DEF f, g, n, m, r, q
<1>3. CASE x < n /\ y < m
  <2> DEFINE o == SliceTo(box.old, n - x)
             w == SliceTo(box.new, m - y)
             s == SuffixLen(o, w)
  <2>1. BackwardSnake(x, y) = s
    BY <1>3 DEF BackwardSnake, n, m
  <2>2. /\ o \in Ranges /\ RangeEnd(o) = f + n - x /\ o.len = n - x
        /\ w \in Ranges /\ RangeEnd(w) = g + m - y /\ w.len = m - y
    <3>1. n - x \in Nat /\ m - y \in Nat
      BY <1>1, <1>3
    <3> QED
      BY <1>1, <3>1 DEF SliceTo, MkRange, Ranges, RangeEnd, f, g
  <2> HIDE DEF o, w
  <2>3. /\ s \in 0..Min2(n - x, m - y)
        /\ \A i \in 0..s - 1 : old[(f + n - x) - i] = new[(g + m - y) - i]
        /\ s < Min2(n - x, m - y) => old[(f + n - x) - s] # new[(g + m - y) - s]
    <3>1. s = CommonSuffixLen(old, o, new, w)
      BY DEF SuffixLen
    <3> HIDE DEF s
    <3> QED
      BY <2>2, <3>1, CommonSuffixLenProperty
  <2> HIDE DEF s
  <2>4. s \in Nat /\ x + s <= n /\ y + s <= m /\ y \in Nat
    BY <1>1, <1>3, <2>3 DEF Min2
  <2>5. ASSUME NEW i \in Nat, 1 <= i, x + i <= n, y + i <= m
        PROVE  r[x + i] = old[(f + n - x) - (i - 1)] /\ q[y + i] = new[(g + m - y) - (i - 1)]
    <3>1. /\ x + i \in 1..n /\ n + 1 - (x + i) \in 1..n /\ f + (n + 1 - (x + i)) = (f + n - x) - (i - 1)
          /\ y + i \in 1..m /\ m + 1 - (y + i) \in 1..m /\ g + (m + 1 - (y + i)) = (g + m - y) - (i - 1)
      BY <1>1, <2>4, <2>5
    <3>2. r[x + i] = BoxOld[n + 1 - (x + i)] /\ q[y + i] = BoxNew[m + 1 - (y + i)]
      BY <1>2, <3>1 DEF Backwards
    <3> QED
      BY <1>1, <3>1, <3>2
  <2>6. SameFrom(r, x, q, y, s)
    <3> SUFFICES ASSUME NEW i \in 1..s PROVE r[x + i] = q[y + i]
      BY DEF SameFrom
    <3>1. i \in Nat /\ 1 <= i /\ x + i <= n /\ y + i <= m /\ i - 1 \in 0..s - 1
      BY <1>1, <2>4
    <3> QED
      BY <2>3, <2>5, <3>1
  <2>7. ASSUME x + s < n, y + s < m PROVE r[x + s + 1] # q[y + s + 1]
    <3>1. /\ s < Min2(n - x, m - y) /\ s + 1 \in Nat /\ 1 <= s + 1 /\ x + (s + 1) <= n /\ y + (s + 1) <= m
          /\ x + (s + 1) = x + s + 1 /\ y + (s + 1) = y + s + 1 /\ (s + 1) - 1 = s
      BY <1>1, <2>4, <2>7 DEF Min2
    <3>2. r[x + (s + 1)] = old[(f + n - x) - ((s + 1) - 1)] /\ q[y + (s + 1)] = new[(g + m - y) - ((s + 1) - 1)]
      BY <2>5, <3>1
    <3> QED
      BY <2>3, <3>1, <3>2
  <2>8. x <= n /\ y <= m
    BY <1>1, <1>3
  <2> QED
    BY <2>1, <2>4, <2>6, <2>7, <2>8 DEF Snake, n, m, r, q
<1>4. CASE ~(x < n /\ y < m)
  <2>1. BackwardSnake(x, y) = 0
    BY <1>4 DEF BackwardSnake, n, m
  <2>2. SameFrom(r, x, q, y, 0)
    BY DEF SameFrom
  <2>3. x + 0 = x /\ y + 0 = y
    OBVIOUS
  <2> QED
    BY <1>1, <1>4, <2>1, <2>2, <2>3 DEF Snake, n, m, r, q
<1> QED
  BY <1>3, <1>4

(* The loops go down the diagonals, then turn round, then to the next d. *)
NextLoop(p, e, h, p1, e1, h1) ==
  IF h # -e THEN p1 = p /\ e1 = e /\ h1 = h - 2
  ELSE IF p = "forward" THEN p1 = "backward" /\ e1 = e /\ h1 = e
  ELSE p1 = "forward" /\ e1 = e + 1 /\ h1 = e + 1

InLoop(p, e, h) ==
  /\ p \in {"forward", "backward"} /\ e \in Nat /\ h \in Int
  /\ -e <= h /\ h <= e /\ (e - h) % 2 = 0

(* A step writes one cell, on the level of the loop; the rest keep theirs. *)
LEMMA LevelNext ==
  ASSUME NEW p, NEW e, NEW h, NEW p1, NEW e1, NEW h1,
         InLoop(p, e, h), NextLoop(p, e, h, p1, e1, h1),
         NEW dir \in {"forward", "backward"}, NEW j \in -e1..e1,
         Max2(j, -j) <= LevelAt(p1, e1, h1, dir, j)
  PROVE  /\ j \in -e..e
         /\ LevelAt(p1, e1, h1, dir, j) = IF p = dir /\ j = h THEN e ELSE LevelAt(p, e, h, dir, j)
<1>1. p \in {"forward", "backward"} /\ e \in Nat /\ h \in Int /\ -e <= h /\ h <= e /\ (e - h) % 2 = 0
  BY DEF InLoop
<1>2. CASE h # -e
  <2>1. p1 = p /\ e1 = e /\ h1 = h - 2
    BY <1>2 DEF NextLoop
  <2>2. CASE (e - j) % 2 # 0
    <3>1. j # h
      BY <1>1, <2>2
    <3> QED
      BY <2>1, <2>2, <3>1 DEF LevelAt
  <2>3. CASE (e - j) % 2 = 0
    <3>1. j > h - 2 <=> (j > h \/ j = h)
      BY <1>1, <2>1, <2>3
    <3> QED
      BY <2>1, <2>3, <3>1 DEF LevelAt
  <2> QED
    BY <2>2, <2>3
<1>3. CASE h = -e /\ p = "forward"
  <2>1. p1 = "backward" /\ e1 = e /\ h1 = e
    BY <1>3 DEF NextLoop
  <2>2. j > h \/ j = h
    BY <1>1, <1>3, <2>1
  <2>3. ~(j > e)
    BY <1>1, <2>1
  <2>4. (e - j) % 2 # 0 => j # h
    BY <1>1, <1>3
  <2> QED
    BY <1>3, <2>1, <2>2, <2>3, <2>4 DEF LevelAt
<1>4. CASE h = -e /\ p = "backward"
  <2>1. p1 = "forward" /\ e1 = e + 1 /\ h1 = e + 1
    BY <1>4 DEF NextLoop
  <2>2. CASE (e - j) % 2 = 0
    <3>1. (e1 - j) % 2 # 0
      BY <1>1, <2>1, <2>2
    <3>2. LevelAt(p1, e1, h1, dir, j) = e
      BY <1>1, <2>1, <3>1 DEF LevelAt
    <3>3. j \in -e..e
      BY <1>1, <3>2 DEF Max2
    <3>4. j > h \/ j = h
      BY <1>1, <1>4, <3>3
    <3> QED
      BY <1>4, <2>2, <3>2, <3>3, <3>4 DEF LevelAt
  <2>3. CASE (e - j) % 2 # 0
    <3>1. (e1 - j) % 2 = 0 /\ ~(j > h1)
      BY <1>1, <2>1, <2>3
    <3>2. LevelAt(p1, e1, h1, dir, j) = e - 1
      BY <1>1, <2>1, <3>1 DEF LevelAt
    <3>3. j \in -e..e
      BY <1>1, <3>2 DEF Max2
    <3>4. j # h
      BY <1>1, <2>3
    <3> QED
      BY <2>3, <3>2, <3>3, <3>4 DEF LevelAt
  <2> QED
    BY <2>2, <2>3
<1> QED
  BY <1>1, <1>2, <1>3, <1>4

(* What it writes is furthest, on its own side. *)
Writes(a, b, n, m, p, e, h, v, v1, dir) ==
  IF p = dir THEN /\ Furthest(a, b, n, m, h, e, v1[h])
                  /\ \A j \in -e..e : j # h => v1[j] = v[j]
  ELSE v1 = v

(* So the cells stay furthest if the one that is written is. *)
LEMMA CellsNext ==
  ASSUME NEW a, NEW b, NEW n, NEW m, NEW p, NEW e, NEW h, NEW p1, NEW e1, NEW h1,
         InLoop(p, e, h), NextLoop(p, e, h, p1, e1, h1),
         NEW dir \in {"forward", "backward"}, NEW v, NEW v1,
         Cells(a, b, n, m, p, e, h, v, dir),
         Writes(a, b, n, m, p, e, h, v, v1, dir)
  PROVE  Cells(a, b, n, m, p1, e1, h1, v1, dir)
<1> SUFFICES ASSUME NEW j \in -e1..e1, Max2(j, -j) <= LevelAt(p1, e1, h1, dir, j)
             PROVE  Furthest(a, b, n, m, j, LevelAt(p1, e1, h1, dir, j), v1[j])
  BY DEF Cells
<1>1. /\ j \in -e..e
      /\ LevelAt(p1, e1, h1, dir, j) = IF p = dir /\ j = h THEN e ELSE LevelAt(p, e, h, dir, j)
  BY LevelNext
<1>2. CASE p = dir /\ j = h
  BY <1>1, <1>2 DEF Writes
<1>3. CASE ~(p = dir /\ j = h)
  BY <1>1, <1>3 DEF Cells, Writes
<1> QED
  BY <1>2, <1>3

(* The neighbours of the cell that is written are one level behind. *)
LEMMA NeighboursFurthest ==
  ASSUME NEW a, NEW b, NEW n, NEW m, NEW p, NEW e, NEW h, InLoop(p, e, h), NEW v,
         Cells(a, b, n, m, p, e, h, v, p)
  PROVE  /\ e # 0 /\ h # -e => Furthest(a, b, n, m, h - 1, e - 1, v[h - 1])
         /\ e # 0 /\ h # e => Furthest(a, b, n, m, h + 1, e - 1, v[h + 1])
<1>1. p \in {"forward", "backward"} /\ e \in Nat /\ h \in Int /\ -e <= h /\ h <= e /\ (e - h) % 2 = 0
  BY DEF InLoop
<1>2. ASSUME e # 0, h # -e PROVE Furthest(a, b, n, m, h - 1, e - 1, v[h - 1])
  <2> DEFINE j == h - 1
  <2>1. (e - j) % 2 # 0
    BY <1>1
  <2>2. LevelAt(p, e, h, p, j) = e - 1
    BY <2>1 DEF LevelAt
  <2>3. h # -e + 1
    BY <1>1
  <2>4. j \in -e..e /\ Max2(j, -j) <= e - 1
    BY <1>1, <1>2, <2>3 DEF Max2
  <2> HIDE DEF j
  <2>5. Furthest(a, b, n, m, j, e - 1, v[j])
    BY <2>2, <2>4 DEF Cells
  <2> QED
    BY <2>5 DEF j
<1>3. ASSUME e # 0, h # e PROVE Furthest(a, b, n, m, h + 1, e - 1, v[h + 1])
  <2> DEFINE j == h + 1
  <2>1. (e - j) % 2 # 0
    BY <1>1
  <2>2. LevelAt(p, e, h, p, j) = e - 1
    BY <2>1 DEF LevelAt
  <2>3. h # e - 1
    BY <1>1
  <2>4. j \in -e..e /\ Max2(j, -j) <= e - 1
    BY <1>1, <1>3, <2>3 DEF Max2
  <2> HIDE DEF j
  <2>5. Furthest(a, b, n, m, j, e - 1, v[j])
    BY <2>2, <2>4 DEF Cells
  <2> QED
    BY <2>5 DEF j
<1> QED
  BY <1>2, <1>3

(* On the other side the cell of the same diagonal is furthest as well. *)
LEMMA OppositeFurthest ==
  ASSUME NEW a, NEW b, NEW r, NEW q, NEW n \in Nat, NEW m \in Nat, NEW p, NEW e \in Nat, NEW h,
         NEW j \in Int, (e - j) % 2 = 0, NEW v, NEW w
  PROVE  /\ /\ OddBox(n, m) /\ Far(j, n, m) <= e - 1
            /\ Cells(r, q, n, m, p, e, h, w, "backward")
            => Furthest(r, q, n, m, (n - m) - j, e - 1, w[(n - m) - j])
         /\ /\ ~OddBox(n, m) /\ Far(j, n, m) <= e
            /\ Cells(a, b, n, m, "backward", e, h, v, "forward")
            => Furthest(a, b, n, m, (n - m) - j, e, v[(n - m) - j])
<1> DEFINE i == (n - m) - j
<1>1. i \in Int /\ Far(j, n, m) = Max2(i, -i)
  BY DEF Far, Max2
<1>2. ASSUME OddBox(n, m), Far(j, n, m) <= e - 1, Cells(r, q, n, m, p, e, h, w, "backward")
      PROVE  Furthest(r, q, n, m, i, e - 1, w[i])
  <2>1. (e - i) % 2 # 0
    BY <1>2 DEF OddBox
  <2>2. LevelAt(p, e, h, "backward", i) = e - 1
    BY <2>1 DEF LevelAt
  <2>3. i \in -e..e /\ Max2(i, -i) <= e - 1
    BY <1>1, <1>2 DEF Max2
  <2> HIDE DEF i
  <2> QED
    BY <1>2, <2>2, <2>3 DEF Cells
<1>3. ASSUME ~OddBox(n, m), Far(j, n, m) <= e, Cells(a, b, n, m, "backward", e, h, v, "forward")
      PROVE  Furthest(a, b, n, m, i, e, v[i])
  <2>1. (e - i) % 2 = 0
    BY <1>3 DEF OddBox
  <2>2. LevelAt("backward", e, h, "forward", i) = e
    BY <2>1 DEF LevelAt
  <2>3. i \in -e..e /\ Max2(i, -i) <= e
    BY <1>1, <1>3 DEF Max2
  <2> HIDE DEF i
  <2> QED
    BY <1>3, <2>2, <2>3 DEF Cells
<1> QED
  BY <1>2, <1>3

(* Every cell of a loop that is done has its level. *)
LEMMA LoopFurthest ==
  ASSUME NEW a, NEW b, NEW n, NEW m, NEW p1, NEW e \in Nat, NEW e1, NEW h1, NEW i \in 0..e, NEW v, NEW dir,
         Cells(a, b, n, m, p1, e1, h1, v, dir),
         \/ dir = "forward" /\ p1 = "backward" /\ e1 = e
         \/ dir = "backward" /\ p1 = "forward" /\ e1 = e + 1
  PROVE  Furthest(a, b, n, m, e - 2 * i, e, v[e - 2 * i])
<1> DEFINE j == e - 2 * i
<1>1. j \in Int /\ -e <= j /\ j <= e /\ (e - j) % 2 = 0 /\ ((e + 1) - j) % 2 # 0
  OBVIOUS
<1>2. j \in -e1..e1 /\ Max2(j, -j) <= e
  BY <1>1 DEF Max2
<1>3. LevelAt(p1, e1, h1, dir, j) = e
  BY <1>1 DEF LevelAt
<1> HIDE DEF j
<1>4. Furthest(a, b, n, m, j, e, v[j])
  BY <1>2, <1>3 DEF Cells
<1> QED
  BY <1>4 DEF j

(* A spare edit is of no use if the parity is not right. *)
LEMMA NotEnoughParity ==
  ASSUME NEW a, NEW b, NEW n \in Nat, NEW m \in Nat, NEW c \in Int,
         (n - m) % 2 # c % 2, NotEnough(a, b, n, m, c - 1)
  PROVE  NotEnough(a, b, n, m, c)
<1> DEFINE h == (n + m - c + 1) \div 2
<1>1. h \in Int /\ (n - 0) + (m - 0) = c + 2 * h - 1 /\ 0 \in Nat
  OBVIOUS
<1> HIDE DEF h
<1>2. Within(a, b, 0, 0, n, m, c) => Within(a, b, 0, 0, n, m, c - 1)
  BY <1>1, WithinParity
<1> QED
  BY <1>2 DEF NotEnough

(* Nor is it from the other end. *)
LEMMA NotEnoughReversed ==
  ASSUME NEW a, NEW b, NEW r, NEW q, NEW n \in Nat, NEW m \in Nat,
         Backwards(r, a, n), Backwards(q, b, m), NEW c \in Int, NotEnough(r, q, n, m, c)
  PROVE  NotEnough(a, b, n, m, c)
<1>1. /\ n \in 0..n /\ m \in 0..m /\ 0 \in 0..n /\ 0 \in 0..m /\ 0 <= n /\ 0 <= m
      /\ n - n = 0 /\ m - m = 0 /\ n - 0 = n /\ m - 0 = m
  OBVIOUS
<1>2. ASSUME Within(a, b, 0, 0, n, m, c) PROVE Within(r, q, 0, 0, n, m, c)
  <2>1. Within(r, q, n - n, m - m, n - 0, m - 0, c)
    BY <1>1, <1>2, WithinReversed
  <2> QED
    BY <1>1, <2>1
<1> QED
  BY <1>2 DEF NotEnough

(* One iteration of the forward loop in which the paths do not meet. *)
LEMMA ForwardKeepsSound ==
  ASSUME NEW a, NEW b, NEW r, NEW q, NEW n \in Nat, NEW m \in Nat, Backwards(r, a, n), Backwards(q, b, m),
         NEW e, NEW h, NEW p1, NEW e1, NEW h1, NEW v, NEW w, NEW v1,
         InLoop("forward", e, h), NextLoop("forward", e, h, p1, e1, h1),
         Sound(a, b, r, q, n, m, "forward", e, h, v, w),
         Furthest(a, b, n, m, h, e, v1[h]),
         \A j \in -e..e : j # h => v1[j] = v[j],
         e = 0 => v1[1] = 0,
         ~(OddBox(n, m) /\ Far(h, n, m) <= e - 1 /\ v1[h] + w[(n - m) - h] >= n)
  PROVE  Sound(a, b, r, q, n, m, p1, e1, h1, v1, w)
<1>1. e \in Nat /\ h \in Int /\ -e <= h /\ h <= e /\ (e - h) % 2 = 0
  BY DEF InLoop
<1>2. p1 \in {"forward", "backward"} /\ e1 = e
  BY DEF NextLoop
<1>3. Cells(a, b, n, m, p1, e1, h1, v1, "forward")
  <2>1. Cells(a, b, n, m, "forward", e, h, v, "forward")
    BY DEF Sound
  <2>2. Writes(a, b, n, m, "forward", e, h, v, v1, "forward")
    BY DEF Writes
  <2>3. "forward" \in {"forward", "backward"}
    OBVIOUS
  <2> QED
    BY <2>1, <2>2, <2>3, CellsNext
<1>4. Cells(r, q, n, m, "forward", e, h, w, "backward")
  BY DEF Sound
<1>5. Cells(r, q, n, m, p1, e1, h1, w, "backward")
  <2>1. Writes(r, q, n, m, "forward", e, h, w, w, "backward")
    BY DEF Writes
  <2> QED
    BY <1>4, <2>1, CellsNext
<1>6. e1 = 0 => v1[1] = 0 /\ w[1] = 0
  BY <1>2 DEF Sound
<1>7. NotEnough(a, b, n, m, 2 * e - 2)
  BY DEF Sound
(* On the diagonals that are done with there is a gap. *)
<1>8. ASSUME NEW i \in 0..e, e - 2 * i > h - 2, OddBox(n, m), Far(e - 2 * i, n, m) <= e - 1
      PROVE  v1[e - 2 * i] + w[(n - m) - (e - 2 * i)] < n
  <2> DEFINE j == e - 2 * i
  <2>1. j \in Int /\ -e <= j /\ j <= e /\ (e - j) % 2 = 0 /\ j \in -e..e
    BY <1>1
  <2>2. CASE j = h
    <3>1. w[(n - m) - h] \in Nat
      <4>1. Furthest(r, q, n, m, (n - m) - h, e - 1, w[(n - m) - h])
        BY <1>1, <1>4, <1>8, <2>2, OppositeFurthest
      <4> QED
        BY <4>1 DEF Furthest
    <3>2. v1[h] \in Nat
      BY DEF Furthest
    <3>3. ~(v1[h] + w[(n - m) - h] >= n)
      BY <1>8, <2>2
    <3> QED
      BY <2>2, <3>1, <3>2, <3>3
  <2>3. CASE j # h
    <3>1. j > h
      BY <1>1, <1>8, <2>1, <2>3
    <3>2. v[j] + w[(n - m) - j] < n
      BY <1>8, <3>1 DEF Sound, Gap
    <3>3. v1[j] = v[j]
      BY <2>1, <2>3
    <3> HIDE DEF j
    <3> QED
      BY <3>2, <3>3 DEF j
  <2> QED
    BY <2>2, <2>3
<1>9. p1 = "backward" /\ OddBox(n, m) => NotEnough(a, b, n, m, 2 * e1 - 1)
  <2> SUFFICES ASSUME p1 = "backward", OddBox(n, m) PROVE NotEnough(a, b, n, m, 2 * e - 1)
    BY <1>2
  <2>1. h = -e
    BY DEF NextLoop
  <2>2. CASE e = 0
    <3>1. ASSUME Within(a, b, 0, 0, n, m, -1) PROVE FALSE
      <4>1. 0 \in Nat /\ 0 <= n /\ 0 <= m /\ -1 \in Int
        OBVIOUS
      <4>2. 0 <= -1
        BY <3>1, <4>1, WithinBound
      <4> QED
        BY <4>2
    <3> QED
      BY <2>2, <3>1 DEF NotEnough
  <2>3. CASE e # 0
    <3> DEFINE g == e - 1
    <3>1. g \in Nat /\ e + g = 2 * e - 1 /\ e + g - 1 = 2 * e - 2
      BY <1>1, <2>3
    <3>2. ASSUME NEW i \in 0..e
          PROVE  Apart(a, b, r, q, n, m, e, g, e - 2 * i, v1[e - 2 * i], w[(n - m) - (e - 2 * i)])
      <4> DEFINE j == e - 2 * i
      <4>1. j \in Int /\ (e - j) % 2 = 0 /\ j > h - 2
        BY <1>1, <2>1
      <4>2. Furthest(a, b, n, m, j, e, v1[j])
        BY <1>1, <1>2, <1>3, LoopFurthest
      <4>3. ASSUME Far(j, n, m) <= g
            PROVE  Furthest(r, q, n, m, (n - m) - j, g, w[(n - m) - j]) /\ v1[j] + w[(n - m) - j] < n
        <5>1. Furthest(r, q, n, m, (n - m) - j, g, w[(n - m) - j])
          BY <1>1, <1>4, <4>1, <4>3, OppositeFurthest
        <5>2. v1[j] + w[(n - m) - j] < n
          BY <1>8, <4>1, <4>3
        <5> QED
          BY <5>1, <5>2
      <4> HIDE DEF j, g
      <4>4. Apart(a, b, r, q, n, m, e, g, j, v1[j], w[(n - m) - j])
        BY <4>2, <4>3 DEF Apart
      <4> QED
        BY <4>4 DEF j
    <3>3. ~Within(a, b, 0, 0, n, m, e + g - 1)
      BY <1>7, <3>1 DEF NotEnough
    <3> HIDE DEF g
    <3>4. ~Within(a, b, 0, 0, n, m, e + g)
      BY <1>1, <3>1, <3>2, <3>3, ApartMeansMore
    <3> QED
      BY <3>1, <3>4 DEF NotEnough
  <2> QED
    BY <2>2, <2>3
<1>10. ASSUME NEW i \in 0..e1, e1 - 2 * i > h1 PROVE Gap(n, m, p1, e1, v1, w, e1 - 2 * i)
  <2>1. CASE h # -e
    <3>1. p1 = "forward" /\ h1 = h - 2
      BY <2>1 DEF NextLoop
    <3> QED
      BY <1>2, <1>8, <1>10, <3>1 DEF Gap
  <2>2. CASE h = -e
    <3>1. h1 = e
      BY <2>2 DEF NextLoop
    <3> QED
      BY <1>1, <1>2, <1>10, <3>1
  <2> QED
    BY <2>1, <2>2
<1> QED
  BY <1>2, <1>3, <1>5, <1>6, <1>7, <1>9, <1>10 DEF Sound

(* One iteration of the backward loop in which they do not. *)
LEMMA BackwardKeepsSound ==
  ASSUME NEW a, NEW b, NEW r, NEW q, NEW n \in Nat, NEW m \in Nat,
         Backwards(r, a, n), Backwards(q, b, m), Backwards(a, r, n), Backwards(b, q, m),
         NEW e, NEW h, NEW p1, NEW e1, NEW h1, NEW v, NEW w, NEW w1,
         InLoop("backward", e, h), NextLoop("backward", e, h, p1, e1, h1),
         Sound(a, b, r, q, n, m, "backward", e, h, v, w),
         Furthest(r, q, n, m, h, e, w1[h]),
         \A j \in -e..e : j # h => w1[j] = w[j],
         e = 0 => w1[1] = 0,
         ~(~OddBox(n, m) /\ Far(h, n, m) <= e /\ w1[h] + v[(n - m) - h] >= n)
  PROVE  Sound(a, b, r, q, n, m, p1, e1, h1, v, w1)
<1>1. e \in Nat /\ h \in Int /\ -e <= h /\ h <= e /\ (e - h) % 2 = 0
  BY DEF InLoop
<1>2. Cells(a, b, n, m, "backward", e, h, v, "forward")
  BY DEF Sound
<1>3. Cells(a, b, n, m, p1, e1, h1, v, "forward")
  <2>1. Writes(a, b, n, m, "backward", e, h, v, v, "forward")
    BY DEF Writes
  <2> QED
    BY <1>2, <2>1, CellsNext
<1>4. Cells(r, q, n, m, p1, e1, h1, w1, "backward")
  <2>1. Cells(r, q, n, m, "backward", e, h, w, "backward")
    BY DEF Sound
  <2>2. Writes(r, q, n, m, "backward", e, h, w, w1, "backward")
    BY DEF Writes
  <2>3. "backward" \in {"forward", "backward"}
    OBVIOUS
  <2> QED
    BY <2>1, <2>2, <2>3, CellsNext
<1>5. NotEnough(a, b, n, m, 2 * e - 2) /\ (OddBox(n, m) => NotEnough(a, b, n, m, 2 * e - 1))
  BY DEF Sound
(* On the diagonals that are done with there is a gap. *)
<1>6. ASSUME NEW i \in 0..e, e - 2 * i > h - 2, ~OddBox(n, m), Far(e - 2 * i, n, m) <= e
      PROVE  w1[e - 2 * i] + v[(n - m) - (e - 2 * i)] < n
  <2> DEFINE j == e - 2 * i
  <2>1. j \in Int /\ -e <= j /\ j <= e /\ (e - j) % 2 = 0 /\ j \in -e..e
    BY <1>1
  <2>2. CASE j = h
    <3>1. v[(n - m) - h] \in Nat
      <4>1. Furthest(a, b, n, m, (n - m) - h, e, v[(n - m) - h])
        BY <1>1, <1>2, <1>6, <2>2, OppositeFurthest
      <4> QED
        BY <4>1 DEF Furthest
    <3>2. w1[h] \in Nat
      BY DEF Furthest
    <3>3. ~(w1[h] + v[(n - m) - h] >= n)
      BY <1>6, <2>2
    <3> QED
      BY <2>2, <3>1, <3>2, <3>3
  <2>3. CASE j # h
    <3>1. j > h
      BY <1>1, <1>6, <2>1, <2>3
    <3>2. w[j] + v[(n - m) - j] < n
      BY <1>6, <3>1 DEF Sound, Gap
    <3>3. w1[j] = w[j]
      BY <2>1, <2>3
    <3> HIDE DEF j
    <3> QED
      BY <3>2, <3>3 DEF j
  <2> QED
    BY <2>2, <2>3
<1>7. CASE h # -e
  <2>1. p1 = "backward" /\ e1 = e /\ h1 = h - 2
    BY <1>7 DEF NextLoop
  <2>2. ASSUME NEW i \in 0..e1, e1 - 2 * i > h1 PROVE Gap(n, m, p1, e1, v, w1, e1 - 2 * i)
    BY <1>6, <2>1, <2>2 DEF Gap
  <2>3. e1 = 0 => v[1] = 0 /\ w1[1] = 0
    BY <2>1 DEF Sound
  <2> QED
    BY <1>3, <1>4, <1>5, <2>1, <2>2, <2>3 DEF Sound
<1>8. CASE h = -e
  <2>1. p1 = "forward" /\ e1 = e + 1 /\ h1 = e + 1
    BY <1>8 DEF NextLoop
  <2>2. NotEnough(a, b, n, m, 2 * e)
    <3>1. CASE OddBox(n, m)
      <4>1. (n - m) % 2 # (2 * e) % 2 /\ 2 * e \in Int
        BY <1>1, <3>1 DEF OddBox
      <4> QED
        BY <1>5, <3>1, <4>1, NotEnoughParity
    <3>2. CASE ~OddBox(n, m)
      <4>1. (n - m) % 2 # (2 * e - 1) % 2 /\ 2 * e - 1 \in Int /\ (2 * e - 1) - 1 = 2 * e - 2
        BY <1>1, <3>2 DEF OddBox
      <4>2. NotEnough(a, b, n, m, 2 * e - 1)
        BY <1>5, <4>1, NotEnoughParity
      <4>3. NotEnough(r, q, n, m, 2 * e - 1)
        BY <4>1, <4>2, NotEnoughReversed
      <4>4. ASSUME NEW i \in 0..e
            PROVE  Apart(r, q, a, b, n, m, e, e, e - 2 * i, w1[e - 2 * i], v[(n - m) - (e - 2 * i)])
        <5> DEFINE j == e - 2 * i
        <5>1. j \in Int /\ (e - j) % 2 = 0 /\ j > h - 2
          BY <1>1, <1>8
        <5>2. Furthest(r, q, n, m, j, e, w1[j])
          BY <1>1, <1>4, <2>1, LoopFurthest
        <5>3. ASSUME Far(j, n, m) <= e
              PROVE  Furthest(a, b, n, m, (n - m) - j, e, v[(n - m) - j]) /\ w1[j] + v[(n - m) - j] < n
          <6>1. Furthest(a, b, n, m, (n - m) - j, e, v[(n - m) - j])
            BY <1>1, <1>2, <3>2, <5>1, <5>3, OppositeFurthest
          <6>2. w1[j] + v[(n - m) - j] < n
            BY <1>6, <3>2, <5>1, <5>3
          <6> QED
            BY <6>1, <6>2
        <5> HIDE DEF j
        <5>4. Apart(r, q, a, b, n, m, e, e, j, w1[j], v[(n - m) - j])
          BY <5>2, <5>3 DEF Apart
        <5> QED
          BY <5>4 DEF j
      <4>5. ~Within(r, q, 0, 0, n, m, e + e - 1)
        <5>1. e + e - 1 = 2 * e - 1
          BY <1>1
        <5> QED
          BY <4>3, <5>1 DEF NotEnough
      <4>6. ~Within(r, q, 0, 0, n, m, e + e)
        BY <1>1, <4>4, <4>5, ApartMeansMore
      <4>7. NotEnough(r, q, n, m, 2 * e) /\ 2 * e \in Int
        <5>1. e + e = 2 * e
          BY <1>1
        <5> QED
          BY <1>1, <4>6, <5>1 DEF NotEnough
      <4> QED
        BY <4>7, NotEnoughReversed
    <3> QED
      BY <3>1, <3>2
  <2>3. ASSUME NEW i \in 0..e1, e1 - 2 * i > h1 PROVE Gap(n, m, p1, e1, v, w1, e1 - 2 * i)
    BY <1>1, <2>1, <2>3
  <2>4. 2 * e1 - 2 = 2 * e /\ e1 # 0
    BY <1>1, <2>1
  <2> QED
    BY <1>3, <1>4, <2>1, <2>2, <2>3, <2>4 DEF Sound
<1> QED
  BY <1>7, <1>8

(* A point that a shortest path goes through. *)
Splits(a, b, n, m, x, y) ==
  /\ x \in 0..n /\ y \in 0..m
  /\ \E c, g \in Nat : /\ Within(a, b, 0, 0, x, y, c)
                       /\ Within(a, b, x, y, n, m, g)
                       /\ NotEnough(a, b, n, m, c + g - 1)

(* No path that these edits reach has left the box: the other end is further
   away than that. *)
LEMMA NotLeft ==
  ASSUME NEW a, NEW b, NEW n \in Nat, NEW m \in Nat, NEW c \in Int, NotEnough(a, b, n, m, c),
         NEW e \in Int, NEW j \in Int, e + Far(j, n, m) - 2 <= c
  PROVE  /\ \A x : Reaches(a, b, n, m, j, e, x) => x \in Nat /\ j <= x /\ x <= n /\ x - j <= m
         /\ \A x : Furthest(a, b, n, m, j, e, x) => x \in Nat /\ j <= x /\ x <= n /\ x - j <= m
<1>1. ~Within(a, b, 0, 0, n, m, e + Far(j, n, m) - 2)
  <2>1. e + Far(j, n, m) - 2 \in Int /\ 0 \in Nat
    BY DEF Far, Max2
  <2> QED
    BY <2>1, WithinMore DEF NotEnough
<1>2. ASSUME NEW x, Reaches(a, b, n, m, j, e, x) PROVE x \in Nat /\ j <= x /\ x <= n /\ x - j <= m
  BY <1>1, <1>2 DEF Reaches
<1>3. ASSUME NEW x, Furthest(a, b, n, m, j, e, x) PROVE x \in Nat /\ j <= x /\ x <= n /\ x - j <= m
  BY <1>1, <1>3 DEF Furthest
<1> QED
  BY <1>2, <1>3

(* The last snake of the forward path begins where a shortest path passes. *)
LEMMA ForwardMeetSplits ==
  ASSUME NEW a, NEW b, NEW r, NEW q, NEW n \in Nat, NEW m \in Nat,
         Backwards(r, a, n), Backwards(q, b, m), Backwards(a, r, n), Backwards(b, q, m),
         NEW e, NEW h, NEW v, NEW w, InLoop("forward", e, h),
         Sound(a, b, r, q, n, m, "forward", e, h, v, w),
         NEW x, NEW s, Starts(a, b, n, m, h, e, x), Snake(a, b, n, m, x, x - h, s),
         OddBox(n, m), Far(h, n, m) <= e - 1, x + s + w[(n - m) - h] >= n
  PROVE  Splits(a, b, n, m, x, x - h)
<1> DEFINE i == (n - m) - h
           z == w[i]
           g == e - 1
           y == x - h
<1>1. e \in Nat /\ h \in Int /\ -e <= h /\ h <= e /\ (e - h) % 2 = 0
  BY DEF InLoop
<1>2. g \in Nat /\ i \in Int /\ Far(i, n, m) <= e /\ Far(h, n, m) \in Nat
  BY <1>1 DEF Far, Max2
<1>3. NotEnough(a, b, n, m, 2 * e - 2) /\ 2 * e - 2 \in Int
  BY <1>1 DEF Sound
<1>4. NotEnough(r, q, n, m, 2 * e - 2)
  BY <1>3, NotEnoughReversed
<1>5. Furthest(r, q, n, m, i, g, z)
  <2>1. Cells(r, q, n, m, "forward", e, h, w, "backward")
    BY DEF Sound
  <2> QED
    BY <1>1, <2>1, OppositeFurthest
<1>6. z \in Nat /\ i <= z /\ z <= n /\ z - i <= m
  <2>1. g + Far(i, n, m) - 2 <= 2 * e - 2 /\ g \in Int
    BY <1>1, <1>2 DEF Far, Max2
  <2> HIDE DEF z, i, g
  <2> QED
    BY <1>2, <1>3, <1>4, <1>5, <2>1, NotLeft
<1>7. Reaches(a, b, n, m, h, e, x)
  BY DEF Starts
<1>8. x \in Nat /\ h <= x /\ x <= n /\ y <= m
  <2>1. e + Far(h, n, m) - 2 <= 2 * e - 2 /\ e \in Int
    BY <1>1, <1>2
  <2> QED
    BY <1>1, <1>3, <1>7, <2>1, NotLeft
<1>9. x \in 0..n /\ y \in 0..m /\ (n - m) - (x - y) = i /\ h = x - y
  BY <1>1, <1>8
<1>10. s \in Nat /\ x + s <= n /\ y + s <= m /\ SameFrom(a, x, b, y, s)
  BY <1>8 DEF Snake
<1>11. n <= x + s + z
  BY <1>6, <1>8, <1>10
<1>12. Within(a, b, 0, 0, x, y, e)
  BY <1>7, <1>8 DEF Reaches
<1>13. Within(a, b, x, y, n, m, g)
  <2>1. /\ Furthest(r, q, n, m, (n - m) - (x - y), g, z) /\ z - ((n - m) - (x - y)) <= m /\ g \in Int
    BY <1>2, <1>5, <1>6, <1>9
  <2> HIDE DEF y, z, i, g
  <2> QED
    BY <1>6, <1>9, <1>10, <1>11, <2>1, MeetReaches
<1>14. NotEnough(a, b, n, m, e + g - 1)
  <2>1. e + g - 1 = 2 * e - 2
    BY <1>1
  <2> QED
    BY <1>3, <2>1
<1> HIDE DEF y, g
<1>15. Splits(a, b, n, m, x, y)
  BY <1>1, <1>2, <1>9, <1>12, <1>13, <1>14 DEF Splits
<1> QED
  BY <1>15 DEF y

(* So does the last snake of the backward path, at its end. *)
LEMMA BackwardMeetSplits ==
  ASSUME NEW a, NEW b, NEW r, NEW q, NEW n \in Nat, NEW m \in Nat,
         Backwards(r, a, n), Backwards(q, b, m), Backwards(a, r, n), Backwards(b, q, m),
         NEW e, NEW h, NEW v, NEW w, InLoop("backward", e, h),
         Sound(a, b, r, q, n, m, "backward", e, h, v, w),
         NEW x, Furthest(r, q, n, m, h, e, x),
         ~OddBox(n, m), Far(h, n, m) <= e, x + v[(n - m) - h] >= n
  PROVE  Splits(a, b, n, m, n - x, m - (x - h))
<1> DEFINE i == (n - m) - h
           z == v[i]
           y == x - h
<1>1. e \in Nat /\ h \in Int /\ -e <= h /\ h <= e /\ (e - h) % 2 = 0
  BY DEF InLoop
<1>2. i \in Int /\ Far(i, n, m) <= e /\ Far(h, n, m) \in Nat
  BY <1>1 DEF Far, Max2
<1>3. NotEnough(a, b, n, m, 2 * e - 2) /\ 2 * e - 2 \in Int
  BY <1>1 DEF Sound
<1>4. NotEnough(r, q, n, m, 2 * e - 2)
  BY <1>3, NotEnoughReversed
<1>5. Furthest(a, b, n, m, i, e, z)
  <2>1. Cells(a, b, n, m, "backward", e, h, v, "forward")
    BY DEF Sound
  <2> QED
    BY <1>1, <2>1, OppositeFurthest
<1>6. z \in Nat /\ i <= z /\ z <= n /\ z - i <= m
  <2> DEFINE c == 2 * e - 2
  <2>1. e + Far(i, n, m) - 2 <= c /\ e \in Int
    BY <1>1, <1>2 DEF Far, Max2
  <2>2. NotEnough(a, b, n, m, c) /\ c \in Int /\ i \in Int
    BY <1>2, <1>3
  <2> HIDE DEF z, i, c
  <2> QED
    BY <1>5, <2>1, <2>2, NotLeft
<1>7. x \in Nat /\ h <= x /\ x <= n /\ y <= m
  <2>1. e + Far(h, n, m) - 2 <= 2 * e - 2 /\ e \in Int
    BY <1>1, <1>2
  <2> QED
    BY <1>1, <1>3, <1>4, <2>1, NotLeft
<1>8. x \in 0..n /\ y \in 0..m /\ (n - m) - (x - y) = i /\ h = x - y /\ n - x \in 0..n /\ m - y \in 0..m
  BY <1>1, <1>7
<1>9. Within(r, q, 0, 0, x, y, e)
  BY <1>7 DEF Furthest
<1>10. Within(r, q, x, y, n, m, e)
  <2>1. /\ 0 \in Nat /\ x + 0 <= n /\ y + 0 <= m /\ SameFrom(r, x, q, y, 0)
        /\ n <= x + 0 + z /\ e \in Int
    BY <1>1, <1>6, <1>7 DEF SameFrom
  <2>2. Furthest(a, b, n, m, (n - m) - (x - y), e, z) /\ z - ((n - m) - (x - y)) <= m
    BY <1>5, <1>6, <1>8
  <2> HIDE DEF y, z, i
  <2> QED
    BY <1>6, <1>8, <2>1, <2>2, MeetReaches
<1> HIDE DEF y
<1>11. /\ 0 \in 0..n /\ 0 \in 0..m /\ n \in 0..n /\ m \in 0..m /\ 0 <= x /\ 0 <= y /\ x <= n /\ y <= m
       /\ n - 0 = n /\ m - 0 = m /\ n - n = 0 /\ m - m = 0 /\ e \in Int
  BY <1>1, <1>8
<1>12. Within(a, b, n - x, m - y, n - 0, m - 0, e)
  BY <1>8, <1>9, <1>11, WithinReversed
<1>13. Within(a, b, n - n, m - m, n - x, m - y, e)
  BY <1>8, <1>10, <1>11, WithinReversed
<1>14. NotEnough(a, b, n, m, e + e - 1)
  <2>1. (n - m) % 2 # (2 * e - 1) % 2 /\ 2 * e - 1 \in Int /\ (2 * e - 1) - 1 = 2 * e - 2 /\ e + e - 1 = 2 * e - 1
    BY <1>1 DEF OddBox
  <2> QED
    BY <1>3, <2>1, NotEnoughParity
<1>15. Within(a, b, 0, 0, n - x, m - y, e) /\ Within(a, b, n - x, m - y, n, m, e)
  BY <1>11, <1>12, <1>13
<1>16. Splits(a, b, n, m, n - x, m - y)
  BY <1>1, <1>8, <1>14, <1>15 DEF Splits
<1> QED
  BY <1>16 DEF y

(* While the edits tried are not enough, they are fewer than there are
   elements. *)
LEMMA NotEnoughFewer ==
  ASSUME NEW a, NEW b, NEW n \in Nat, NEW m \in Nat, NEW c \in Int, NotEnough(a, b, n, m, c)
  PROVE  c < n + m
<1> SUFFICES ASSUME n + m <= c PROVE FALSE
  OBVIOUS
<1>1. 0 \in Nat /\ 0 <= n /\ 0 <= m /\ (n - 0) + (m - 0) <= c
  OBVIOUS
<1> QED
  BY <1>1, WithinNone DEF NotEnough

(* The box of a search, as the lemmas above need it. *)
LEMMA BoxBothWays ==
  ASSUME Inv, Tiled, Running
  PROVE  /\ OldBox \in Nat /\ NewBox \in Nat
         /\ Backwards(Reversed(BoxOld), BoxOld, OldBox) /\ Backwards(BoxOld, Reversed(BoxOld), OldBox)
         /\ Backwards(Reversed(BoxNew), BoxNew, NewBox) /\ Backwards(BoxNew, Reversed(BoxNew), NewBox)
<1>1. /\ BoxOld \in Seq(Symbol) /\ Len(BoxOld) = OldBox /\ BoxNew \in Seq(Symbol) /\ Len(BoxNew) = NewBox
      /\ OldBox \in Nat /\ NewBox \in Nat
  BY BoxInTexts
<1>2. Backwards(Reversed(BoxOld), BoxOld, OldBox) /\ Backwards(BoxOld, Reversed(BoxOld), OldBox)
  BY <1>1, ReversedBackwards
<1>3. Backwards(Reversed(BoxNew), BoxNew, NewBox) /\ Backwards(BoxNew, Reversed(BoxNew), NewBox)
  BY <1>1, ReversedBackwards
<1> QED
  BY <1>1, <1>2, <1>3

(* Its loops. *)
LEMMA SearchInLoop ==
  ASSUME Inv, Running
  PROVE  /\ InLoop(phase, d, k)
         /\ phase = "forward" /\ NextForward => NextLoop(phase, d, k, phase', d', k')
         /\ phase = "backward" /\ NextBackward => NextLoop(phase, d, k, phase', d', k')
<1>1. PICK i \in 0..d : k = d - 2 * i
  BY DEF Inv, SearchBounded, Running
<1>2. d \in Nat
  BY DEF Inv, TypeOK
<1>3. k \in Int /\ -d <= k /\ k <= d /\ (d - k) % 2 = 0
  BY <1>1, <1>2
<1>4. InLoop(phase, d, k)
  BY <1>2, <1>3 DEF InLoop, Running
<1>5. phase = "forward" /\ NextForward => NextLoop(phase, d, k, phase', d', k')
  BY DEF NextForward, NextLoop
<1>6. phase = "backward" /\ NextBackward => NextLoop(phase, d, k, phase', d', k')
  BY DEF NextBackward, NextLoop
<1> QED
  BY <1>4, <1>5, <1>6

(* Where the snake starts that a step of a loop looks for. *)
LEMMA CellStarts ==
  ASSUME Inv, Tiled, Running, NEW a, NEW b, NEW v,
         Cells(a, b, OldBox, NewBox, phase, d, k, v, phase), d = 0 => v[1] = 0
  PROVE  Starts(a, b, OldBox, NewBox, k, d, XStart(v))
<1>1. InLoop(phase, d, k) /\ OldBox \in Nat /\ NewBox \in Nat
  BY SearchInLoop, BoxBothWays
<1>2. d \in Nat /\ k \in Int /\ -d <= k /\ k <= d
  BY <1>1 DEF InLoop
<1>3. /\ d # 0 /\ k # -d => Furthest(a, b, OldBox, NewBox, k - 1, d - 1, v[k - 1])
      /\ d # 0 /\ k # d => Furthest(a, b, OldBox, NewBox, k + 1, d - 1, v[k + 1])
  BY <1>1, NeighboursFurthest
<1>4. Start(d, k, XStart(v), v[k - 1], v[k + 1])
  <2>1. CASE d = 0
    <3>1. k = -d /\ k + 1 = 1
      BY <1>2, <2>1
    <3> QED
      BY <2>1, <3>1 DEF Start, XStart
  <2>2. CASE d # 0
    BY <2>2 DEF Start, XStart
  <2> QED
    BY <2>1, <2>2
<1> QED
  BY <1>1, <1>2, <1>3, <1>4, StartsThere

(* How far the arrays and the texts are left alone. *)
LEMMA BoxStays ==
  ASSUME UNCHANGED <<texts, box>>
  PROVE  /\ BoxOld' = BoxOld /\ BoxNew' = BoxNew /\ OldBox' = OldBox /\ NewBox' = NewBox
         /\ Reversed(BoxOld)' = Reversed(BoxOld) /\ Reversed(BoxNew)' = Reversed(BoxNew)
BY DEF texts, BoxOld, BoxNew, OldBox, NewBox, Reversed

(* A search starts without having written anything. *)
LEMMA StartSearchSound == Inv /\ StartSearch => SearchSound'
<1> SUFFICES ASSUME Inv, StartSearch PROVE SearchSound'
  OBVIOUS
<1> DEFINE item == Head(stack).item
           n == OldBox'
           m == NewBox'
<1>1. /\ Head(stack) \in BoundedTask /\ Top("search")
  BY StackType DEF StartSearch, Top
<1>2. item.old.len \in Nat /\ item.new.len \in Nat
  BY <1>1 DEF BoundedTask, Task, DiffRange, Ranges
<1>3. n \in Nat /\ m \in Nat
  BY <1>2 DEF StartSearch, OldBox, NewBox
<1>4. 1 \in Diagonals /\ vf \in [Diagonals -> Nat] /\ vb \in [Diagonals -> Nat]
  BY <1>1, InvInBounds DEF VIndexInBounds, Inv, TypeOK
<1>5. vf'[1] = 0 /\ vb'[1] = 0
  BY <1>4 DEF StartSearch, Plant
<1>6. phase' = "forward" /\ d' = 0 /\ k' = 0
  BY DEF StartSearch
<1> HIDE DEF item, n, m
<1>7. ASSUME NEW a, NEW b, NEW v, NEW dir \in {"forward", "backward"}
      PROVE  Cells(a, b, n, m, "forward", 0, 0, v, dir)
  <2> SUFFICES ASSUME NEW j \in -0..0, Max2(j, -j) <= LevelAt("forward", 0, 0, dir, j) PROVE FALSE
    BY DEF Cells
  <2>1. j = 0 /\ Max2(j, -j) = 0 /\ LevelAt("forward", 0, 0, dir, j) = -2
    BY DEF Max2, LevelAt
  <2> QED
    BY <2>1
<1>8. ASSUME NEW a, NEW b PROVE NotEnough(a, b, n, m, 2 * 0 - 2)
  <2>1. ASSUME Within(a, b, 0, 0, n, m, -2) PROVE FALSE
    <3>1. 0 \in Nat /\ 0 <= n /\ 0 <= m /\ -2 \in Int
      BY <1>3
    <3>2. 0 <= -2
      BY <1>3, <2>1, <3>1, WithinBound
    <3> QED
      BY <3>2
  <2> QED
    BY <2>1 DEF NotEnough
<1>9. ASSUME NEW a, NEW b, NEW r, NEW q
      PROVE  Sound(a, b, r, q, n, m, "forward", 0, 0, vf', vb')
  BY <1>5, <1>7, <1>8 DEF Sound
<1>10. Sound(BoxOld', BoxNew', Reversed(BoxOld)', Reversed(BoxNew)', n, m, phase', d', k', vf', vb')
  BY <1>6, <1>9
<1> QED
  BY <1>10 DEF SearchSound, n, m

(* What a step of the forward loop finds on its diagonal. *)
LEMMA ForwardCell ==
  ASSUME Inv, Tiled, SearchSound, phase = "forward",
         NEW x, x = XStart(vf), NEW s, s = ForwardSnake(x, x - k)
  PROVE  /\ Starts(BoxOld, BoxNew, OldBox, NewBox, k, d, x)
         /\ Snake(BoxOld, BoxNew, OldBox, NewBox, x, x - k, s)
         /\ Sound(BoxOld, BoxNew, Reversed(BoxOld), Reversed(BoxNew), OldBox, NewBox, "forward", d, k, vf, vb)
         /\ InLoop("forward", d, k)
<1>1. Running
  BY DEF Running
<1>2. Sound(BoxOld, BoxNew, Reversed(BoxOld), Reversed(BoxNew), OldBox, NewBox, "forward", d, k, vf, vb)
  BY <1>1 DEF SearchSound
<1>3. InLoop("forward", d, k)
  BY <1>1, SearchInLoop
<1>4. Starts(BoxOld, BoxNew, OldBox, NewBox, k, d, x)
  <2>1. Cells(BoxOld, BoxNew, OldBox, NewBox, "forward", d, k, vf, "forward") /\ (d = 0 => vf[1] = 0)
    BY <1>2 DEF Sound
  <2> QED
    BY <1>1, <2>1, CellStarts
<1>5. x \in Nat /\ k <= x /\ x - k \in Int /\ 0 <= x - k
  <2>1. d \in Nat /\ k \in Int
    BY <1>3 DEF InLoop
  <2> QED
    BY <1>4, <2>1 DEF Starts, Reaches
<1>6. Snake(BoxOld, BoxNew, OldBox, NewBox, x, x - k, s)
  BY <1>1, <1>5, ForwardSnakeIs
<1> QED
  BY <1>2, <1>3, <1>4, <1>6

(* Where the paths meet, the box is split where a shortest path passes. *)
LEMMA ForwardMeetsRight ==
  ASSUME Inv, Tiled, SearchSound, phase = "forward",
         NEW x, x = XStart(vf), NEW s, s = ForwardSnake(x, x - k), ForwardMeets(x + s)
  PROVE  Splits(BoxOld, BoxNew, OldBox, NewBox, x, x - k)
<1> DEFINE n == OldBox
           m == NewBox
           a == BoxOld
           b == BoxNew
           r == Reversed(BoxOld)
           q == Reversed(BoxNew)
<1>1. /\ n \in Nat /\ m \in Nat
      /\ Backwards(r, a, n) /\ Backwards(q, b, m) /\ Backwards(a, r, n) /\ Backwards(b, q, m)
  BY BoxBothWays DEF Running
<1>2. /\ Starts(a, b, n, m, k, d, x) /\ Snake(a, b, n, m, x, x - k, s)
      /\ Sound(a, b, r, q, n, m, "forward", d, k, vf, vb) /\ InLoop("forward", d, k)
  BY ForwardCell
<1>3. OddBox(n, m) /\ Far(k, n, m) <= d - 1 /\ x + s + vb[(n - m) - k] >= n
  BY DEF ForwardMeets, Odd, OddBox, Delta, AbsDelta, Far
<1> HIDE DEF n, m, a, b, r, q
<1>4. Splits(a, b, n, m, x, x - k)
  BY <1>1, <1>2, <1>3, ForwardMeetSplits
<1> QED
  BY <1>4 DEF n, m, a, b

(* A step of the forward loop: the cell it writes, and what follows. *)
LEMMA ForwardSound ==
  ASSUME Inv, Tiled, SearchSound, Forward
  PROVE  /\ SearchSound'
         /\ phase' = "conquer" => Splits(BoxOld, BoxNew, OldBox, NewBox, XStart(vf), XStart(vf) - k)
<1> DEFINE n == OldBox
           m == NewBox
           a == BoxOld
           b == BoxNew
           r == Reversed(BoxOld)
           q == Reversed(BoxNew)
           x0 == XStart(vf)
           s == ForwardSnake(x0, x0 - k)
           x == x0 + s
<1>1. /\ phase = "forward" /\ Running /\ UNCHANGED <<texts, box, vb>> /\ d < MaxD(OldBox, NewBox)
      /\ vf' = [vf EXCEPT ![k] = x]
      /\ IF ForwardMeets(x) THEN SplitAt(x0, x0 - k) ELSE NextForward
  BY DEF Forward, Searching, Running
<1>2. /\ n \in Nat /\ m \in Nat
      /\ Backwards(r, a, n) /\ Backwards(q, b, m) /\ Backwards(a, r, n) /\ Backwards(b, q, m)
  BY <1>1, BoxBothWays
<1>3. /\ Starts(a, b, n, m, k, d, x0) /\ Snake(a, b, n, m, x0, x0 - k, s)
      /\ Sound(a, b, r, q, n, m, "forward", d, k, vf, vb) /\ InLoop("forward", d, k)
  BY <1>1, ForwardCell
<1>4. NextForward => NextLoop("forward", d, k, phase', d', k')
  BY <1>1, SearchInLoop
<1>5. d \in Nat /\ k \in Int /\ -d <= k /\ k <= d
  BY <1>3 DEF InLoop
<1>6. ForwardMeets(x) => Splits(a, b, n, m, x0, x0 - k)
  BY <1>1, ForwardMeetsRight
<1> HIDE DEF n, m, a, b, r, q, x0, s
<1>9. Furthest(a, b, n, m, k, d, x)
  BY <1>2, <1>3, <1>5, SnakeEnds
<1>10. k \in Diagonals /\ vf \in [Diagonals -> Nat]
  BY <1>1, SearchInBounds DEF Inv, TypeOK, Running
<1>11. vf'[k] = x /\ \A j \in -d..d : j # k => vf'[j] = vf[j]
  <2>1. \A j \in -d..d : j \in Diagonals
    BY <1>1, <1>5, DiagonalsReach DEF Max2, MaxD
  <2> QED
    BY <1>1, <1>10, <2>1
<1>12. d = 0 => vf'[1] = 0
  <2>1. d # 0 \/ (vf[1] = 0 /\ k # 1 /\ 1 \in Diagonals)
    <3>1. 1 \in Diagonals
      BY <1>1, DiagonalsReach DEF Inv, SearchBounded, Running
    <3> QED
      BY <1>3, <1>5, <3>1 DEF Sound
  <2> QED
    BY <1>1, <1>10, <2>1
<1>13. ForwardMeets(x) <=> OddBox(n, m) /\ Far(k, n, m) <= d - 1 /\ x + vb[(n - m) - k] >= n
  BY DEF ForwardMeets, Odd, OddBox, Delta, AbsDelta, Far, n, m
<1>14. CASE ForwardMeets(x)
  <2>1. phase' = "conquer" /\ SearchSound'
    BY <1>1, <1>14 DEF SplitAt, SearchSound, Running
  <2> QED
    BY <1>6, <1>14, <2>1 DEF n, m, a, b, x0
<1>15. CASE ~ForwardMeets(x)
  <2>1. phase' # "conquer" /\ NextLoop("forward", d, k, phase', d', k')
    BY <1>1, <1>4, <1>15 DEF NextForward
  <2>2. Furthest(a, b, n, m, k, d, vf'[k])
    BY <1>9, <1>11
  <2>3. ~(OddBox(n, m) /\ Far(k, n, m) <= d - 1 /\ vf'[k] + vb[(n - m) - k] >= n)
    BY <1>11, <1>13, <1>15
  <2>4. Sound(a, b, r, q, n, m, phase', d', k', vf', vb)
    <3> DEFINE p1 == phase'
               e1 == d'
               h1 == k'
               v1 == vf'
    <3>1. NextLoop("forward", d, k, p1, e1, h1)
      BY <2>1
    <3>2. /\ Furthest(a, b, n, m, k, d, v1[k]) /\ \A j \in -d..d : j # k => v1[j] = vf[j]
      BY <1>11, <2>2
    <3>3. d = 0 => v1[1] = 0
      BY <1>12
    <3>4. ~(OddBox(n, m) /\ Far(k, n, m) <= d - 1 /\ v1[k] + vb[(n - m) - k] >= n)
      BY <2>3
    <3> HIDE DEF p1, e1, h1, v1
    <3>5. Sound(a, b, r, q, n, m, p1, e1, h1, v1, vb)
      BY <1>2, <1>3, <1>4, <3>1, <3>2, <3>3, <3>4, ForwardKeepsSound
    <3> QED
      BY <3>5 DEF p1, e1, h1, v1
  <2>5. /\ BoxOld' = a /\ BoxNew' = b /\ OldBox' = n /\ NewBox' = m
        /\ Reversed(BoxOld)' = r /\ Reversed(BoxNew)' = q /\ vb' = vb
    BY <1>1, BoxStays DEF a, b, r, q, n, m
  <2>6. Sound(BoxOld', BoxNew', Reversed(BoxOld)', Reversed(BoxNew)', OldBox', NewBox', phase', d', k', vf', vb')
    BY <2>4, <2>5
  <2>7. SearchSound'
    BY <2>6 DEF SearchSound
  <2> QED
    BY <2>1, <2>7
<1> QED
  BY <1>14, <1>15

(* The same for the backward loop, which reads the box from its end. *)
LEMMA BackwardCell ==
  ASSUME Inv, Tiled, SearchSound, phase = "backward",
         NEW x, x = XStart(vb), NEW s, s = BackwardSnake(x, x - k)
  PROVE  /\ Furthest(Reversed(BoxOld), Reversed(BoxNew), OldBox, NewBox, k, d, x + s)
         /\ Sound(BoxOld, BoxNew, Reversed(BoxOld), Reversed(BoxNew), OldBox, NewBox, "backward", d, k, vf, vb)
         /\ InLoop("backward", d, k)
<1> DEFINE n == OldBox
           m == NewBox
           r == Reversed(BoxOld)
           q == Reversed(BoxNew)
<1>1. Running
  BY DEF Running
<1>2. n \in Nat /\ m \in Nat
  BY <1>1, BoxBothWays
<1>3. Sound(BoxOld, BoxNew, r, q, n, m, "backward", d, k, vf, vb)
  BY <1>1 DEF SearchSound
<1>4. InLoop("backward", d, k)
  BY <1>1, SearchInLoop
<1>5. d \in Nat /\ k \in Int /\ -d <= k /\ k <= d
  BY <1>4 DEF InLoop
<1>6. Starts(r, q, n, m, k, d, x)
  <2>1. Cells(r, q, n, m, "backward", d, k, vb, "backward") /\ (d = 0 => vb[1] = 0)
    BY <1>3 DEF Sound
  <2> QED
    BY <1>1, <2>1, CellStarts
<1>7. x \in Nat /\ k <= x /\ x - k \in Int /\ 0 <= x - k
  BY <1>5, <1>6 DEF Starts, Reaches
<1>8. Snake(r, q, n, m, x, x - k, s)
  BY <1>1, <1>7, BackwardSnakeIs
<1> HIDE DEF n, m, r, q
<1>9. Furthest(r, q, n, m, k, d, x + s)
  BY <1>2, <1>5, <1>6, <1>8, SnakeEnds
<1> QED
  BY <1>3, <1>4, <1>9 DEF n, m, r, q

(* And for where it meets the forward path. *)
LEMMA BackwardMeetsRight ==
  ASSUME Inv, Tiled, SearchSound, phase = "backward",
         NEW z, z = XStart(vb) + BackwardSnake(XStart(vb), XStart(vb) - k), BackwardMeets(z)
  PROVE  Splits(BoxOld, BoxNew, OldBox, NewBox, OldBox - z, NewBox - (z - k))
<1> DEFINE n == OldBox
           m == NewBox
           a == BoxOld
           b == BoxNew
           r == Reversed(BoxOld)
           q == Reversed(BoxNew)
<1>1. /\ n \in Nat /\ m \in Nat
      /\ Backwards(r, a, n) /\ Backwards(q, b, m) /\ Backwards(a, r, n) /\ Backwards(b, q, m)
  BY BoxBothWays DEF Running
<1>2. /\ Furthest(r, q, n, m, k, d, z)
      /\ Sound(a, b, r, q, n, m, "backward", d, k, vf, vb) /\ InLoop("backward", d, k)
  BY BackwardCell
<1>3. ~OddBox(n, m) /\ Far(k, n, m) <= d /\ z + vf[(n - m) - k] >= n
  BY DEF BackwardMeets, Odd, OddBox, Delta, AbsDelta, Far
<1> HIDE DEF n, m, a, b, r, q
<1>4. Splits(a, b, n, m, n - z, m - (z - k))
  BY <1>1, <1>2, <1>3, BackwardMeetSplits
<1> QED
  BY <1>4 DEF n, m, a, b

(* A step of the backward loop. *)
LEMMA BackwardSound ==
  ASSUME Inv, Tiled, SearchSound, Backward
  PROVE  /\ SearchSound'
         /\ phase' = "conquer" =>
              \E x \in Nat : /\ x = XStart(vb) + BackwardSnake(XStart(vb), XStart(vb) - k)
                             /\ Splits(BoxOld, BoxNew, OldBox, NewBox, OldBox - x, NewBox - (x - k))
<1> DEFINE n == OldBox
           m == NewBox
           a == BoxOld
           b == BoxNew
           r == Reversed(BoxOld)
           q == Reversed(BoxNew)
           x0 == XStart(vb)
           s == BackwardSnake(x0, x0 - k)
           x == x0 + s
<1>1. /\ phase = "backward" /\ Running /\ UNCHANGED <<texts, box, vf>> /\ d < MaxD(OldBox, NewBox)
      /\ vb' = [vb EXCEPT ![k] = x]
      /\ IF BackwardMeets(x) THEN SplitAt(OldBox - x, NewBox - (x - k)) ELSE NextBackward
  BY DEF Backward, Searching, Running
<1>2. /\ n \in Nat /\ m \in Nat
      /\ Backwards(r, a, n) /\ Backwards(q, b, m) /\ Backwards(a, r, n) /\ Backwards(b, q, m)
  BY <1>1, BoxBothWays
<1>3. /\ Furthest(r, q, n, m, k, d, x)
      /\ Sound(a, b, r, q, n, m, "backward", d, k, vf, vb) /\ InLoop("backward", d, k)
  BY <1>1, BackwardCell
<1>4. NextBackward => NextLoop("backward", d, k, phase', d', k')
  BY <1>1, SearchInLoop
<1>5. d \in Nat /\ k \in Int /\ -d <= k /\ k <= d
  BY <1>3 DEF InLoop
<1>6. BackwardMeets(x) => Splits(a, b, n, m, n - x, m - (x - k))
  BY <1>1, BackwardMeetsRight
<1> HIDE DEF n, m, a, b, r, q, x0, s
<1>10. k \in Diagonals /\ vb \in [Diagonals -> Nat] /\ x \in Nat
  BY <1>1, <1>3, SearchInBounds DEF Inv, TypeOK, Running, Furthest
<1>11. vb'[k] = x /\ \A j \in -d..d : j # k => vb'[j] = vb[j]
  <2>1. \A j \in -d..d : j \in Diagonals
    BY <1>1, <1>5, DiagonalsReach DEF Max2, MaxD
  <2> QED
    BY <1>1, <1>10, <2>1
<1>12. d = 0 => vb'[1] = 0
  <2>1. d # 0 \/ (vb[1] = 0 /\ k # 1 /\ 1 \in Diagonals)
    <3>1. 1 \in Diagonals
      BY <1>1, DiagonalsReach DEF Inv, SearchBounded, Running
    <3> QED
      BY <1>3, <1>5, <3>1 DEF Sound
  <2> QED
    BY <1>1, <1>10, <2>1
<1>13. BackwardMeets(x) <=> ~OddBox(n, m) /\ Far(k, n, m) <= d /\ x + vf[(n - m) - k] >= n
  BY DEF BackwardMeets, Odd, OddBox, Delta, AbsDelta, Far, n, m
<1>14. CASE BackwardMeets(x)
  <2>1. phase' = "conquer" /\ SearchSound'
    BY <1>1, <1>14 DEF SplitAt, SearchSound, Running
  <2>2. x \in Nat /\ x = x0 + s
    BY <1>10
  <2> QED
    BY <1>6, <1>14, <2>1, <2>2 DEF n, m, a, b, x0, s
<1>15. CASE ~BackwardMeets(x)
  <2>1. phase' # "conquer" /\ NextLoop("backward", d, k, phase', d', k')
    BY <1>1, <1>4, <1>15 DEF NextBackward
  <2>2. Furthest(r, q, n, m, k, d, vb'[k])
    BY <1>3, <1>11
  <2>3. ~(~OddBox(n, m) /\ Far(k, n, m) <= d /\ vb'[k] + vf[(n - m) - k] >= n)
    BY <1>11, <1>13, <1>15
  <2>4. Sound(a, b, r, q, n, m, phase', d', k', vf, vb')
    <3> DEFINE p1 == phase'
               e1 == d'
               h1 == k'
               w1 == vb'
    <3>1. NextLoop("backward", d, k, p1, e1, h1)
      BY <2>1
    <3>2. /\ Furthest(r, q, n, m, k, d, w1[k]) /\ \A j \in -d..d : j # k => w1[j] = vb[j]
      BY <1>11, <2>2
    <3>3. d = 0 => w1[1] = 0
      BY <1>12
    <3>4. ~(~OddBox(n, m) /\ Far(k, n, m) <= d /\ w1[k] + vf[(n - m) - k] >= n)
      BY <2>3
    <3> HIDE DEF p1, e1, h1, w1
    <3>5. Sound(a, b, r, q, n, m, p1, e1, h1, vf, w1)
      BY <1>2, <1>3, <1>4, <3>1, <3>2, <3>3, <3>4, BackwardKeepsSound
    <3> QED
      BY <3>5 DEF p1, e1, h1, w1
  <2>5. /\ BoxOld' = a /\ BoxNew' = b /\ OldBox' = n /\ NewBox' = m
        /\ Reversed(BoxOld)' = r /\ Reversed(BoxNew)' = q /\ vf' = vf
    BY <1>1, BoxStays DEF a, b, r, q, n, m
  <2>6. Sound(BoxOld', BoxNew', Reversed(BoxOld)', Reversed(BoxNew)', OldBox', NewBox', phase', d', k', vf', vb')
    BY <2>4, <2>5
  <2>7. SearchSound'
    BY <2>6 DEF SearchSound
  <2> QED
    BY <2>1, <2>7
<1> QED
  BY <1>14, <1>15

(* The search invariant is kept by every step. *)
LEMMA NextSound == Inv /\ Tiled /\ SearchSound /\ [Next]_vars => SearchSound'
<1> SUFFICES ASSUME Inv, Tiled, SearchSound, [Next]_vars PROVE SearchSound'
  OBVIOUS
<1>1. CASE ConquerBox \/ Push \/ Return
  <2>1. phase' \notin {"forward", "backward"}
    BY <1>1 DEF ConquerBox, Push, Return, Top
  <2> QED
    BY <2>1 DEF SearchSound, Running
<1>2. CASE StartSearch
  BY <1>2, StartSearchSound
<1>3. CASE Forward
  BY <1>3, ForwardSound
<1>4. CASE Backward
  BY <1>4, BackwardSound
<1>5. CASE UNCHANGED vars
  <2>1. UNCHANGED <<texts, box, phase, d, k, vf, vb>>
    BY <1>5 DEF vars, texts
  <2>2. /\ BoxOld' = BoxOld /\ BoxNew' = BoxNew /\ OldBox' = OldBox /\ NewBox' = NewBox
        /\ Reversed(BoxOld)' = Reversed(BoxOld) /\ Reversed(BoxNew)' = Reversed(BoxNew)
    BY <2>1, BoxStays
  <2>3. Running' = Running
    BY <2>1 DEF Running
  <2>4. ASSUME Running
        PROVE  Sound(BoxOld', BoxNew', Reversed(BoxOld)', Reversed(BoxNew)', OldBox', NewBox', phase', d', k', vf', vb')
    BY <2>1, <2>2, <2>4 DEF SearchSound
  <2> QED
    BY <2>3, <2>4 DEF SearchSound
<1> QED
  BY <1>1, <1>2, <1>3, <1>4, <1>5 DEF Next

(* And holds before there has been a search. *)
LEMMA InitSound == Init => SearchSound
BY DEF Init, SearchSound, Running

(* What a search has tried is less than its box needs at most. *)
LEMMA SearchInTime ==
  ASSUME Inv, Tiled, SearchSound, Running
  PROVE  d < MaxD(OldBox, NewBox)
<1>1. OldBox \in Nat /\ NewBox \in Nat /\ d \in Nat
  BY BoxBothWays DEF Inv, TypeOK
<1>2. NotEnough(BoxOld, BoxNew, OldBox, NewBox, 2 * d - 2) /\ 2 * d - 2 \in Int
  BY <1>1 DEF SearchSound, Sound
<1>3. 2 * d - 2 < OldBox + NewBox
  BY <1>1, <1>2, NotEnoughFewer
<1> QED
  BY <1>1, <1>3 DEF MaxD

(* The cells are what the comment on V says. *)
LEMMA CellsAreFurthest ==
  ASSUME Inv, NEW a \in Seq(Symbol), NEW b \in Seq(Symbol), Len(a) = OldBox, Len(b) = NewBox,
         OldBox \in Nat, NewBox \in Nat, NEW v, NEW dir,
         Cells(a, b, OldBox, NewBox, phase, d, k, v, dir)
  PROVE  IsFurthest(a, b, v, dir)
<1> SUFFICES ASSUME NEW j \in -d..d, Max2(j, -j) <= Level(dir, j)
             PROVE  /\ \A x \in Reachable(a, b, Level(dir, j), j) : x <= v[j]
                    /\ InBox(v[j], v[j] - j) => v[j] \in Reachable(a, b, Level(dir, j), j)
  BY DEF IsFurthest
<1> DEFINE e == Level(dir, j)
<1>1. e = LevelAt(phase, d, k, dir, j) /\ d \in Nat
  BY DEF Level, LevelAt, Inv, TypeOK
<1>2. e \in Int /\ j \in Int
  <2>1. d \in Nat
    BY <1>1
  <2> QED
    BY <2>1 DEF Level
<1>3. Furthest(a, b, OldBox, NewBox, j, e, v[j])
  BY <1>1 DEF Cells
<1> HIDE DEF e
<1>4. ASSUME NEW x \in 0..OldBox, x - j \in 0..NewBox
      PROVE  EditDistance(SubSeq(a, 1, x), SubSeq(b, 1, x - j)) <= e <=> Within(a, b, 0, 0, x, x - j, e)
  <2> DEFINE y == x - j
             c == EditDistance(SubSeq(a, 0 + 1, x), SubSeq(b, 0 + 1, y))
  <2>1. y \in Nat /\ x \in Nat /\ x \in 0..Len(a) /\ y \in 0..Len(b) /\ 0 \in Nat /\ 0 <= x /\ 0 <= y /\ 0 + 1 = 1
    BY <1>4
  <2> HIDE DEF y
  <2>2. Least(a, b, 0, 0, x, y, c)
    BY <2>1, SliceDistance
  <2> HIDE DEF c
  <2>3. c \in Nat /\ c \in Int /\ Within(a, b, 0, 0, x, y, c) /\ (Within(a, b, 0, 0, x, y, e) => c <= e)
    BY <1>2, <2>2 DEF Least
  <2>4. c <= e => Within(a, b, 0, 0, x, y, e)
    BY <1>2, <2>1, <2>3, WithinMore
  <2>5. c = EditDistance(SubSeq(a, 1, x), SubSeq(b, 1, y))
    BY <2>1 DEF c
  <2> QED
    BY <2>3, <2>4, <2>5 DEF y
<1>5. ASSUME NEW x \in Reachable(a, b, e, j) PROVE x <= v[j]
  <2>1. x \in 0..OldBox /\ x - j \in 0..NewBox /\ EditDistance(SubSeq(a, 1, x), SubSeq(b, 1, x - j)) <= e
    BY DEF Reachable
  <2>2. Within(a, b, 0, 0, x, x - j, e)
    BY <1>4, <2>1
  <2> QED
    BY <1>3, <2>1, <2>2 DEF Furthest
<1>6. ASSUME InBox(v[j], v[j] - j) PROVE v[j] \in Reachable(a, b, e, j)
  <2> DEFINE x == v[j]
  <2>1. x \in 0..OldBox /\ x - j \in 0..NewBox /\ x <= OldBox /\ x - j <= NewBox
    BY <1>6 DEF InBox
  <2>2. Within(a, b, 0, 0, x, x - j, e)
    BY <1>3, <2>1 DEF Furthest
  <2> HIDE DEF x
  <2>3. EditDistance(SubSeq(a, 1, x), SubSeq(b, 1, x - j)) <= e
    BY <1>4, <2>1, <2>2
  <2>4. x \in Reachable(a, b, e, j)
    BY <2>1, <2>3 DEF Reachable
  <2> QED
    BY <2>4 DEF x
<1> QED
  BY <1>5, <1>6 DEF e

(* Which is what FurthestReaching says of the box that is searched. *)
LEMMA SoundIsFurthest == Inv /\ Tiled /\ SearchSound => FurthestReaching
<1> SUFFICES ASSUME Inv, Tiled, SearchSound, Running
             PROVE  /\ IsFurthest(BoxOld, BoxNew, vf, "forward")
                    /\ IsFurthest(Reversed(BoxOld), Reversed(BoxNew), vb, "backward")
  BY DEF FurthestReaching, Running, BoxOld, BoxNew
<1>1. /\ OldBox \in Nat /\ NewBox \in Nat /\ BoxOld \in Seq(Symbol) /\ BoxNew \in Seq(Symbol)
      /\ Len(BoxOld) = OldBox /\ Len(BoxNew) = NewBox
  BY BoxInTexts
<1>2. /\ Reversed(BoxOld) \in Seq(Symbol) /\ Len(Reversed(BoxOld)) = OldBox
      /\ Reversed(BoxNew) \in Seq(Symbol) /\ Len(Reversed(BoxNew)) = NewBox
  BY <1>1, ReversedBackwards
<1>3. /\ Cells(BoxOld, BoxNew, OldBox, NewBox, phase, d, k, vf, "forward")
      /\ Cells(Reversed(BoxOld), Reversed(BoxNew), OldBox, NewBox, phase, d, k, vb, "backward")
  BY DEF SearchSound, Sound
<1>4. IsFurthest(BoxOld, BoxNew, vf, "forward")
  BY <1>1, <1>3, CellsAreFurthest
<1>5. IsFurthest(Reversed(BoxOld), Reversed(BoxNew), vb, "backward")
  BY <1>1, <1>2, <1>3, CellsAreFurthest
<1> QED
  BY <1>4, <1>5

-----------------------------------------------------------------------------
(* The recursion emits a shortest script *)

(***************************************************************************)
(* What an item will have cost when all of it has been emitted: an edit    *)
(* its elements, a box the distance of its two sides.                      *)
(***************************************************************************)
Due(item) ==
  IF IsEdit(item) THEN EditLen(item)
  ELSE EditDistance(AsSlice(old, item.old), AsSlice(new, item.new))

Dues(items) == [i \in DOMAIN items |-> Due(items[i])]
DueOf(items) == SumUpTo(Dues(items), Len(items))

(***************************************************************************)
(* What has been emitted and what is outstanding cost no more together     *)
(* than the two texts are apart: no split and no prefix or suffix taken    *)
(* off has cost anything.                                                  *)
(***************************************************************************)
Frugal == Cost(solution) + DueOf(Outstanding) <= EditDistance(old, new)

(* A slice has the length of its range, whether or not it is in the text. *)
LEMMA SliceLen ==
  ASSUME NEW text, NEW r \in Ranges
  PROVE  Len(AsSlice(text, r)) = r.len /\ r.len \in Nat
<1> DEFINE n == r.len
           f == AsSlice(text, r)
<1>1. n \in Nat
  BY DEF Ranges
<1>2. f = [j \in 1..n |-> text[r.offset + j]]
  BY SliceElements
<1> DEFINE T == {text[r.offset + j] : j \in 1..n}
<1>3. f \in [1..n -> T]
  BY <1>2
<1> HIDE DEF n, f, T
<1>4. Len(f) = n
  BY <1>1, <1>3, RowIsSeq
<1> QED
  BY <1>1, <1>4 DEF f, n

(* A price is a number, of items that match what they cost. *)
LEMMA DueType ==
  ASSUME NEW item \in DiffRange
  PROVE  /\ Due(item) \in Nat
         /\ IsEdit(item) => Due(item) = EditLen(item)
         /\ item \in Matching(old, new) => Due(item) = EditLen(item)
<1>1. item.old \in Ranges /\ item.new \in Ranges /\ EditLen(item) \in Nat
  BY ItemLens
<1>2. CASE IsEdit(item)
  BY <1>1, <1>2 DEF Due
<1>3. CASE ~IsEdit(item)
  <2> DEFINE a == AsSlice(old, item.old)
             b == AsSlice(new, item.new)
             c == EditDistance(a, b)
  <2>1. Len(a) \in Nat /\ Len(b) \in Nat
    BY <1>1, SliceLen
  <2>2. Due(item) = c
    BY <1>3 DEF Due
  <2>3. Least(a, b, 0, 0, Len(a), Len(b), c)
    BY <2>1, EditDistanceLeast
  <2>4. ASSUME item \in Matching(old, new) PROVE c = EditLen(item)
    <3> DEFINE n == item.old.len
    <3>1. /\ n = item.new.len /\ n \in Nat
          /\ \A i \in 1..n : old[item.old.offset + i] = new[item.new.offset + i]
      BY <1>1, <1>3, <2>4 DEF Matching, Ranges
    <3>2. /\ a = [j \in 1..n |-> old[item.old.offset + j]]
          /\ b = [j \in 1..n |-> new[item.new.offset + j]]
          /\ Len(a) = n /\ Len(b) = n
      BY <1>1, <3>1, SliceElements, SliceLen
    <3> HIDE DEF a, b, n, c
    <3>3. \A i \in 1..n : a[0 + i] = b[0 + i]
      BY <3>1, <3>2
    <3>4. Within(a, b, 0, 0, 0 + n, 0 + n, 0)
      <4>1. 0 \in Nat
        OBVIOUS
      <4> QED
        BY <3>1, <3>3, <4>1, WithinSnake
    <3>5. c \in Nat /\ c <= 0
      <4>1. 0 + n = n /\ 0 \in Int
        BY <3>1
      <4>2. Least(a, b, 0, 0, n, n, c)
        BY <2>3, <3>2
      <4>3. Within(a, b, 0, 0, n, n, 0)
        BY <3>4, <4>1
      <4> QED
        BY <4>1, <4>2, <4>3 DEF Least
    <3>6. EditLen(item) = 0
      BY <1>3 DEF EditLen
    <3> QED
      BY <3>5, <3>6
  <2> QED
    BY <1>3, <2>2, <2>3, <2>4 DEF Least
<1> QED
  BY <1>2, <1>3

(* Prices are summed item by item. *)
LEMMA DuesType ==
  ASSUME NEW items \in Seq(DiffRange)
  PROVE  Dues(items) \in Seq(Nat) /\ Len(Dues(items)) = Len(items) /\ DueOf(items) \in Nat
<1> DEFINE n == Len(items)
<1>1. n \in Nat /\ DOMAIN items = 1..n /\ \A i \in 1..n : items[i] \in DiffRange
  OBVIOUS
<1>2. \A i \in 1..n : Due(items[i]) \in Nat
  BY <1>1, DueType
<1>3. Dues(items) \in [1..n -> Nat]
  BY <1>1, <1>2 DEF Dues
<1>4. Dues(items) \in Seq(Nat) /\ Len(Dues(items)) = n
  <2> HIDE DEF n
  <2> QED
    BY <1>1, <1>3, RowIsSeq
<1>5. n \in 0..Len(Dues(items))
  BY <1>1, <1>4
<1> QED
  BY <1>4, <1>5, SumUpToType DEF DueOf

(* Of two lists in a row the sum is that of the two. *)
LEMMA DuesConcat ==
  ASSUME NEW a \in Seq(DiffRange), NEW b \in Seq(DiffRange)
  PROVE  DueOf(a \o b) = DueOf(a) + DueOf(b)
<1>1. /\ a \o b \in Seq(DiffRange) /\ Len(a \o b) = Len(a) + Len(b)
      /\ DOMAIN a = 1..Len(a) /\ DOMAIN b = 1..Len(b) /\ DOMAIN (a \o b) = 1..Len(a) + Len(b)
      /\ Len(a) \in Nat /\ Len(b) \in Nat
      /\ \A i \in 1..Len(a) : i \in DOMAIN (a \o b) /\ (a \o b)[i] = a[i]
      /\ \A i \in 1..Len(b) : Len(a) + i \in DOMAIN (a \o b) /\ (a \o b)[Len(a) + i] = b[i]
  OBVIOUS
<1> DEFINE r == Dues(a \o b)
           s == Dues(a)
           t == Dues(b)
<1>2. /\ r \in Seq(Nat) /\ Len(r) = Len(a) + Len(b)
      /\ s \in Seq(Nat) /\ Len(s) = Len(a)
      /\ t \in Seq(Nat) /\ Len(t) = Len(b)
  BY <1>1, DuesType
<1>3. /\ \A i \in 1..Len(a) : r[i] = s[i]
      /\ \A i \in 1..Len(b) : r[Len(a) + i] = t[i]
  BY <1>1 DEF Dues
<1> HIDE DEF r, s, t
<1>4. /\ Len(r) = Len(s) + Len(t)
      /\ \A i \in 1..Len(s) : r[i] = s[i]
      /\ \A i \in 1..Len(t) : r[Len(s) + i] = t[i]
  BY <1>2, <1>3
<1>5. r = s \o t
  BY <1>2, <1>4, ConcatElements
<1>6. SumUpTo(s \o t, Len(s) + Len(t)) = SumUpTo(s, Len(s)) + SumUpTo(t, Len(t))
  <2>1. Len(t) \in 0..Len(t)
    BY <1>1, <1>2
  <2> QED
    BY <1>2, <2>1, SumUpToConcat
<1>7. SumUpTo(r, Len(a \o b)) = SumUpTo(s, Len(a)) + SumUpTo(t, Len(b))
  BY <1>1, <1>2, <1>5, <1>6
<1> QED
  BY <1>7 DEF DueOf, r, s, t

(* Of one item it is its price, of none nothing. *)
LEMMA DuesSingle ==
  ASSUME NEW item \in DiffRange
  PROVE  DueOf(<<item>>) = Due(item) /\ DueOf(<<>>) = 0
<1> DEFINE one == Dues(<<item>>)
<1>1. one[1] = Due(item) /\ Len(<<item>>) = 1 /\ Len(<<>>) = 0 /\ Due(item) \in Nat
  BY DueType DEF Dues
<1> HIDE DEF one
<1>2. SumUpTo(one, 1) = Due(item)
  <2>1. SumUpTo(one, 0) = 0 /\ SumUpTo(one, 1) = SumUpTo(one, 1 - 1) + one[1] /\ 1 - 1 = 0
    <3>1. 1 \in Nat \ {0} /\ 1 - 1 = 0
      OBVIOUS
    <3> QED
      BY <3>1, SumUpToRecurrence
  <2> QED
    BY <1>1, <2>1
<1>3. DueOf(<<>>) = 0
  BY <1>1, SumUpToRecurrence DEF DueOf
<1> QED
  BY <1>1, <1>2, <1>3 DEF DueOf, one

(* The same for a list of items that match: what they cost. *)
LEMMA DuesMatching ==
  ASSUME NEW items \in Seq(DiffRange), items \in Seq(Matching(old, new))
  PROVE  DueOf(items) = Cost(items)
<1> DEFINE n == Len(items)
<1>1. n \in Nat /\ DOMAIN items = 1..n /\ \A i \in 1..n : items[i] \in DiffRange /\ items[i] \in Matching(old, new)
  OBVIOUS
<1>2. \A i \in 1..n : Due(items[i]) = EditLen(items[i])
  BY <1>1, DueType
<1>3. Dues(items) = EditLens(items)
  BY <1>1, <1>2 DEF Dues, EditLens
<1> QED
  BY <1>3 DEF DueOf, Cost

(* One item whose place in the texts is known can be had for its price. *)
LEMMA ItemWithin ==
  ASSUME Inv, NEW item \in DiffRange, NEW x \in Nat, NEW y \in Nat, Begins(item, x, y),
         x + OldLen(item) <= Len(old), y + NewLen(item) <= Len(new)
  PROVE  Within(old, new, x, y, x + OldLen(item), y + NewLen(item), Due(item))
<1> DEFINE u == x + OldLen(item)
           v == y + NewLen(item)
           c == Due(item)
<1>1. OldLen(item) \in Nat /\ NewLen(item) \in Nat
  BY ItemLens
<1>2. u \in Nat /\ v \in Nat /\ x <= u /\ y <= v /\ c \in Nat /\ c \in Int
  BY <1>1, DueType
<1>3. item.kind \in {"Equal", "Delete", "Insert"}
  BY DEF DiffRange
<1>4. CASE item.kind # "Equal"
  <2>1. (u - x) + (v - y) <= c
    <3>1. OldLen(item) + NewLen(item) = EditLen(item) /\ Due(item) = EditLen(item)
      BY <1>1, <1>3, <1>4, ItemLens, DueType
    <3> QED
      BY <1>1, <3>1
  <2> HIDE DEF u, v, c
  <2>2. Within(old, new, x, y, u, v, c)
    BY <1>2, <2>1, WithinNone
  <2> QED
    BY <2>2 DEF u, v, c
<1>5. CASE item.kind = "Equal"
  <2>1. /\ item.old.offset = x /\ item.new.offset = y /\ RangeEnd(item.old) = u /\ RangeEnd(item.new) = v
        /\ ~IsEdit(item)
    BY <1>5, ItemLens DEF Begins, RangeEnd
  <2>2. c = EditDistance(SubSeq(old, x + 1, u), SubSeq(new, y + 1, v))
    BY <2>1 DEF Due, AsSlice
  <2>3. old \in Seq(Symbol) /\ new \in Seq(Symbol) /\ u <= Len(old) /\ v <= Len(new)
    BY DEF Inv, TypeOK
  <2> HIDE DEF u, v, c
  <2>4. u \in 0..Len(old) /\ v \in 0..Len(new)
    BY <1>2, <2>3
  <2>5. Least(old, new, x, y, u, v, EditDistance(SubSeq(old, x + 1, u), SubSeq(new, y + 1, v)))
    BY <1>2, <2>3, <2>4, SliceDistance
  <2>6. Within(old, new, x, y, u, v, c)
    BY <2>2, <2>5 DEF Least
  <2> QED
    BY <2>6 DEF u, v, c
<1> QED
  BY <1>4, <1>5

(* So can a list of them that leads from one place to another. *)
LEMMA PathWithin ==
  ASSUME Inv, NEW items \in Seq(DiffRange), NEW x \in Nat, NEW y \in Nat, NEW u, NEW v,
         Path(items, x, y, u, v), u <= Len(old), v <= Len(new)
  PROVE  /\ Within(old, new, x, y, u, v, DueOf(items)) /\ DueOf(items) \in Nat
         /\ u \in Nat /\ v \in Nat /\ x <= u /\ y <= v
<1> DEFINE n == Len(items)
           X(i) == x + OldUpTo(items, i)
           Y(i) == y + NewUpTo(items, i)
           C(i) == SumUpTo(Dues(items), i)
           S == {i \in Nat : i <= n => Within(old, new, x, y, X(i), Y(i), C(i))}
<1>1. n \in Nat /\ DOMAIN items = 1..n /\ Dues(items) \in Seq(Nat) /\ Len(Dues(items)) = n
  BY DuesType
<1>2. u = X(n) /\ v = Y(n) /\ DueOf(items) = C(n)
  BY DEF Path, DueOf
<1>3. ASSUME NEW i \in 0..n
      PROVE  /\ X(i) \in Nat /\ Y(i) \in Nat /\ C(i) \in Nat /\ C(i) \in Int
             /\ x <= X(i) /\ y <= Y(i) /\ X(i) <= u /\ Y(i) <= v
  <2>1. /\ OldUpTo(items, i) \in Nat /\ NewUpTo(items, i) \in Nat
        /\ OldUpTo(items, i) <= OldUpTo(items, n) /\ NewUpTo(items, i) <= NewUpTo(items, n)
    BY UpToType
  <2>2. C(i) \in Nat
    BY <1>1, SumUpToType
  <2>3. OldUpTo(items, n) \in Nat /\ NewUpTo(items, n) \in Nat
    <3>1. n \in 0..n
      BY <1>1
    <3> QED
      BY <3>1, UpToType
  <2> HIDE DEF n, C
  <2>4. x <= X(i) /\ y <= Y(i) /\ X(i) <= X(n) /\ Y(i) <= Y(n) /\ X(i) \in Nat /\ Y(i) \in Nat
    BY <2>1, <2>3
  <2> QED
    BY <1>2, <2>2, <2>4
<1>4. 0 \in S
  <2>1. X(0) = x /\ Y(0) = y /\ C(0) = 0
    <3>1. 0 \in 0..n
      BY <1>1
    <3>2. OldUpTo(items, 0) = 0 /\ NewUpTo(items, 0) = 0
      BY <3>1, UpToType
    <3> QED
      BY <3>2, SumUpToRecurrence
  <2>2. (x - x) + (y - y) <= 0 /\ 0 \in Int /\ x <= x /\ y <= y
    OBVIOUS
  <2>3. Within(old, new, x, y, x, y, 0)
    BY <2>2, WithinNone
  <2> HIDE DEF n, X, Y, C
  <2> QED
    BY <2>1, <2>3
<1>5. ASSUME NEW i \in Nat, i \in S PROVE i + 1 \in S
  <2>0. i + 1 \in Nat
    OBVIOUS
  <2> SUFFICES ASSUME i + 1 <= n PROVE Within(old, new, x, y, X(i + 1), Y(i + 1), C(i + 1))
    BY <2>0
  <2> DEFINE item == items[i + 1]
  <2>1. i + 1 \in 1..n /\ i \in 0..n /\ i + 1 \in 0..n /\ i <= n /\ (i + 1) - 1 = i /\ item \in DiffRange
        /\ i + 1 \in DOMAIN items /\ i + 1 \in Nat \ {0}
    BY <1>1
  <2>2. /\ OldUpTo(items, i + 1) = OldUpTo(items, i) + OldLen(item)
        /\ NewUpTo(items, i + 1) = NewUpTo(items, i) + NewLen(item)
    BY <2>1, UpToNext
  <2>3. C(i + 1) = C(i) + Due(item)
    <3>1. SumUpTo(Dues(items), i + 1) = SumUpTo(Dues(items), (i + 1) - 1) + Dues(items)[i + 1]
      BY <2>1, SumUpToRecurrence
    <3>2. Dues(items)[i + 1] = Due(item)
      BY <2>1 DEF Dues
    <3> QED
      BY <2>1, <3>1, <3>2
  <2>4. Begins(item, X(i), Y(i))
    BY <2>1 DEF Path, Begins
  <2>5. OldUpTo(items, i) \in Nat /\ NewUpTo(items, i) \in Nat /\ OldLen(item) \in Nat /\ NewLen(item) \in Nat
        /\ Due(item) \in Nat
    BY <2>1, UpToType, ItemLens, DueType
  <2>6. X(i + 1) = X(i) + OldLen(item) /\ Y(i + 1) = Y(i) + NewLen(item)
    BY <2>2, <2>5
  <2>7. /\ X(i) \in Nat /\ Y(i) \in Nat /\ C(i) \in Nat /\ C(i) \in Int /\ x <= X(i) /\ y <= Y(i)
    BY <1>3, <2>1
  <2>8. X(i + 1) \in Nat /\ Y(i + 1) \in Nat /\ X(i + 1) <= u /\ Y(i + 1) <= v
    BY <1>3, <2>1
  <2>9. Within(old, new, x, y, X(i), Y(i), C(i))
    BY <1>5, <2>1
  <2> DEFINE f == X(i)
             g == Y(i)
             e == C(i)
             f1 == X(i + 1)
             g1 == Y(i + 1)
  <2>10. Len(old) \in Nat /\ Len(new) \in Nat /\ u \in Nat /\ v \in Nat
    <3>1. n \in 0..n
      BY <1>1
    <3>2. X(n) \in Nat /\ Y(n) \in Nat
      BY <1>3, <3>1
    <3>3. Len(old) \in Nat /\ Len(new) \in Nat
      BY DEF Inv, TypeOK
    <3> HIDE DEF n, X, Y
    <3> QED
      BY <1>2, <3>2, <3>3
  <2>11. /\ f \in Nat /\ g \in Nat /\ e \in Nat /\ x <= f /\ y <= g /\ f1 = f + OldLen(item) /\ g1 = g + NewLen(item)
         /\ Begins(item, f, g) /\ Within(old, new, x, y, f, g, e) /\ f1 <= u /\ g1 <= v
         /\ C(i + 1) = e + Due(item) /\ f1 \in Nat /\ g1 \in Nat
    BY <2>3, <2>4, <2>6, <2>7, <2>8, <2>9
  <2> HIDE DEF f, g, e, f1, g1, item, C
  <2>12. f + OldLen(item) <= Len(old) /\ g + NewLen(item) <= Len(new) /\ f <= f1 /\ g <= g1
    <3>1. f1 <= Len(old) /\ g1 <= Len(new)
      BY <2>10, <2>11
    <3>2. OldLen(item) \in Nat /\ NewLen(item) \in Nat
      BY <2>5
    <3>3. f1 = f + OldLen(item) /\ g1 = g + NewLen(item) /\ f \in Nat /\ g \in Nat
      BY <2>11
    <3> QED
      BY <3>1, <3>2, <3>3
  <2>13. Within(old, new, f, g, f1, g1, Due(item))
    BY <2>1, <2>11, <2>12, ItemWithin
  <2>14. e \in Int /\ Due(item) \in Int
    BY <2>5, <2>11
  <2>15. Within(old, new, x, y, f1, g1, e + Due(item))
    BY <2>11, <2>12, <2>13, <2>14, WithinConcat
  <2> QED
    BY <2>11, <2>15 DEF f1, g1
<1>6. n \in S
  <2> HIDE DEF S, n
  <2>1. Nat \subseteq S
    BY <1>4, <1>5, NatSetInduction
  <2> QED
    BY <1>1, <2>1
<1>7. n \in 0..n /\ n <= n
  BY <1>1
<1>8. X(n) \in Nat /\ Y(n) \in Nat /\ C(n) \in Nat /\ x <= X(n) /\ y <= Y(n)
  BY <1>3, <1>7
<1>9. Within(old, new, x, y, X(n), Y(n), C(n))
  BY <1>6, <1>7
<1> HIDE DEF n, X, Y, C, S
<1> QED
  BY <1>2, <1>8, <1>9

(* A box is never more expensive than a way through it. *)
LEMMA BoxDue ==
  ASSUME Inv, NEW a \in Ranges, NEW b \in Ranges, RangeEnd(a) <= Len(old), RangeEnd(b) <= Len(new)
  PROVE  /\ Equal(a, b) \in DiffRange /\ Due(Equal(a, b)) \in Nat
         /\ Within(old, new, a.offset, b.offset, RangeEnd(a), RangeEnd(b), Due(Equal(a, b)))
         /\ \A c \in Int : Within(old, new, a.offset, b.offset, RangeEnd(a), RangeEnd(b), c)
                             => Due(Equal(a, b)) <= c
<1> DEFINE x == a.offset
           y == b.offset
           u == RangeEnd(a)
           v == RangeEnd(b)
           e == EditDistance(SubSeq(old, x + 1, u), SubSeq(new, y + 1, v))
<1>1. Equal(a, b) \in DiffRange /\ ~IsEdit(Equal(a, b)) /\ Equal(a, b).old = a /\ Equal(a, b).new = b
  BY DEF Equal, DiffRange, IsEdit
<1>2. Due(Equal(a, b)) = e
  BY <1>1 DEF Due, AsSlice
<1>3. x \in Nat /\ y \in Nat /\ x <= u /\ y <= v /\ u \in 0..Len(old) /\ v \in 0..Len(new)
  <2>1. a.len \in Nat /\ b.len \in Nat /\ x \in Nat /\ y \in Nat /\ u = x + a.len /\ v = y + b.len
    BY DEF Ranges, RangeEnd
  <2>2. Len(old) \in Nat /\ Len(new) \in Nat /\ u <= Len(old) /\ v <= Len(new)
    BY DEF Inv, TypeOK
  <2> HIDE DEF x, y, u, v
  <2> QED
    BY SMTT(60), <2>1, <2>2
<1>4. old \in Seq(Symbol) /\ new \in Seq(Symbol)
  BY DEF Inv, TypeOK
<1> HIDE DEF x, y, u, v
<1>5. Least(old, new, x, y, u, v, e)
  BY <1>3, <1>4, SliceDistance
<1> HIDE DEF e
<1> QED
  BY <1>1, <1>2, <1>5 DEF Least, x, y, u, v

(* What is pushed for a common prefix or suffix costs nothing. *)
LEMMA PushUnlessEmptyDue ==
  ASSUME NEW a \in Ranges, NEW b \in Ranges, a.len = b.len,
         \A i \in 1..a.len : old[a.offset + i] = new[b.offset + i]
  PROVE  DueOf(Items(PushUnlessEmpty(Equal(a, b)))) = 0
<1> DEFINE item == Equal(a, b)
           t == PushTask(item)
<1>1. item \in DiffRange /\ item.old = a /\ item.new = b /\ ~IsEdit(item)
  BY DEF Equal, DiffRange, IsEdit
<1>2. item \in Matching(old, new)
  BY <1>1 DEF Matching
<1>3. Due(item) = 0
  <2>1. EditLen(item) = 0
    BY <1>1 DEF EditLen
  <2> HIDE DEF item
  <2> QED
    BY <1>1, <1>2, <2>1, DueType
<1>4. t \in Task /\ t.item = item
  BY <1>1 DEF Task, PushTask
<1>5. PushUnlessEmpty(item) = <<>> \/ PushUnlessEmpty(item) = <<t>>
  BY DEF PushUnlessEmpty
<1> HIDE DEF item, t
<1>6. Items(<<t>>) = <<item>> /\ Items(<<>>) = <<>>
  BY <1>4, ItemsSingle
<1>7. DueOf(<<item>>) = 0 /\ DueOf(<<>>) = 0
  BY <1>1, <1>3, DuesSingle
<1>8. DueOf(Items(PushUnlessEmpty(item))) = 0
  BY <1>5, <1>6, <1>7
<1> QED
  BY <1>8 DEF item

(* What is between them costs what it has to. *)
LEMMA MiddleDue ==
  ASSUME Inv, NEW a \in Ranges, NEW b \in Ranges, RangeEnd(a) <= Len(old), RangeEnd(b) <= Len(new),
         NEW c \in Int, Within(old, new, a.offset, b.offset, RangeEnd(a), RangeEnd(b), c)
  PROVE  DueOf(Items(Middle(a, b))) <= c
<1>1. a.offset \in Nat /\ b.offset \in Nat /\ a.len \in Nat /\ b.len \in Nat
      /\ RangeEnd(a) = a.offset + a.len /\ RangeEnd(b) = b.offset + b.len
  BY DEF Ranges, RangeEnd
<1>2. Insert(b) \in DiffRange /\ Delete(a) \in DiffRange /\ Equal(a, b) \in DiffRange
  BY DEF Insert, Delete, Equal, EmptyRange, MkRange, DiffRange, Ranges
<1>3. a.len - b.len <= c /\ b.len - a.len <= c /\ 0 <= c
  <2> DEFINE x == a.offset
             y == b.offset
             u == RangeEnd(a)
             v == RangeEnd(b)
  <2>1. /\ x \in Nat /\ y \in Nat /\ u \in Nat /\ v \in Nat /\ x <= u /\ y <= v
        /\ u - x = a.len /\ v - y = b.len /\ Within(old, new, x, y, u, v, c)
    BY SMTT(60), <1>1
  <2> HIDE DEF x, y, u, v
  <2>2. (u - x) - (v - y) <= c /\ (v - y) - (u - x) <= c /\ 0 <= c
    BY <2>1, WithinBound
  <2> QED
    BY <2>1, <2>2
<1>4. Due(Insert(b)) = b.len /\ Due(Delete(a)) = a.len
  <2>1. Insert(b).kind = "Insert" /\ Insert(b).new = b /\ Delete(a).kind = "Delete" /\ Delete(a).old = a
    BY DEF Insert, Delete
  <2> DEFINE i == Insert(b)
             j == Delete(a)
  <2>2. i \in DiffRange /\ j \in DiffRange /\ i.kind = "Insert" /\ i.new = b /\ j.kind = "Delete" /\ j.old = a
    BY <1>2, <2>1
  <2> HIDE DEF i, j
  <2>3. EditLen(i) = b.len /\ IsEdit(i) /\ EditLen(j) = a.len /\ IsEdit(j)
    BY <2>2, ItemLens
  <2>4. Due(i) = b.len /\ Due(j) = a.len
    BY <2>2, <2>3, DueType
  <2> QED
    BY <2>4 DEF i, j
<1>5. ASSUME NEW item \in DiffRange, NEW op \in {"push", "search"}
      PROVE  DueOf(Items(<<[op |-> op, item |-> item]>>)) = Due(item)
  <2> DEFINE t == [op |-> op, item |-> item]
  <2>1. t \in Task /\ t.item = item
    BY DEF Task
  <2> HIDE DEF t
  <2>2. Items(<<t>>) = <<item>>
    BY <2>1, ItemsSingle
  <2>3. DueOf(Items(<<t>>)) = Due(item)
    BY <2>2, DuesSingle
  <2> QED
    BY <2>3 DEF t
<1>6. CASE a.len = 0 /\ b.len = 0
  <2>1. Middle(a, b) = <<>> /\ Items(<<>>) = <<>>
    BY <1>6 DEF Middle, Items
  <2>2. DueOf(<<>>) = 0
    BY <1>2, DuesSingle
  <2> QED
    BY <1>3, <2>1, <2>2
<1>7. CASE a.len = 0 /\ b.len # 0
  <2>1. Middle(a, b) = <<[op |-> "push", item |-> Insert(b)]>>
    BY <1>7 DEF Middle, PushTask
  <2>2. DueOf(Items(Middle(a, b))) = b.len
    BY <1>2, <1>4, <1>5, <2>1
  <2> QED
    BY <1>1, <1>3, <1>7, <2>2
<1>8. CASE a.len # 0 /\ b.len = 0
  <2>1. Middle(a, b) = <<[op |-> "push", item |-> Delete(a)]>>
    BY <1>8 DEF Middle, PushTask
  <2>2. DueOf(Items(Middle(a, b))) = a.len
    BY <1>2, <1>4, <1>5, <2>1
  <2> QED
    BY <1>1, <1>3, <1>8, <2>2
<1>9. CASE a.len # 0 /\ b.len # 0
  <2>1. Middle(a, b) = <<[op |-> "search", item |-> Equal(a, b)]>>
    BY <1>9 DEF Middle, SearchTask
  <2>2. DueOf(Items(Middle(a, b))) = Due(Equal(a, b))
    BY <1>2, <1>5, <2>1
  <2>3. Due(Equal(a, b)) <= c
    BY BoxDue
  <2> QED
    BY <2>2, <2>3
<1> QED
  BY <1>1, <1>6, <1>7, <1>8, <1>9

(* The three parts of a range whose first p and last s elements are taken off. *)
LEMMA CutBothEnds ==
  ASSUME NEW r \in Ranges, NEW p \in Nat, NEW s \in Nat, p + s <= r.len
  PROVE  /\ SliceTo(SliceFrom(r, p), SliceFrom(r, p).len - s) \in Ranges
         /\ SliceTo(SliceFrom(r, p), SliceFrom(r, p).len - s).offset = r.offset + p
         /\ RangeEnd(SliceTo(SliceFrom(r, p), SliceFrom(r, p).len - s)) = r.offset + r.len - s
         /\ SliceBack(SliceFrom(r, p), s) \in Ranges
         /\ SliceBack(SliceFrom(r, p), s).offset = r.offset + r.len - s
         /\ SliceBack(SliceFrom(r, p), s).len = s
         /\ RangeEnd(SliceFrom(r, p)) = r.offset + r.len
<1>1. r.offset \in Nat /\ r.len \in Nat /\ r.len - p - s \in Nat /\ r.offset + p \in Nat /\ r.offset + r.len - s \in Nat
  BY DEF Ranges
<1>2. SliceFrom(r, p) = MkRange(r.offset + p, r.len - p)
  BY DEF SliceFrom
<1>3. SliceTo(SliceFrom(r, p), SliceFrom(r, p).len - s) = MkRange(r.offset + p, r.len - p - s)
  BY <1>2 DEF SliceTo, MkRange
<1>4. SliceBack(SliceFrom(r, p), s) = MkRange(r.offset + r.len - s, s)
  BY <1>1, <1>2 DEF SliceBack, SliceFrom, MkRange
<1>5. MkRange(r.offset + p, r.len - p - s) \in Ranges /\ MkRange(r.offset + r.len - s, s) \in Ranges
  BY <1>1 DEF MkRange, Ranges
<1>6. RangeEnd(MkRange(r.offset + p, r.len - p - s)) = r.offset + r.len - s
  BY <1>1 DEF RangeEnd, MkRange
<1>7. RangeEnd(MkRange(r.offset + p, r.len - p)) = r.offset + r.len
  BY <1>1 DEF RangeEnd, MkRange
<1>8. /\ MkRange(r.offset + p, r.len - p - s).offset = r.offset + p
      /\ MkRange(r.offset + r.len - s, s).offset = r.offset + r.len - s
      /\ MkRange(r.offset + r.len - s, s).len = s
  BY DEF MkRange
<1> QED
  BY <1>2, <1>3, <1>4, <1>5, <1>6, <1>7, <1>8

(* So a call of conquer() leaves tasks that cost what its box does. *)
LEMMA ConquerTasksDue ==
  ASSUME Inv, NEW o \in Ranges, NEW n \in Ranges, RangeEnd(o) <= Len(old), RangeEnd(n) <= Len(new)
  PROVE  DueOf(Items(ConquerTasks(o, n))) <= Due(Equal(o, n))
<1> DEFINE p  == PrefixLen(o, n)
           o1 == SliceFrom(o, p)
           n1 == SliceFrom(n, p)
           s  == SuffixLen(o1, n1)
           prefix == PushUnlessEmpty(Equal(SliceTo(o, p), SliceTo(n, p)))
           om == SliceTo(o1, o1.len - s)
           nm == SliceTo(n1, n1.len - s)
           suffix == PushUnlessEmpty(Equal(SliceBack(o1, s), SliceBack(n1, s)))
           c == Due(Equal(o, n))
<1>1. /\ o.offset \in Nat /\ n.offset \in Nat /\ o.len \in Nat /\ n.len \in Nat
      /\ p \in 0..o.len /\ p \in 0..n.len /\ p \in Nat
      /\ \A i \in 1..p : old[o.offset + i] = new[n.offset + i]
  BY SMTT(60), PrefixAndSuffixMatch DEF Ranges
<1>2. /\ o1 \in Ranges /\ o1.len = o.len - p /\ o1.offset = o.offset + p
      /\ n1 \in Ranges /\ n1.len = n.len - p /\ n1.offset = n.offset + p
      /\ o1.len \in Nat /\ n1.len \in Nat
  BY <1>1 DEF SliceFrom, MkRange, Ranges
<1>3. /\ s \in 0..o1.len /\ s \in 0..n1.len /\ s \in Nat
      /\ \A i \in 0..s - 1 : old[RangeEnd(o1) - i] = new[RangeEnd(n1) - i]
  <2> HIDE DEF o1, n1
  <2>1. s \in 0..o1.len /\ s \in 0..n1.len /\ \A i \in 0..s - 1 : old[RangeEnd(o1) - i] = new[RangeEnd(n1) - i]
    BY <1>2, PrefixAndSuffixMatch
  <2> HIDE DEF s
  <2> QED
    BY <1>2, <2>1
<1>4. ConquerTasks(o, n) = prefix \o Middle(om, nm) \o suffix
  BY DEF ConquerTasks
<1>5. /\ SliceTo(o, p) \in Ranges /\ SliceTo(o, p).offset = o.offset /\ SliceTo(o, p).len = p
      /\ SliceTo(n, p) \in Ranges /\ SliceTo(n, p).offset = n.offset /\ SliceTo(n, p).len = p
  BY <1>1 DEF SliceTo, MkRange, Ranges
<1>6. c \in Nat /\ Within(old, new, o.offset, n.offset, RangeEnd(o), RangeEnd(n), c)
  BY BoxDue
<1> HIDE DEF p, o1, n1, s, c
<1> DEFINE os == SliceBack(o1, s)
           ns == SliceBack(n1, s)
<1>7. p + s <= o.len /\ p + s <= n.len
  BY SMTT(60), <1>1, <1>2, <1>3
<1>8. ASSUME NEW r \in Ranges, p + s <= r.len, NEW r1, r1 = SliceFrom(r, p)
       PROVE  /\ SliceTo(r1, r1.len - s) \in Ranges /\ SliceTo(r1, r1.len - s).offset = r.offset + p
              /\ RangeEnd(SliceTo(r1, r1.len - s)) = r.offset + r.len - s
              /\ SliceBack(r1, s) \in Ranges /\ SliceBack(r1, s).offset = r.offset + r.len - s
              /\ SliceBack(r1, s).len = s /\ RangeEnd(r1) = r.offset + r.len
  BY <1>1, <1>3, <1>8, CutBothEnds
<1>9. o1 = SliceFrom(o, p) /\ n1 = SliceFrom(n, p)
  BY DEF o1, n1
<1>10. /\ om \in Ranges /\ om.offset = o.offset + p /\ RangeEnd(om) = o.offset + o.len - s
      /\ os \in Ranges /\ os.offset = o.offset + o.len - s /\ os.len = s /\ RangeEnd(o1) = o.offset + o.len
  BY <1>7, <1>8, <1>9
<1>11. /\ nm \in Ranges /\ nm.offset = n.offset + p /\ RangeEnd(nm) = n.offset + n.len - s
       /\ ns \in Ranges /\ ns.offset = n.offset + n.len - s /\ ns.len = s /\ RangeEnd(n1) = n.offset + n.len
  BY <1>7, <1>8, <1>9
<1> HIDE DEF os, ns
<1>12. ASSUME NEW i \in 1..os.len PROVE old[os.offset + i] = new[ns.offset + i]
  <2>1. s - i \in 0..s - 1
    BY <1>3, <1>10
  <2>2. RangeEnd(o1) - (s - i) = os.offset + i /\ RangeEnd(n1) - (s - i) = ns.offset + i
    <3>1. s \in Nat /\ i \in Nat /\ o.offset \in Nat /\ n.offset \in Nat /\ o.len \in Nat /\ n.len \in Nat
      BY <1>1, <1>3, <1>10
    <3>2. /\ RangeEnd(o1) = o.offset + o.len /\ os.offset = o.offset + o.len - s
          /\ RangeEnd(n1) = n.offset + n.len /\ ns.offset = n.offset + n.len - s
      BY <1>10, <1>11
    <3> HIDE DEF s
    <3> QED
      BY SMTT(60), <3>1, <3>2
  <2> QED
    BY <1>3, <2>1, <2>2
<1>13. /\ prefix \in Seq(Task) /\ DueOf(Items(prefix)) = 0
  BY <1>1, <1>5, PushUnlessEmptyPath, PushUnlessEmptyDue
<1>14. /\ suffix \in Seq(Task) /\ DueOf(Items(suffix)) = 0
  BY <1>10, <1>11, <1>12, PushUnlessEmptyPath, PushUnlessEmptyDue DEF os, ns
<1> HIDE DEF om, nm
<1>15. Middle(om, nm) \in Seq(Task)
  BY <1>10, <1>11, MiddlePath
<1>16. DueOf(Items(Middle(om, nm))) <= c
  <2> DEFINE x == o.offset
             y == n.offset
             u == RangeEnd(om)
             v == RangeEnd(nm)
  <2>1. /\ RangeEnd(o) = u + s /\ RangeEnd(n) = v + s /\ x + p <= u /\ y + p <= v
        /\ x \in Nat /\ y \in Nat /\ u \in Nat /\ v \in Nat /\ s \in Nat /\ p \in Nat
        /\ x <= u /\ y <= v /\ u <= Len(old) /\ v <= Len(new)
    <3>1. /\ RangeEnd(o) = o.offset + o.len /\ RangeEnd(n) = n.offset + n.len
      BY DEF RangeEnd
    <3>2. Len(old) \in Nat /\ Len(new) \in Nat
      BY DEF Inv, TypeOK
    <3>3. RangeEnd(om) = o.offset + o.len - s /\ RangeEnd(nm) = n.offset + n.len - s
      BY <1>10, <1>11
    <3>4. s \in Nat /\ p \in Nat /\ o.offset \in Nat /\ n.offset \in Nat /\ o.len \in Nat /\ n.len \in Nat
      BY <1>1, <1>3
    <3> DEFINE f == o.len
               g == n.len
    <3>5. /\ RangeEnd(o) = x + f /\ RangeEnd(n) = y + g /\ u = x + f - s /\ v = y + g - s
          /\ p + s <= f /\ p + s <= g /\ x + f <= Len(old) /\ y + g <= Len(new)
          /\ x \in Nat /\ y \in Nat /\ f \in Nat /\ g \in Nat /\ p \in Nat /\ s \in Nat
      BY <1>7, <3>1, <3>3, <3>4
    <3> HIDE DEF p, s, om, nm, x, y, u, v, f, g
    <3>6. /\ RangeEnd(o) = u + s /\ x + p <= u /\ u \in Nat /\ x <= u /\ u <= Len(old)
      BY <3>2, <3>5
    <3>7. /\ RangeEnd(n) = v + s /\ y + p <= v /\ v \in Nat /\ y <= v /\ v <= Len(new)
      BY <3>2, <3>5
    <3> QED
      BY <3>5, <3>6, <3>7
  <2>2. om.offset = x + p /\ nm.offset = y + p /\ c \in Int
        /\ Within(old, new, x, y, u + s, v + s, c)
    BY <1>6, <1>10, <1>11, <2>1
  <2> HIDE DEF x, y, u, v
  <2>3. Within(old, new, x, y, u, v, c)
    BY <2>1, <2>2, WithinShorter
  <2>4. Within(old, new, x + p, y + p, u, v, c)
    BY <2>1, <2>2, <2>3, WithinLater
  <2>5. Within(old, new, om.offset, nm.offset, RangeEnd(om), RangeEnd(nm), c)
    BY <2>2, <2>4 DEF u, v
  <2>6. RangeEnd(om) <= Len(old) /\ RangeEnd(nm) <= Len(new)
    BY <2>1 DEF u, v
  <2> QED
    BY <1>10, <1>11, <2>2, <2>5, <2>6, MiddleDue
<1> DEFINE m == Middle(om, nm)
<1>17. m \in Seq(Task) /\ DueOf(Items(m)) <= c /\ ConquerTasks(o, n) = prefix \o m \o suffix
  BY <1>4, <1>15, <1>16
<1> HIDE DEF prefix, suffix, m
<1>18. /\ Items(prefix) \in Seq(DiffRange) /\ Items(m) \in Seq(DiffRange)
       /\ Items(prefix \o m) = Items(prefix) \o Items(m) /\ prefix \o m \in Seq(Task)
  BY <1>13, <1>17, ItemsConcat
<1>19. /\ Items(prefix \o m) \in Seq(DiffRange) /\ Items(suffix) \in Seq(DiffRange)
       /\ Items((prefix \o m) \o suffix) = Items(prefix \o m) \o Items(suffix)
  BY <1>14, <1>18, ItemsConcat
<1>20. DueOf(Items(prefix \o m)) = DueOf(Items(prefix)) + DueOf(Items(m))
  BY <1>18, DuesConcat
<1>21. DueOf(Items((prefix \o m) \o suffix)) = DueOf(Items(prefix \o m)) + DueOf(Items(suffix))
  BY <1>19, DuesConcat
<1>22. DueOf(Items(m)) \in Nat
  BY <1>18, DuesType
<1> QED
  BY <1>13, <1>14, <1>17, <1>20, <1>21, <1>22 DEF c

(* Part of a box, where it stands in the texts. *)
LEMMA PartDue ==
  ASSUME Inv, Tiled, Running, NEW x \in Nat, NEW y \in Nat, NEW n \in Nat, NEW m \in Nat, NEW c \in Int,
         x + n <= OldBox, y + m <= NewBox, Within(BoxOld, BoxNew, x, y, x + n, y + m, c)
  PROVE  /\ MkRange(box.old.offset + x, n) \in Ranges /\ MkRange(box.new.offset + y, m) \in Ranges
         /\ Due(Equal(MkRange(box.old.offset + x, n), MkRange(box.new.offset + y, m))) \in Nat
         /\ Due(Equal(MkRange(box.old.offset + x, n), MkRange(box.new.offset + y, m))) <= c
<1> DEFINE f == box.old.offset + x
           g == box.new.offset + y
           a == MkRange(f, n)
           b == MkRange(g, m)
<1>1. /\ box.old.offset \in Nat /\ box.new.offset \in Nat /\ OldBox \in Nat /\ NewBox \in Nat
      /\ box.old.offset + OldBox <= Len(old) /\ box.new.offset + NewBox <= Len(new)
      /\ \A i \in 1..OldBox : BoxOld[i] = old[box.old.offset + i]
      /\ \A i \in 1..NewBox : BoxNew[i] = new[box.new.offset + i]
  BY BoxInTexts
<1>2. f \in Nat /\ g \in Nat /\ f + n <= Len(old) /\ g + m <= Len(new)
  <2>1. Len(old) \in Nat /\ Len(new) \in Nat
    BY DEF Inv, TypeOK
  <2> DEFINE s == box.old.offset
             t == box.new.offset
  <2>2. /\ s \in Nat /\ t \in Nat /\ OldBox \in Nat /\ NewBox \in Nat
        /\ s + OldBox <= Len(old) /\ t + NewBox <= Len(new) /\ f = s + x /\ g = t + y
    BY <1>1
  <2> HIDE DEF s, t, f, g
  <2>3. f \in Nat /\ f + n <= Len(old)
    BY <2>1, <2>2
  <2>4. g \in Nat /\ g + m <= Len(new)
    BY <2>1, <2>2
  <2> QED
    BY <2>3, <2>4
<1>3. SameFrom(BoxOld, x, old, f, n)
  <2> SUFFICES ASSUME NEW i \in 1..n PROVE BoxOld[x + i] = old[f + i]
    BY DEF SameFrom
  <2>1. x + i \in 1..OldBox /\ box.old.offset + (x + i) = f + i
    BY SMTT(60), <1>1
  <2> QED
    BY <1>1, <2>1
<1>4. SameFrom(BoxNew, y, new, g, m)
  <2> SUFFICES ASSUME NEW i \in 1..m PROVE BoxNew[y + i] = new[g + i]
    BY DEF SameFrom
  <2>1. y + i \in 1..NewBox /\ box.new.offset + (y + i) = g + i
    BY <1>1
  <2> QED
    BY <1>1, <2>1
<1>5. /\ a \in Ranges /\ a.offset = f /\ RangeEnd(a) = f + n
      /\ b \in Ranges /\ b.offset = g /\ RangeEnd(b) = g + m
  BY <1>2 DEF MkRange, Ranges, RangeEnd
<1> HIDE DEF f, g, a, b
<1>6. Within(old, new, f, g, f + n, g + m, c)
  BY <1>2, <1>3, <1>4, WithinShift
<1>7. /\ RangeEnd(a) <= Len(old) /\ RangeEnd(b) <= Len(new)
      /\ Within(old, new, a.offset, b.offset, RangeEnd(a), RangeEnd(b), c)
  BY <1>2, <1>5, <1>6
<1>8. Due(Equal(a, b)) \in Nat /\ Due(Equal(a, b)) <= c
  BY <1>5, <1>7, BoxDue
<1> QED
  BY <1>5, <1>8 DEF f, g, a, b

(* The two parts that a box is split into cost no more than the box. *)
LEMMA SplitDue ==
  ASSUME Inv, Tiled, Running, NEW x, NEW y, Splits(BoxOld, BoxNew, OldBox, NewBox, x, y)
  PROVE  Due(Equal(SliceTo(box.old, x), SliceTo(box.new, y)))
           + Due(Equal(SliceFrom(box.old, x), SliceFrom(box.new, y)))
         <= Due(Equal(box.old, box.new))
<1> DEFINE n == OldBox
           m == NewBox
           whole == Due(Equal(box.old, box.new))
           first == Due(Equal(SliceTo(box.old, x), SliceTo(box.new, y)))
           last == Due(Equal(SliceFrom(box.old, x), SliceFrom(box.new, y)))
<1>1. x \in 0..n /\ y \in 0..m
  BY DEF Splits
<1>2. PICK c \in Nat, e \in Nat : /\ Within(BoxOld, BoxNew, 0, 0, x, y, c)
                                  /\ Within(BoxOld, BoxNew, x, y, n, m, e)
                                  /\ NotEnough(BoxOld, BoxNew, n, m, c + e - 1)
  BY DEF Splits
<1>3. /\ n \in Nat /\ m \in Nat /\ Len(BoxOld) = n /\ Len(BoxNew) = m
      /\ box.old.offset \in Nat /\ box.new.offset \in Nat /\ n = box.old.len /\ m = box.new.len
      /\ box.old \in Ranges /\ box.new \in Ranges
  BY BoxInTexts DEF OldBox, NewBox, Inv, TypeOK
<1> HIDE DEF n, m
<1>4. x \in Nat /\ y \in Nat /\ n - x \in Nat /\ m - y \in Nat /\ x <= n /\ y <= m /\ c \in Int /\ e \in Int /\ 0 \in Nat
      /\ x + (n - x) = n /\ y + (m - y) = m /\ 0 + x = x /\ 0 + y = y
      /\ box.old.offset + 0 = box.old.offset /\ box.new.offset + 0 = box.new.offset
  BY SMTT(60), <1>1, <1>3
<1>5. first \in Nat /\ first <= c
  <2>1. /\ Within(BoxOld, BoxNew, 0, 0, 0 + x, 0 + y, c) /\ 0 + x <= OldBox /\ 0 + y <= NewBox
    BY <1>2, <1>4 DEF n, m
  <2>2. /\ Due(Equal(MkRange(box.old.offset + 0, x), MkRange(box.new.offset + 0, y))) \in Nat
        /\ Due(Equal(MkRange(box.old.offset + 0, x), MkRange(box.new.offset + 0, y))) <= c
    BY <1>4, <2>1, PartDue
  <2> QED
    BY <1>4, <2>2 DEF SliceTo
<1>6. last \in Nat /\ last <= e
  <2>1. /\ Within(BoxOld, BoxNew, x, y, x + (n - x), y + (m - y), e)
        /\ x + (n - x) <= OldBox /\ y + (m - y) <= NewBox
    <3>1. x + (n - x) = n /\ y + (m - y) = m /\ n <= n /\ m <= m
      BY SMTT(60), <1>3, <1>4
    <3>2. Within(BoxOld, BoxNew, x, y, n, m, e)
      BY <1>2
    <3>3. x + (n - x) <= n /\ y + (m - y) <= m
      BY <3>1
    <3> QED
      BY <3>1, <3>2, <3>3 DEF n, m
  <2>2. /\ Due(Equal(MkRange(box.old.offset + x, n - x), MkRange(box.new.offset + y, m - y))) \in Nat
        /\ Due(Equal(MkRange(box.old.offset + x, n - x), MkRange(box.new.offset + y, m - y))) <= e
    BY <1>4, <2>1, PartDue
  <2>3. /\ SliceFrom(box.old, x) = MkRange(box.old.offset + x, n - x)
        /\ SliceFrom(box.new, y) = MkRange(box.new.offset + y, m - y)
    BY <1>3 DEF SliceFrom
  <2> QED
    BY <2>2, <2>3
<1>7. whole \in Nat /\ c + e <= whole
  <2>1. whole = EditDistance(BoxOld, BoxNew)
    BY DEF Due, Equal, IsEdit, BoxOld, BoxNew
  <2>2. Len(BoxOld) \in Nat /\ Len(BoxNew) \in Nat
    BY <1>3
  <2>3. Least(BoxOld, BoxNew, 0, 0, n, m, whole)
    BY <1>3, <2>1, <2>2, EditDistanceLeast
  <2> HIDE DEF whole
  <2>4. whole \in Nat /\ Within(BoxOld, BoxNew, 0, 0, n, m, whole)
    BY <2>3 DEF Least
  <2>5. ASSUME whole <= c + e - 1 PROVE FALSE
    <3>1. whole \in Int /\ c + e - 1 \in Int
      BY <1>4, <2>4
    <3>2. Within(BoxOld, BoxNew, 0, 0, n, m, c + e - 1)
      <4> DEFINE more == c + e - 1
      <4>1. more \in Int /\ whole <= more /\ 0 \in Nat
        BY <2>5, <3>1
      <4> HIDE DEF more
      <4>2. Within(BoxOld, BoxNew, 0, 0, n, m, more)
        BY <1>3, <2>4, <3>1, <4>1, WithinMore
      <4> QED
        BY <4>2 DEF more
    <3> QED
      BY <1>2, <3>2 DEF NotEnough
  <2> QED
    BY <1>4, <2>4, <2>5
<1> HIDE DEF whole, first, last
<1>8. first + last <= whole
  BY <1>4, <1>5, <1>6, <1>7
<1> QED
  BY <1>8 DEF whole, first, last

(* What is outstanding after a search: the two parts, then the rest. *)
LEMMA SplitAtOutstanding ==
  ASSUME Inv, Tiled, Running, UNCHANGED <<texts, solution, box>>, NEW px, NEW py, SplitAt(px, py)
  PROVE  /\ Equal(SliceTo(box.old, px), SliceTo(box.new, py)) \in DiffRange
         /\ Equal(SliceFrom(box.old, px), SliceFrom(box.new, py)) \in DiffRange
         /\ Equal(box.old, box.new) \in DiffRange /\ Items(stack) \in Seq(DiffRange)
         /\ Outstanding = <<Equal(box.old, box.new)>> \o Items(stack)
         /\ Outstanding' = <<Equal(SliceTo(box.old, px), SliceTo(box.new, py))>>
                             \o (<<Equal(SliceFrom(box.old, px), SliceFrom(box.new, py))>> \o Items(stack))
<1> DEFINE a == ConquerTask(SliceTo(box.old, px), SliceTo(box.new, py))
           b == ConquerTask(SliceFrom(box.old, px), SliceFrom(box.new, py))
<1>1. /\ px \in 0..box.old.len /\ py \in 0..box.new.len
      /\ box.old \in Ranges /\ box.new \in Ranges /\ stack \in Seq(Task)
      /\ phase' = "conquer" /\ stack' = <<a, b>> \o stack
  BY DEF SplitAt, OldBox, NewBox, Inv, TypeOK
<1>2. /\ SliceTo(box.old, px) \in Ranges /\ SliceTo(box.new, py) \in Ranges
      /\ SliceFrom(box.old, px) \in Ranges /\ SliceFrom(box.new, py) \in Ranges
  BY <1>1, SliceType
<1>3. /\ a \in Task /\ a.item = Equal(SliceTo(box.old, px), SliceTo(box.new, py)) /\ a.item \in DiffRange
      /\ b \in Task /\ b.item = Equal(SliceFrom(box.old, px), SliceFrom(box.new, py)) /\ b.item \in DiffRange
  BY <1>2 DEF ConquerTask, Equal, Task, DiffRange
<1>4. Equal(box.old, box.new) \in DiffRange
  BY <1>1 DEF Equal, DiffRange
<1> HIDE DEF a, b
<1>5. Outstanding = <<Equal(box.old, box.new)>> \o Items(stack) /\ Items(stack) \in Seq(DiffRange)
  BY OutstandingType DEF Searched, Running
<1>6. stack' = <<a>> \o (<<b>> \o stack)
  <2>1. a \in Task /\ b \in Task /\ stack \in Seq(Task)
    BY <1>1, <1>3
  <2>2. <<a, b>> \o stack = <<a>> \o (<<b>> \o stack)
    BY <2>1, TwoInFront
  <2> QED
    BY <1>1, <2>2
<1>7. /\ <<a>> \in Seq(Task) /\ <<b>> \in Seq(Task) /\ <<b>> \o stack \in Seq(Task)
  BY <1>1, <1>3
<1>8. Items(<<b>> \o stack) = <<b.item>> \o Items(stack)
  BY <1>1, <1>3, <1>7, ItemsConcat, ItemsSingle
<1>9. Items(stack') = <<a.item>> \o (<<b.item>> \o Items(stack))
  BY <1>3, <1>6, <1>7, <1>8, ItemsConcat, ItemsSingle
<1>10. Outstanding' = Items(stack')
  <2>1. Outstanding' = Searched' \o Items(stack')
    BY DEF Outstanding, Searched, Items
  <2>2. Searched' = <<>>
    BY <1>1 DEF Searched
  <2>3. Items(stack') \in Seq(DiffRange)
    BY <1>3, <1>5, <1>9
  <2> QED
    BY <2>1, <2>2, <2>3
<1> QED
  BY <1>3, <1>4, <1>5, <1>9, <1>10

(* What is outstanding when conquer() is called, pushes or searches. *)
LEMMA ConquerBoxOutstanding ==
  ASSUME Inv, Tiled, ConquerBox
  PROVE  LET call == Head(stack).item
             rest == Items(Tail(stack))
         IN  /\ call \in DiffRange /\ call.kind = "Equal" /\ rest \in Seq(DiffRange)
             /\ Items(ConquerTasks(call.old, call.new)) \in Seq(DiffRange)
             /\ Outstanding = <<call>> \o rest
             /\ Outstanding' = Items(ConquerTasks(call.old, call.new)) \o rest
<1> DEFINE call == Head(stack).item
           tasks == ConquerTasks(call.old, call.new)
           tail == Tail(stack)
           rest == Items(tail)
<1>1. /\ stack # <<>> /\ stack' = tasks \o tail
      /\ phase = "conquer" /\ phase' = "conquer" /\ Head(stack).op = "conquer"
  BY DEF ConquerBox, Top
<1>2. stack \in Seq(SoundTask)
  BY DEF Tiled
<1>3. /\ Head(stack) \in SoundTask /\ tail \in Seq(Task) /\ Head(stack) \in Task /\ rest \in Seq(DiffRange)
      /\ Outstanding = <<call>> \o rest
  BY <1>1, <1>2, OutstandingType
<1>4. call \in DiffRange /\ call.kind = "Equal" /\ call.old \in Ranges /\ call.new \in Ranges
  BY <1>1, <1>3 DEF SoundTask, Task, DiffRange
<1> HIDE DEF call
<1>5. tasks \in Seq(Task)
  BY <1>4, ConquerTasksPath
<1> HIDE DEF tasks, tail
<1>6. Items(tasks) \in Seq(DiffRange) /\ Items(tasks \o tail) = Items(tasks) \o Items(tail)
  BY <1>3, <1>5, ItemsConcat
<1>7. Outstanding' = Items(tasks \o tail)
  <2>1. Outstanding' = Searched' \o Items(stack')
    BY DEF Outstanding, Searched, Items
  <2>2. Searched' = <<>>
    BY <1>1 DEF Searched
  <2>3. Items(tasks \o tail) \in Seq(DiffRange)
    BY <1>3, <1>6
  <2> QED
    BY <1>1, <2>1, <2>2, <2>3
<1>8. Outstanding' = Items(tasks) \o rest
  BY <1>6, <1>7
<1> QED
  BY <1>3, <1>4, <1>6, <1>8 DEF call, tasks, tail

(* A push takes the first item of what is outstanding. *)
LEMMA PushOutstanding ==
  ASSUME Inv, Tiled, Push
  PROVE  /\ Head(stack).item \in DiffRange /\ Head(stack).item \in Matching(old, new)
         /\ Outstanding' \in Seq(DiffRange)
         /\ Outstanding = <<Head(stack).item>> \o Outstanding'
         /\ solution \in Seq(DiffRange) /\ solution' = solution \o <<Head(stack).item>>
<1> DEFINE item == Head(stack).item
<1>1. /\ stack # <<>> /\ stack' = Tail(stack) /\ solution' = Append(solution, item)
      /\ phase = "conquer" /\ phase' = "conquer" /\ Head(stack).op = "push"
  BY DEF Push, Top
<1>2. stack \in Seq(SoundTask) /\ solution \in Seq(DiffRange)
  BY DEF Tiled, Inv, TypeOK
<1>3. /\ Head(stack) \in SoundTask /\ Head(stack) \in Task /\ Items(Tail(stack)) \in Seq(DiffRange)
      /\ Outstanding = <<item>> \o Items(Tail(stack))
  <2>1. Head(stack) \in SoundTask
    BY <1>1, <1>2
  <2> QED
    BY <1>1, <2>1, OutstandingType
<1>4. item \in Matching(old, new) /\ item \in DiffRange
  BY <1>1, <1>3 DEF SoundTask, Matching
<1> HIDE DEF item
<1>5. solution' = solution \o <<item>>
  BY <1>1, <1>2, <1>4
<1>6. Outstanding' = Items(Tail(stack))
  <2>1. Outstanding' = Searched' \o Items(stack')
    BY DEF Outstanding, Searched, Items
  <2>2. Searched' = <<>>
    BY <1>1 DEF Searched
  <2> QED
    BY <1>1, <1>3, <2>1, <2>2
<1> QED
  BY <1>2, <1>3, <1>4, <1>5, <1>6 DEF item

(* A search is for the box of the task that asked for it. *)
LEMMA StartSearchOutstanding ==
  ASSUME Inv, Tiled, StartSearch
  PROVE  Outstanding' = Outstanding
<1> DEFINE item == Head(stack).item
<1>1. /\ stack # <<>> /\ stack' = Tail(stack)
      /\ phase = "conquer" /\ phase' = "forward" /\ Head(stack).op = "search"
      /\ box' = [old |-> item.old, new |-> item.new]
  BY DEF StartSearch, Top
<1>2. stack \in Seq(SoundTask)
  BY DEF Tiled
<1>3. /\ Head(stack) \in SoundTask /\ Head(stack) \in Task
      /\ Outstanding = <<item>> \o Items(Tail(stack))
  BY <1>1, <1>2, OutstandingType
<1>4. item \in DiffRange /\ item.kind = "Equal"
  BY <1>1, <1>3 DEF SoundTask, Task
<1>5. Searched' = <<item>>
  <2>1. Equal(item.old, item.new) = item
    BY <1>4 DEF Equal, DiffRange
  <2>2. Searched' = <<Equal(box'.old, box'.new)>>
    BY <1>1 DEF Searched
  <2>3. box'.old = item.old /\ box'.new = item.new
    BY <1>1
  <2> HIDE DEF item
  <2> QED
    BY <2>1, <2>2, <2>3
<1>6. Outstanding' = Searched' \o Items(stack')
  BY DEF Outstanding, Searched, Items
<1> QED
  BY <1>1, <1>3, <1>5, <1>6

(* The prices of items do not change. *)
LEMMA FixedDues ==
  ASSUME UNCHANGED texts
  PROVE  DueOf(Outstanding)' = DueOf(Outstanding') /\ EditDistance(old, new)' = EditDistance(old, new)
BY DEF texts, DueOf, Dues, Due

(* The first box is the two texts. *)
LEMMA InitFrugal == Init => Frugal
<1> SUFFICES ASSUME Init PROVE Frugal
  OBVIOUS
<1> DEFINE o == MkRange(0, Len(old))
           n == MkRange(0, Len(new))
           t == ConquerTask(o, n)
<1>1. Inv
  BY InitInv
<1>2. old \in Seq(Symbol) /\ new \in Seq(Symbol) /\ Len(old) \in Nat /\ Len(new) \in Nat
  BY <1>1 DEF Inv, TypeOK
<1>3. o \in Ranges /\ n \in Ranges
  BY <1>2 DEF MkRange, Ranges
<1>4. phase = "conquer" /\ stack = <<t>> /\ solution = <<>>
  BY DEF Init
<1>5. AsSlice(old, o) = old /\ AsSlice(new, n) = new
  <2>1. o.offset = 0 /\ RangeEnd(o) = Len(old) /\ n.offset = 0 /\ RangeEnd(n) = Len(new) /\ 0 + 1 = 1
    BY <1>2 DEF MkRange, RangeEnd
  <2>2. SubSeq(old, 1, Len(old)) = old /\ SubSeq(new, 1, Len(new)) = new
    BY <1>2, WholeSeq
  <2> QED
    BY <2>1, <2>2 DEF AsSlice
<1> HIDE DEF o, n
<1>6. t \in Task /\ t.item = Equal(o, n) /\ Equal(o, n) \in DiffRange
  BY <1>3 DEF ConquerTask, Equal, Task, DiffRange
<1> HIDE DEF t
<1>7. Outstanding = <<Equal(o, n)>>
  <2>1. Outstanding = Items(stack)
    BY <1>1, <1>4, OutstandingType
  <2>2. Items(<<t>>) = <<t.item>>
    BY <1>6, ItemsSingle
  <2> QED
    BY <1>4, <1>6, <2>1, <2>2
<1>8. DueOf(Outstanding) = EditDistance(old, new)
  <2>1. Due(Equal(o, n)) = EditDistance(old, new)
    BY <1>5 DEF Due, Equal, IsEdit
  <2> QED
    BY <1>6, <1>7, <2>1, DuesSingle
<1>9. Cost(solution) = 0 /\ DueOf(Outstanding) \in Nat
  <2>1. Cost(<<>>) = 0
    BY SumUpToRecurrence DEF Cost
  <2>2. Outstanding \in Seq(DiffRange)
    BY <1>1, OutstandingType
  <2> QED
    BY <1>4, <2>1, <2>2, DuesType
<1> QED
  BY <1>8, <1>9 DEF Frugal

(* Every step leaves what is emitted and outstanding no more expensive. *)
LEMMA NextFrugal == Inv /\ Tiled /\ SearchSound /\ Frugal /\ [Next]_vars => Frugal'
<1> SUFFICES ASSUME Inv, Tiled, SearchSound, Frugal, [Next]_vars PROVE Frugal'
  OBVIOUS
<1> DEFINE c == EditDistance(old, new)
           e == Cost(solution)
<1>1. UNCHANGED texts
  BY DEF Next, ConquerBox, Push, StartSearch, Forward, Backward, Return, vars, texts
<1>2. c \in Nat /\ e \in Nat /\ Outstanding \in Seq(DiffRange) /\ DueOf(Outstanding) \in Nat
  <2>1. Len(old) \in Nat /\ Len(new) \in Nat /\ solution \in Seq(DiffRange)
    BY DEF Inv, TypeOK
  <2>2. e \in Nat
    <3>1. 0 \in 0..Len(solution)
      BY <2>1
    <3> QED
      BY <2>1, <3>1, UpToType
  <2>3. c \in Nat
    BY <2>1, EditDistanceLeast DEF Least
  <2> QED
    BY <2>2, <2>3, OutstandingType, DuesType
<1>3. e + DueOf(Outstanding) <= c
  BY DEF Frugal
<1>4. ASSUME UNCHANGED solution, DueOf(Outstanding') <= DueOf(Outstanding), DueOf(Outstanding') \in Nat PROVE Frugal'
  <2>1. Cost(solution)' = e /\ EditDistance(old, new)' = c /\ DueOf(Outstanding)' = DueOf(Outstanding')
    BY <1>1, <1>4, FixedDues
  <2> HIDE DEF c, e
  <2>2. e + DueOf(Outstanding') <= c
    BY <1>2, <1>3, <1>4
  <2> QED
    BY <2>1, <2>2 DEF Frugal
<1>5. ASSUME UNCHANGED solution, Outstanding' = Outstanding PROVE Frugal'
  BY <1>2, <1>4, <1>5
<1>6. ASSUME NEW x, NEW y, SplitAt(x, y), Running, UNCHANGED <<texts, solution, box>>,
             Splits(BoxOld, BoxNew, OldBox, NewBox, x, y)
      PROVE  Frugal'
  <2> DEFINE first == Equal(SliceTo(box.old, x), SliceTo(box.new, y))
             last == Equal(SliceFrom(box.old, x), SliceFrom(box.new, y))
             whole == Equal(box.old, box.new)
             rest == Items(stack)
  <2>1. /\ first \in DiffRange /\ last \in DiffRange /\ whole \in DiffRange /\ rest \in Seq(DiffRange)
        /\ Outstanding = <<whole>> \o rest
        /\ Outstanding' = <<first>> \o (<<last>> \o rest)
    BY <1>6, SplitAtOutstanding
  <2>2. Due(first) + Due(last) <= Due(whole)
    BY <1>6, SplitDue
  <2> HIDE DEF first, last, whole, rest
  <2>3. <<first>> \in Seq(DiffRange) /\ <<last>> \in Seq(DiffRange) /\ <<whole>> \in Seq(DiffRange)
        /\ <<last>> \o rest \in Seq(DiffRange)
    BY <2>1
  <2>4. /\ Due(first) \in Nat /\ Due(last) \in Nat /\ Due(whole) \in Nat /\ DueOf(rest) \in Nat
        /\ DueOf(<<first>>) = Due(first) /\ DueOf(<<last>>) = Due(last) /\ DueOf(<<whole>>) = Due(whole)
    BY <2>1, DueType, DuesType, DuesSingle
  <2>5. DueOf(<<whole>> \o rest) = Due(whole) + DueOf(rest)
    BY <2>1, <2>3, <2>4, DuesConcat
  <2>6. DueOf(<<last>> \o rest) = Due(last) + DueOf(rest)
    BY <2>1, <2>3, <2>4, DuesConcat
  <2>7. DueOf(<<first>> \o (<<last>> \o rest)) = Due(first) + (Due(last) + DueOf(rest))
    BY <2>3, <2>4, <2>6, DuesConcat
  <2>8. DueOf(Outstanding') = Due(first) + (Due(last) + DueOf(rest)) /\ DueOf(Outstanding) = Due(whole) + DueOf(rest)
    BY <2>1, <2>5, <2>7
  <2>9. DueOf(Outstanding') <= DueOf(Outstanding) /\ DueOf(Outstanding') \in Nat
    BY <2>2, <2>4, <2>8
  <2> QED
    BY <1>4, <1>6, <2>9
<1>7. CASE ConquerBox
  <2> DEFINE call == Head(stack).item
             rest == Items(Tail(stack))
             done == Items(ConquerTasks(call.old, call.new))
  <2>1. /\ call \in DiffRange /\ call.kind = "Equal" /\ rest \in Seq(DiffRange) /\ done \in Seq(DiffRange)
        /\ Outstanding = <<call>> \o rest /\ Outstanding' = done \o rest
    BY <1>7, ConquerBoxOutstanding
  <2> HIDE DEF call, rest
  <2>2. call.old \in Ranges /\ call.new \in Ranges /\ call = Equal(call.old, call.new)
    BY <2>1 DEF DiffRange, Equal
  <2>3. RangeEnd(call.old) <= Len(old) /\ RangeEnd(call.new) <= Len(new)
    <3>1. PICK x \in Nat, y \in Nat : Path(Outstanding, x, y, Len(old), Len(new))
      BY DEF Tiled
    <3>2. /\ Begins(call, x, y) /\ Path(rest, x + OldLen(call), y + NewLen(call), Len(old), Len(new))
          /\ x + OldLen(call) \in Nat /\ y + NewLen(call) \in Nat
      BY <2>1, <3>1, PathCons
    <3>3. RangeEnd(call.old) = x + OldLen(call) /\ RangeEnd(call.new) = y + NewLen(call)
      BY <2>1, <3>2, ItemLens DEF Begins, RangeEnd
    <3>4. Len(old) <= Len(old) /\ Len(new) <= Len(new)
      BY DEF Inv, TypeOK
    <3>5. x + OldLen(call) <= Len(old) /\ y + NewLen(call) <= Len(new)
      <4> DEFINE f == x + OldLen(call)
                 g == y + NewLen(call)
                 u == Len(old)
                 v == Len(new)
      <4>1. Path(rest, f, g, u, v) /\ f \in Nat /\ g \in Nat /\ u <= Len(old) /\ v <= Len(new)
        BY <3>2, <3>4
      <4> HIDE DEF f, g, u, v
      <4>2. f <= u /\ g <= v
        BY <2>1, <4>1, PathWithin
      <4> QED
        BY <4>2 DEF f, g, u, v
    <3> QED
      BY <3>3, <3>5
  <2>4. DueOf(done) <= Due(call)
    BY <2>2, <2>3, ConquerTasksDue
  <2> HIDE DEF done
  <2>5. <<call>> \in Seq(DiffRange) /\ DueOf(<<call>>) = Due(call) /\ Due(call) \in Nat
        /\ DueOf(done) \in Nat /\ DueOf(rest) \in Nat
    BY <2>1, DueType, DuesType, DuesSingle
  <2>6. DueOf(<<call>> \o rest) = Due(call) + DueOf(rest)
    BY <2>1, <2>5, DuesConcat
  <2>7. DueOf(done \o rest) = DueOf(done) + DueOf(rest)
    BY <2>1, DuesConcat
  <2>8. DueOf(Outstanding') = DueOf(done) + DueOf(rest) /\ DueOf(Outstanding) = Due(call) + DueOf(rest)
    BY <2>1, <2>6, <2>7
  <2>9. DueOf(Outstanding') <= DueOf(Outstanding) /\ DueOf(Outstanding') \in Nat
    BY <2>4, <2>5, <2>8
  <2>10. UNCHANGED solution
    BY <1>7 DEF ConquerBox
  <2> QED
    BY <1>4, <2>9, <2>10
<1>8. CASE Push
  <2> DEFINE item == Head(stack).item
             rest == Outstanding'
  <2>1. /\ item \in DiffRange /\ item \in Matching(old, new) /\ rest \in Seq(DiffRange)
        /\ Outstanding = <<item>> \o rest
        /\ solution \in Seq(DiffRange) /\ solution' = solution \o <<item>>
    BY <1>8, PushOutstanding
  <2>2. DueOf(Outstanding)' = DueOf(rest) /\ EditDistance(old, new)' = c
    BY <1>1, FixedDues
  <2>3. Cost(solution)' = Cost(solution')
    BY DEF Cost, EditLens
  <2> HIDE DEF item, rest
  <2>4. <<item>> \in Seq(DiffRange) /\ DueOf(<<item>>) = EditLen(item) /\ DueOf(rest) \in Nat /\ EditLen(item) \in Nat
    BY <2>1, DueType, DuesType, DuesSingle
  <2>5. DueOf(Outstanding) = EditLen(item) + DueOf(rest)
    BY <2>1, <2>4, DuesConcat
  <2>6. Cost(solution') = e + EditLen(item)
    <3>1. Cost(<<item>>) = EditLen(item)
      BY <2>1, CostCons
    <3>2. Cost(solution \o <<item>>) = Cost(solution) + Cost(<<item>>)
      BY <2>1, <2>4, UpToConcat
    <3> QED
      BY <2>1, <3>1, <3>2
  <2> HIDE DEF c, e
  <2>7. (e + EditLen(item)) + DueOf(rest) <= c
    BY <1>2, <1>3, <2>4, <2>5
  <2> QED
    BY <2>2, <2>3, <2>6, <2>7 DEF Frugal
<1>9. CASE StartSearch
  <2>1. UNCHANGED solution /\ Outstanding' = Outstanding
    BY <1>9, StartSearchOutstanding DEF StartSearch
  <2> QED
    BY <1>5, <2>1
<1>10. CASE Forward
  <2> DEFINE x0 == XStart(vf)
  <2>1. /\ phase = "forward" /\ Running /\ UNCHANGED <<texts, solution, box>>
        /\ SplitAt(x0, x0 - k) \/ (NextForward /\ UNCHANGED stack)
    BY <1>10 DEF Forward, Searching, Running
  <2>2. phase' = "conquer" => Splits(BoxOld, BoxNew, OldBox, NewBox, x0, x0 - k)
    BY <1>10, ForwardSound
  <2> HIDE DEF x0
  <2>3. CASE SplitAt(x0, x0 - k)
    <3>1. phase' = "conquer"
      BY <2>3 DEF SplitAt
    <3> QED
      BY <1>6, <2>1, <2>2, <2>3, <3>1
  <2>4. CASE NextForward /\ UNCHANGED stack
    <3>1. phase' \in {"forward", "backward"}
      BY <2>1, <2>4 DEF NextForward
    <3>2. Outstanding' = Outstanding
      BY <2>1, <2>4, <3>1 DEF Outstanding
    <3> QED
      BY <1>5, <2>1, <3>2
  <2> QED
    BY <2>1, <2>3, <2>4
<1>11. CASE Backward
  <2> DEFINE z == XStart(vb) + BackwardSnake(XStart(vb), XStart(vb) - k)
  <2>1. /\ phase = "backward" /\ Running /\ UNCHANGED <<texts, solution, box>>
        /\ SplitAt(OldBox - z, NewBox - (z - k)) \/ (NextBackward /\ UNCHANGED stack)
    BY <1>11 DEF Backward, Searching, Running
  <2>2. phase' = "conquer" => Splits(BoxOld, BoxNew, OldBox, NewBox, OldBox - z, NewBox - (z - k))
    BY <1>11, BackwardSound
  <2> HIDE DEF z
  <2>3. CASE SplitAt(OldBox - z, NewBox - (z - k))
    <3>1. phase' = "conquer"
      BY <2>3 DEF SplitAt
    <3> QED
      BY <1>6, <2>1, <2>2, <2>3, <3>1
  <2>4. CASE NextBackward /\ UNCHANGED stack
    <3>1. phase' \in {"forward", "backward"}
      BY <2>1, <2>4 DEF NextBackward
    <3>2. Outstanding' = Outstanding
      BY <2>1, <2>4, <3>1 DEF Outstanding
    <3> QED
      BY <1>5, <2>1, <3>2
  <2> QED
    BY <2>1, <2>3, <2>4
<1>12. CASE Return
  <2>1. UNCHANGED solution /\ Outstanding' = Outstanding
    BY <1>12 DEF Return, Outstanding
  <2> QED
    BY <1>5, <2>1
<1>13. CASE UNCHANGED vars
  <2>1. UNCHANGED solution /\ Outstanding' = Outstanding
    BY <1>13 DEF vars, Outstanding
  <2> QED
    BY <1>5, <2>1
<1> QED
  BY <1>7, <1>8, <1>9, <1>10, <1>11, <1>12, <1>13 DEF Next

-----------------------------------------------------------------------------
(* No empty items *)

(***************************************************************************)
(* An item as diff() emits it is not empty, and the range of the text that *)
(* it says nothing of is the empty one.  Of tasks, only what will be       *)
(* emitted counts.                                                         *)
(***************************************************************************)
Proper(diff) ==
  /\ ~IsEmpty(diff)
  /\ ~InOld(diff) => diff.old = EmptyRange
  /\ ~InNew(diff) => diff.new = EmptyRange
Solid(ds) == \A i \in 1..Len(ds) : ~IsEmpty(ds[i])
Emits(t) == t.op = "push" => Proper(t.item)
SolidTasks(tasks) == \A i \in 1..Len(tasks) : Emits(tasks[i])

(* A sequence over a set is one over every larger set. *)
LEMMA SeqWiden ==
  ASSUME NEW S, NEW T, S \subseteq T, NEW s \in Seq(S)
  PROVE  s \in Seq(T)
OBVIOUS

(* What a call of conquer() will emit is as it should be. *)
LEMMA ConquerTasksSolid ==
  ASSUME NEW o, NEW n
  PROVE  \E T : ConquerTasks(o, n) \in Seq(T) /\ \A t \in T : Emits(t)
<1>1. ASSUME NEW item, InOld(item) /\ InNew(item)
      PROVE  \E T : PushUnlessEmpty(item) \in Seq(T) /\ \A t \in T : Emits(t)
  <2> DEFINE T == {t \in {PushTask(item)} : Emits(t)}
  <2>1. PushUnlessEmpty(item) \in Seq(T)
    <3>1. CASE IsEmpty(item)
      BY <3>1 DEF PushUnlessEmpty
    <3>2. CASE ~IsEmpty(item)
      <4>1. Emits(PushTask(item)) /\ PushUnlessEmpty(item) = <<PushTask(item)>>
        BY <1>1, <3>2 DEF PushUnlessEmpty, Emits, PushTask, Proper
      <4> QED
        BY <4>1
    <3> QED
      BY <3>1, <3>2
  <2> QED
    BY <2>1
<1>2. ASSUME NEW a, NEW b
      PROVE  \E T : Middle(a, b) \in Seq(T) /\ \A t \in T : Emits(t)
  <2> DEFINE T == {t \in {PushTask(Insert(b)), PushTask(Delete(a)), SearchTask(a, b)} : Emits(t)}
  <2>1. b.len # 0 => PushTask(Insert(b)) \in T
    BY DEF Emits, PushTask, Proper, IsEmpty, LenOf, Inner, InOld, InNew, Insert
  <2>2. a.len # 0 => PushTask(Delete(a)) \in T
    BY DEF Emits, PushTask, Proper, IsEmpty, LenOf, Inner, InOld, InNew, Delete
  <2>3. SearchTask(a, b) \in T
    BY DEF Emits, SearchTask
  <2> HIDE DEF T
  <2>4. Middle(a, b) \in Seq(T)
    BY <2>1, <2>2, <2>3 DEF Middle
  <2> QED
    BY <2>4 DEF T
<1>3. \E first, middle, last :
        /\ InOld(first) /\ InNew(first) /\ InOld(last) /\ InNew(last)
        /\ ConquerTasks(o, n)
             = PushUnlessEmpty(first) \o Middle(middle[1], middle[2]) \o PushUnlessEmpty(last)
  <2> DEFINE p  == PrefixLen(o, n)
             o1 == SliceFrom(o, p)
             n1 == SliceFrom(n, p)
             s  == SuffixLen(o1, n1)
             first == Equal(SliceTo(o, p), SliceTo(n, p))
             a == SliceTo(o1, o1.len - s)
             b == SliceTo(n1, n1.len - s)
             last == Equal(SliceBack(o1, s), SliceBack(n1, s))
  <2>1. ConquerTasks(o, n) = PushUnlessEmpty(first) \o Middle(a, b) \o PushUnlessEmpty(last)
    BY DEF ConquerTasks
  <2>4. InOld(first) /\ InNew(first) /\ InOld(last) /\ InNew(last)
    BY DEF Equal, InOld, InNew
  <2> HIDE DEF first, a, b, last
  <2>2. <<a, b>>[1] = a /\ <<a, b>>[2] = b
    OBVIOUS
  <2>3. ConquerTasks(o, n)
          = PushUnlessEmpty(first) \o Middle(<<a, b>>[1], <<a, b>>[2]) \o PushUnlessEmpty(last)
    BY <2>1, <2>2
  <2> QED
    BY <2>3, <2>4
<1>4. PICK first, middle, last :
        /\ InOld(first) /\ InNew(first) /\ InOld(last) /\ InNew(last)
        /\ ConquerTasks(o, n)
             = PushUnlessEmpty(first) \o Middle(middle[1], middle[2]) \o PushUnlessEmpty(last)
  BY <1>3
<1>5. PICK F : PushUnlessEmpty(first) \in Seq(F) /\ \A t \in F : Emits(t)
  BY <1>1, <1>4
<1>6. PICK M : Middle(middle[1], middle[2]) \in Seq(M) /\ \A t \in M : Emits(t)
  BY <1>2
<1>7. PICK L : PushUnlessEmpty(last) \in Seq(L) /\ \A t \in L : Emits(t)
  BY <1>1, <1>4
<1> DEFINE T == F \cup M \cup L
           f == PushUnlessEmpty(first)
           m == Middle(middle[1], middle[2])
           l == PushUnlessEmpty(last)
<1>8. f \in Seq(T) /\ m \in Seq(T) /\ l \in Seq(T) /\ \A t \in T : Emits(t)
  <2>1. F \subseteq T /\ M \subseteq T /\ L \subseteq T /\ \A t \in T : Emits(t)
    BY <1>5, <1>6, <1>7
  <2> HIDE DEF T, f, m, l
  <2>2. f \in Seq(F) /\ m \in Seq(M) /\ l \in Seq(L)
    BY <1>5, <1>6, <1>7 DEF f, m, l
  <2> QED
    BY <2>1, <2>2, SeqWiden
<1> HIDE DEF T, f, m, l
<1>9. f \o m \o l \in Seq(T)
  BY <1>8
<1> QED
  BY <1>4, <1>8, <1>9 DEF f, m, l

(* The search never emits an empty range. *)
SearchSolid == Solid(solution) /\ SolidTasks(stack)

(* The search emits no empty item: conquer() pushes a prefix or suffix only
   if it has a length, and inserts or deletes only what is left. *)
LEMMA SearchStaysSolid ==
  ASSUME Inv, SearchSolid, [Next]_vars
  PROVE  SearchSolid'
<1>1. solution \in Seq(DiffRange) /\ stack \in Seq(Task)
  BY DEF Inv, TypeOK
<1> DEFINE T == {t \in Task : Emits(t)}
<1>2. stack \in Seq(T) /\ \A t \in T : Emits(t)
  <2>1. \A i \in 1..Len(stack) : stack[i] \in T
    BY <1>1 DEF SearchSolid, SolidTasks
  <2> QED
    BY <1>1, <2>1
<1> HIDE DEF T
<1>3. stack # <<>> => Emits(Head(stack)) /\ Tail(stack) \in Seq(T)
  BY <1>2
<1>4. ASSUME NEW S, NEW tasks \in Seq(S), \A t \in S : Emits(t) PROVE SolidTasks(tasks)
  BY <1>4 DEF SolidTasks
<1>5. CASE ConquerBox
  <2>1. stack # <<>> /\ solution' = solution
        /\ stack' = ConquerTasks(Head(stack).item.old, Head(stack).item.new) \o Tail(stack)
    BY <1>5 DEF ConquerBox, Top
  <2> DEFINE tasks == ConquerTasks(Head(stack).item.old, Head(stack).item.new)
  <2>2. PICK C : tasks \in Seq(C) /\ \A t \in C : Emits(t)
    BY ConquerTasksSolid
  <2> HIDE DEF tasks
  <2> DEFINE S == C \cup T
             rest == Tail(stack)
  <2>3. C \subseteq S /\ T \subseteq S /\ (\A t \in S : Emits(t)) /\ rest \in Seq(T)
    BY <1>2, <1>3, <2>1, <2>2
  <2> HIDE DEF S, rest
  <2>4. tasks \in Seq(S) /\ rest \in Seq(S)
    BY <2>2, <2>3, SeqWiden
  <2>5. tasks \o rest \in Seq(S)
    BY <2>4
  <2>6. SolidTasks(stack')
    BY <1>4, <2>1, <2>3, <2>5 DEF tasks, rest
  <2> QED
    BY <2>1, <2>6 DEF SearchSolid, SolidTasks
<1>6. CASE Push
  <2>1. /\ stack # <<>> /\ Head(stack).op = "push"
        /\ solution' = Append(solution, Head(stack).item) /\ stack' = Tail(stack)
    BY <1>6 DEF Push, Top
  <2>2. ~IsEmpty(Head(stack).item)
    BY <1>3, <2>1 DEF Emits, Proper
  <2>3. Solid(solution')
    <3> DEFINE item == Head(stack).item
    <3>1. \A i \in 1..Len(solution) : ~IsEmpty(solution[i])
      BY DEF SearchSolid, Solid
    <3> HIDE DEF item
    <3>2. ASSUME NEW i \in 1..Len(Append(solution, item))
          PROVE  Append(solution, item)[i] = item \/ (i \in 1..Len(solution) /\ Append(solution, item)[i] = solution[i])
      BY <1>1
    <3>3. \A i \in 1..Len(Append(solution, item)) : ~IsEmpty(Append(solution, item)[i])
      BY <2>2, <3>1, <3>2 DEF item
    <3> QED
      BY <2>1, <3>3 DEF Solid, item
  <2>4. SolidTasks(stack')
    BY <1>2, <1>3, <1>4, <2>1
  <2> QED
    BY <2>3, <2>4 DEF SearchSolid, Solid, SolidTasks
<1>7. CASE StartSearch
  <2>1. stack # <<>> /\ stack' = Tail(stack) /\ solution' = solution
    BY <1>7 DEF StartSearch, Top
  <2>2. SolidTasks(stack')
    BY <1>2, <1>3, <1>4, <2>1
  <2> QED
    BY <2>1, <2>2 DEF SearchSolid, Solid, SolidTasks
<1>8. CASE Forward \/ Backward
  <2>1. solution' = solution
    BY <1>8 DEF Forward, Backward
  <2>2. stack' = stack \/ \E x, y : SplitAt(x, y)
    BY <1>8 DEF Forward, Backward, NextBackward
  <2>3. ASSUME NEW x, NEW y, SplitAt(x, y) PROVE SolidTasks(stack')
    <3> DEFINE one == ConquerTask(SliceTo(box.old, x), SliceTo(box.new, y))
               two == ConquerTask(SliceFrom(box.old, x), SliceFrom(box.new, y))
               S == T \cup {one, two}
    <3>1. stack' = <<one, two>> \o stack
      BY <2>3 DEF SplitAt
    <3>2. Emits(one) /\ Emits(two)
      BY DEF Emits, ConquerTask
    <3> HIDE DEF one, two
    <3>3. T \subseteq S /\ (\A t \in S : Emits(t)) /\ one \in S /\ two \in S
      BY <1>2, <3>2
    <3> HIDE DEF S
    <3>4. stack \in Seq(S) /\ <<one, two>> \in Seq(S)
      BY <1>2, <3>3, SeqWiden
    <3>5. <<one, two>> \o stack \in Seq(S)
      BY <3>4
    <3> QED
      BY <1>4, <3>1, <3>3, <3>5
  <2>4. CASE stack' = stack
    BY <2>1, <2>4 DEF SearchSolid, Solid, SolidTasks
  <2> QED
    BY <2>1, <2>2, <2>3, <2>4 DEF SearchSolid, Solid, SolidTasks
<1>9. CASE Return \/ UNCHANGED vars
  <2>1. stack' = stack /\ solution' = solution
    BY <1>9 DEF Return, vars
  <2> QED
    BY <2>1 DEF SearchSolid, Solid, SolidTasks
<1> QED
  BY <1>5, <1>6, <1>7, <1>8, <1>9 DEF Next

(* There is nothing in the beginning but the box of the two texts. *)
LEMMA InitSolid == Init => SearchSolid
<1> SUFFICES ASSUME Init PROVE SearchSolid
  OBVIOUS
<1> DEFINE task == ConquerTask(MkRange(0, Len(old)), MkRange(0, Len(new)))
<1>1. solution = <<>> /\ stack = <<task>>
  BY DEF Init
<1>2. Emits(task)
  BY DEF Emits, ConquerTask
<1> HIDE DEF task
<1> QED
  BY <1>1, <1>2 DEF SearchSolid, Solid, SolidTasks

-----------------------------------------------------------------------------
(* A shortest script *)

(* The whole texts are as far apart as the least cost says. *)
LEMMA TextsDistance ==
  ASSUME Inv
  PROVE  Least(old, new, 0, 0, Len(old), Len(new), EditDistance(old, new))
<1>1. Len(old) \in Nat /\ Len(new) \in Nat
  BY DEF Inv, TypeOK
<1> QED
  BY <1>1, EditDistanceLeast

(***************************************************************************)
(* What has been emitted is the beginning of a shortest script when what   *)
(* it cost and what the rest can be had for are together no more than the  *)
(* distance: the rest of the texts is then that far apart.                 *)
(***************************************************************************)
LEMMA CheapIsShortest ==
  ASSUME Inv, NEW s \in Seq(DiffRange), s \in Seq(Matching(old, new)), NEW rest \in Seq(DiffRange),
         NEW x \in Nat, NEW y \in Nat, Path(s, 0, 0, x, y), Path(rest, x, y, Len(old), Len(new)),
         Cost(s) + DueOf(rest) <= EditDistance(old, new)
  PROVE  /\ Cost(s) + EditDistance(SubSeq(old, x + 1, Len(old)), SubSeq(new, y + 1, Len(new)))
              = EditDistance(old, new)
         /\ rest = <<>> => Cost(s) = EditDistance(old, new)
         /\ x <= Len(old) /\ y <= Len(new)
<1> DEFINE u == Len(old)
           v == Len(new)
           c == EditDistance(old, new)
           f == Cost(s)
           g == DueOf(rest)
           e == EditDistance(SubSeq(old, x + 1, u), SubSeq(new, y + 1, v))
<1>1. u \in Nat /\ v \in Nat /\ u <= u /\ v <= v /\ old \in Seq(Symbol) /\ new \in Seq(Symbol)
  BY DEF Inv, TypeOK
<1>2. Least(old, new, 0, 0, u, v, c)
  BY TextsDistance
<1>3. DueOf(s) = f
  BY DuesMatching
<1>4. Path(rest, x, y, u, v) /\ f + g <= c
  OBVIOUS
<1> HIDE DEF u, v, c, f, g
<1>5. Within(old, new, x, y, u, v, g) /\ g \in Nat /\ x <= u /\ y <= v
  <2>1. u <= Len(old) /\ v <= Len(new)
    BY <1>1 DEF u, v
  <2> QED
    BY <1>4, <2>1, PathWithin DEF g
<1>6. Within(old, new, 0, 0, x, y, f) /\ f \in Nat
  <2>1. x <= Len(old) /\ y <= Len(new) /\ 0 \in Nat
    BY <1>5 DEF u, v
  <2>2. Within(old, new, 0, 0, x, y, DueOf(s)) /\ DueOf(s) \in Nat
    BY <2>1, PathWithin
  <2> QED
    BY <1>3, <2>2
<1>7. Least(old, new, x, y, u, v, e)
  <2>1. u \in 0..Len(old) /\ v \in 0..Len(new)
    BY <1>1 DEF u, v
  <2> HIDE DEF e
  <2>2. Least(old, new, x, y, u, v, EditDistance(SubSeq(old, x + 1, u), SubSeq(new, y + 1, v)))
    BY <1>1, <1>5, <2>1, SliceDistance
  <2> QED
    BY <2>2 DEF e
<1> HIDE DEF e
<1>8. e \in Nat /\ e <= g /\ Within(old, new, x, y, u, v, e)
  BY <1>5, <1>7 DEF Least
<1>9. Within(old, new, 0, 0, u, v, f + e)
  <2>1. 0 \in Nat /\ 0 <= x /\ 0 <= y /\ f \in Int /\ e \in Int
    BY <1>6, <1>8
  <2> QED
    BY <1>1, <1>5, <1>6, <1>8, <2>1, WithinConcat
<1>10. c \in Nat /\ c <= f + e
  <2>1. f + e \in Int
    BY <1>6, <1>8
  <2> QED
    BY <1>2, <1>9, <2>1 DEF Least
<1>11. f + e = c /\ (g = 0 => f = c)
  BY <1>4, <1>5, <1>6, <1>8, <1>10
<1>12. rest = <<>> => g = 0
  <2>1. DueOf(<<>>) = 0
    <3>1. Equal(EmptyRange, EmptyRange) \in DiffRange
      BY DEF Equal, EmptyRange, MkRange, DiffRange, Ranges
    <3> QED
      BY <3>1, DuesSingle
  <2> QED
    BY <2>1 DEF g
<1> QED
  BY <1>5, <1>11, <1>12 DEF u, v, c, f, e

(* At the end all of a shortest script has been emitted. *)
LEMMA DoneIsShortest ==
  ASSUME Inv, Tiled, Frugal, phase = "done"
  PROVE  Cost(solution) = EditDistance(old, new)
<1>1. solution \in Seq(DiffRange) /\ solution \in Seq(Matching(old, new)) /\ Outstanding \in Seq(DiffRange)
  BY OutstandingType DEF Inv, TypeOK, Tiled
<1>2. PICK x \in Nat, y \in Nat : /\ Path(solution, 0, 0, x, y)
                                  /\ Path(Outstanding, x, y, Len(old), Len(new))
  BY DEF Tiled
<1>3. Outstanding = <<>>
  BY OutstandingType DEF Tiled, Items
<1> QED
  BY <1>1, <1>2, <1>3, CheapIsShortest DEF Frugal

(***************************************************************************)
(* ShortestEditScript measures scripts as MyersDiff does.  (Its operators  *)
(* are those of Alignments under other names.)                             *)
(***************************************************************************)
LEMMA ScriptMeasures ==
  ASSUME NEW s, NEW a, NEW b
  PROVE  /\ Script!OldPos(s) = OldUpTo(s, Len(s))
         /\ Script!NewPos(s) = NewUpTo(s, Len(s))
         /\ Script!Cost(s) = Cost(s)
         /\ Script!EditDistance(a, b) = EditDistance(a, b)
         /\ Script!EquatesEqual(s, a, b) <=> EquatesEqual(s, a, b)
<1>1. Script!OldPos(s) = OldUpTo(s, Len(s))
  BY DEF Script!OldPos, Script!OldUpTo, Script!OldLens, Script!OldLen, Script!SumUpTo, Script!InOld,
         OldUpTo, OldLens, OldLen, SumUpTo, InOld
<1>2. Script!NewPos(s) = NewUpTo(s, Len(s))
  BY DEF Script!NewPos, Script!NewUpTo, Script!NewLens, Script!NewLen, Script!SumUpTo, Script!InNew,
         NewUpTo, NewLens, NewLen, SumUpTo, InNew
<1>3. Script!Cost(s) = Cost(s)
  BY DEF Script!Cost, Script!EditLens, Script!EditLen, Script!SumUpTo, Script!IsEdit, Script!LenOf,
         Script!Inner, Script!InOld, Cost, EditLens, EditLen, SumUpTo, IsEdit, LenOf, Inner, InOld
<1>4. Script!EditDistance(a, b) = EditDistance(a, b)
  BY DEF Script!EditDistance, EditDistance, Script!Min2, Min2
<1>5. Script!EquatesEqual(s, a, b) <=> EquatesEqual(s, a, b)
  BY DEF Script!EquatesEqual, EquatesEqual, Script!IsEdit, IsEdit, Script!AsSlice, AsSlice, Script!RangeEnd, RangeEnd
<1> QED
  BY <1>1, <1>2, <1>3, <1>4, <1>5

(* And makes its items as MyersDiff does. *)
LEMMA ScriptItems ==
  ASSUME NEW x, NEW y, NEW l, Script!OldPos(solution) = x, Script!NewPos(solution) = y
  PROVE  /\ l \in 1..(Len(old) - x) => Delete(MkRange(x, l)) \in Script!Items
         /\ l \in 1..(Len(new) - y) => Insert(MkRange(y, l)) \in Script!Items
         /\ l \in 1..(Len(old) - x) /\ l \in 1..(Len(new) - y)
              => Equal(MkRange(x, l), MkRange(y, l)) \in Script!Items
BY DEF Script!Items, Script!MkRange, Script!Delete, Script!Insert, Script!Equal, Script!EmptyRange,
       MkRange, Delete, Insert, Equal, EmptyRange

(* An item that is as diff() emits them, where a script has got to. *)
LEMMA ProperItems ==
  ASSUME NEW item \in DiffRange, item \in Matching(old, new), Proper(item), NEW x \in Nat, NEW y \in Nat,
         Script!OldPos(solution) = x, Script!NewPos(solution) = y, Begins(item, x, y),
         Len(old) \in Nat, Len(new) \in Nat, x + OldLen(item) <= Len(old), y + NewLen(item) <= Len(new)
  PROVE  item \in Script!Items
<1> DEFINE l == LenOf(item)
<1>1. item = [kind |-> item.kind, old |-> item.old, new |-> item.new] /\ item.kind \in {"Equal", "Delete", "Insert"}
  BY DEF DiffRange
<1>2. /\ item.old = [offset |-> item.old.offset, len |-> item.old.len]
      /\ item.new = [offset |-> item.new.offset, len |-> item.new.len]
  BY DEF DiffRange, Ranges
<1>3. l \in Nat /\ l # 0
  BY ItemLens DEF Proper, IsEmpty, LenOf, Inner
<1>4. CASE item.kind = "Delete"
  <2>1. item.old.offset = x /\ item.old.len = l /\ OldLen(item) = l /\ item.new = EmptyRange
    BY <1>4, ItemLens DEF Begins, Proper
  <2> HIDE DEF l
  <2>2. l \in 1..(Len(old) - x)
    BY <1>3, <2>1
  <2>3. item = Delete(MkRange(x, l))
    BY <1>1, <1>2, <1>4, <2>1 DEF Delete, MkRange
  <2> QED
    BY <2>2, <2>3, ScriptItems
<1>5. CASE item.kind = "Insert"
  <2>1. item.new.offset = y /\ item.new.len = l /\ NewLen(item) = l /\ item.old = EmptyRange
    BY <1>5, ItemLens DEF Begins, Proper
  <2> HIDE DEF l
  <2>2. l \in 1..(Len(new) - y)
    BY <1>3, <2>1
  <2>3. item = Insert(MkRange(y, l))
    BY <1>1, <1>2, <1>5, <2>1 DEF Insert, MkRange
  <2> QED
    BY <2>2, <2>3, ScriptItems
<1>6. CASE item.kind = "Equal"
  <2>1. /\ item.old.offset = x /\ item.old.len = l /\ OldLen(item) = l
        /\ item.new.offset = y /\ item.new.len = l /\ NewLen(item) = l
    BY <1>6, ItemLens DEF Begins, Matching
  <2> HIDE DEF l
  <2>2. l \in 1..(Len(old) - x) /\ l \in 1..(Len(new) - y)
    BY <1>3, <2>1
  <2>3. item = Equal(MkRange(x, l), MkRange(y, l))
    BY <1>1, <1>2, <1>6, <2>1 DEF Equal, MkRange
  <2> QED
    BY <2>2, <2>3, ScriptItems
<1> QED
  BY <1>1, <1>4, <1>5, <1>6

(* So every push emits one more item of a shortest script. *)
LEMMA PushEmits ==
  ASSUME Inv, Tiled, SearchSolid, Frugal', Push
  PROVE  Script!Emit
<1> DEFINE item == Head(stack).item
           rest == Outstanding'
           s1 == solution'
           u == Len(old)
           v == Len(new)
<1>1. /\ item \in DiffRange /\ item \in Matching(old, new) /\ rest \in Seq(DiffRange)
      /\ Outstanding = <<item>> \o rest /\ solution \in Seq(DiffRange) /\ s1 = solution \o <<item>>
  BY PushOutstanding
<1>2. Proper(item)
  <2>1. stack # <<>> /\ Head(stack).op = "push" /\ stack \in Seq(Task)
    BY DEF Push, Top, Inv, TypeOK
  <2>2. 1 \in 1..Len(stack) /\ Head(stack) = stack[1]
    BY <2>1
  <2> QED
    BY <2>1, <2>2 DEF SearchSolid, SolidTasks, Emits
<1>3. s1 = Append(solution, item) /\ UNCHANGED texts
  BY DEF Push
<1>4. Cost(s1) + DueOf(rest) <= EditDistance(old, new)
  BY <1>3, FixedDues DEF Frugal
<1>5. solution \in Seq(Matching(old, new))
  BY DEF Tiled
<1>6. PICK x \in Nat, y \in Nat : Path(solution, 0, 0, x, y) /\ Path(Outstanding, x, y, u, v)
  BY DEF Tiled
<1>7. u \in Nat /\ v \in Nat
  BY DEF Inv, TypeOK
<1> HIDE DEF item, rest, s1
<1> DEFINE x1 == x + OldLen(item)
           y1 == y + NewLen(item)
<1>8. s1 \in Seq(DiffRange) /\ s1 \in Seq(Matching(old, new)) /\ <<item>> \in Seq(DiffRange)
  <2>1. <<item>> \in Seq(DiffRange) /\ <<item>> \in Seq(Matching(old, new))
    BY <1>1
  <2> QED
    BY <1>1, <1>5, <2>1
<1>9. Begins(item, x, y) /\ x1 \in Nat /\ y1 \in Nat /\ Path(rest, x1, y1, u, v)
  <2> HIDE DEF u, v
  <2> QED
    BY <1>1, <1>6, PathCons
<1>10. Path(s1, 0, 0, x1, y1)
  <2>1. Path(<<item>>, x, y, x1, y1)
    BY <1>1, <1>9, PathSingle DEF Begins
  <2> HIDE DEF x1, y1
  <2>2. 0 \in Nat
    OBVIOUS
  <2> QED
    BY <1>1, <1>6, <1>8, <2>1, <2>2, PathConcat
<1> HIDE DEF x1, y1
<1>11. /\ Cost(s1) + EditDistance(SubSeq(old, x1 + 1, Len(old)), SubSeq(new, y1 + 1, Len(new)))
            = EditDistance(old, new)
       /\ x1 <= Len(old) /\ y1 <= Len(new)
  <2>1. /\ s1 \in Seq(DiffRange) /\ s1 \in Seq(Matching(old, new)) /\ rest \in Seq(DiffRange)
        /\ x1 \in Nat /\ y1 \in Nat /\ Path(s1, 0, 0, x1, y1) /\ Path(rest, x1, y1, Len(old), Len(new))
        /\ Cost(s1) + DueOf(rest) <= EditDistance(old, new)
    BY <1>1, <1>4, <1>8, <1>9, <1>10 DEF u, v
  <2>2. Cost(s1) + EditDistance(SubSeq(old, x1 + 1, Len(old)), SubSeq(new, y1 + 1, Len(new)))
          = EditDistance(old, new)
    BY <2>1, CheapIsShortest
  <2>3. x1 <= Len(old) /\ y1 <= Len(new)
    BY <2>1, CheapIsShortest
  <2> QED
    BY <2>2, <2>3
<1>12. item \in Script!Items
  <2>1. Script!OldPos(solution) = x /\ Script!NewPos(solution) = y
    <3>1. x = 0 + OldUpTo(solution, Len(solution)) /\ y = 0 + NewUpTo(solution, Len(solution))
      BY <1>6 DEF Path
    <3>2. OldUpTo(solution, Len(solution)) \in Nat /\ NewUpTo(solution, Len(solution)) \in Nat
      <4>1. Len(solution) \in 0..Len(solution)
        BY <1>1
      <4> QED
        BY <1>1, <4>1, UpToType
    <3> QED
      BY <3>1, <3>2, ScriptMeasures
  <2> QED
    BY <1>1, <1>2, <1>7, <1>9, <1>11, <2>1, ProperItems DEF x1, y1, u, v
<1>13. Script!OnShortestPath(s1)
  <2>1. Script!OldPos(s1) = x1 /\ Script!NewPos(s1) = y1
    <3>1. x1 = 0 + OldUpTo(s1, Len(s1)) /\ y1 = 0 + NewUpTo(s1, Len(s1))
      BY <1>10 DEF Path
    <3>2. OldUpTo(s1, Len(s1)) \in Nat /\ NewUpTo(s1, Len(s1)) \in Nat
      <4>1. Len(s1) \in 0..Len(s1)
        BY <1>8
      <4> QED
        BY <1>8, <4>1, UpToType
    <3> QED
      BY <3>1, <3>2, ScriptMeasures
  <2> QED
    BY <1>11, <2>1, ScriptMeasures DEF Script!OnShortestPath
<1>14. Script!EquatesEqual(<<item>>, old, new)
  <2>1. <<item>> \in Seq(Matching(old, new))
    BY <1>1
  <2> QED
    BY <2>1, MatchingEquates, ScriptMeasures
<1>15. solution' = Append(solution, item) /\ Script!OnShortestPath(Append(solution, item))
  BY <1>3, <1>13 DEF s1
<1> QED
  BY <1>3, <1>12, <1>14, <1>15 DEF Script!Emit, texts

-----------------------------------------------------------------------------
(* What the search needs to be right *)

(***************************************************************************)
(* No search runs out of edits, and where its two paths meet is a point of *)
(* its box.  Anything else would be a panic: the unreachable!() after the  *)
(* loop over d, or split_at() with a point outside.                        *)
(***************************************************************************)
SearchMeets ==
  /\ Running => d < MaxD(OldBox, NewBox)
  /\ phase = "forward" =>
       LET x == XStart(vf)
       IN  ForwardMeets(x + ForwardSnake(x, x - k)) => InBox(x, x - k)
  /\ phase = "backward" =>
       LET x0 == XStart(vb)
           x == x0 + BackwardSnake(x0, x0 - k)
       IN  BackwardMeets(x) => InBox(OldBox - x, NewBox - (x - k))

(* All that is invariant of the search. *)
SearchInv == Inv /\ Tiled /\ SearchSound /\ Frugal /\ SearchSolid

(* It holds in the beginning. *)
LEMMA InitSearchInv == Init => SearchInv
BY InitInv, InitTiled, InitSound, InitFrugal, InitSolid DEF SearchInv

(* Every step keeps it. *)
LEMMA NextSearchInv == SearchInv /\ [Next]_vars => SearchInv'
<1> SUFFICES ASSUME Inv, Tiled, SearchSound, Frugal, SearchSolid, [Next]_vars PROVE SearchInv'
  BY DEF SearchInv
<1>1. Inv' /\ Tiled'
  BY NextInv, NextTiled
<1>2. SearchSound'
  BY NextSound
<1>3. Frugal'
  BY NextFrugal
<1>4. SearchSolid'
  BY SearchStaysSolid
<1> QED
  BY <1>1, <1>2, <1>3, <1>4 DEF SearchInv

(* So it always holds. *)
LEMMA SearchInvHolds == Spec => []SearchInv
BY InitSearchInv, NextSearchInv, PTL DEF Spec

(* The search meets, because what it has tried is less than its box needs. *)
LEMMA SoundMeets == Inv /\ Tiled /\ SearchSound => SearchMeets
<1> SUFFICES ASSUME Inv, Tiled, SearchSound PROVE SearchMeets
  OBVIOUS
<1>1. Running => d < MaxD(OldBox, NewBox)
  BY SearchInTime
<1>2. ASSUME phase = "forward", NEW x, x = XStart(vf), NEW s, s = ForwardSnake(x, x - k), ForwardMeets(x + s)
      PROVE  InBox(x, x - k)
  BY <1>2, ForwardMeetsRight DEF Splits, InBox
<1>3. ASSUME phase = "backward", NEW z, z = XStart(vb) + BackwardSnake(XStart(vb), XStart(vb) - k), BackwardMeets(z)
      PROVE  InBox(OldBox - z, NewBox - (z - k))
  BY <1>3, BackwardMeetsRight DEF Splits, InBox
<1> QED
  BY <1>1, <1>2, <1>3 DEF SearchMeets

(* Only a push changes the script, and it emits an item. *)
LEMMA NextEmits ==
  ASSUME SearchInv, SearchInv', [Next]_vars
  PROVE  [Script!Emit]_(Script!svars)
<1>1. CASE Push
  BY <1>1, PushEmits DEF SearchInv
<1>2. CASE ConquerBox \/ StartSearch \/ Forward \/ Backward \/ Return \/ UNCHANGED vars
  BY <1>2 DEF ConquerBox, StartSearch, Forward, Backward, Return, vars, texts, Script!svars
<1> QED
  BY <1>1, <1>2 DEF Next

(* The script is empty in the beginning. *)
LEMMA InitEmits == Init => Script!Init
<1> SUFFICES ASSUME Init PROVE Script!Init
  OBVIOUS
<1>1. PICK pair \in Inputs : old = pair[1] /\ new = pair[2]
  BY DEF Init
<1>2. pair = <<pair[1], pair[2]>>
  BY <1>1, InputsAssumption
<1>3. <<old, new>> \in Inputs
  BY <1>1, <1>2
<1> QED
  BY <1>3 DEF Init, Script!Init

-----------------------------------------------------------------------------
(* Theorems *)

(***************************************************************************)
(* Whatever texts are diffed, the state of the search stays well-typed: no *)
(* range or furthest point ever becomes negative (they are usize in the    *)
(* code, where a subtraction below zero panics or wraps around).           *)
(***************************************************************************)
THEOREM TypeCorrect == Spec => []TypeOK
<1>1. Inv => TypeOK
  BY DEF Inv
<1> QED
  BY <1>1, InitInv, NextInv, PTL DEF Spec

(***************************************************************************)
(* Whatever texts are diffed, no step of any search reads or writes a V    *)
(* array outside the cells it was given for the whole texts.               *)
(***************************************************************************)
THEOREM VNeverOutOfBounds == Spec => []VIndexInBounds
BY InvInBounds, InitInv, NextInv, PTL DEF Spec

(***************************************************************************)
(* Whatever texts are diffed, at every step of the recursion what has been *)
(* emitted and what is still to be done make up both texts: no prefix,     *)
(* suffix or box is lost, doubled or put in the wrong order, wherever      *)
(* find_middle_snake() splits.                                             *)
(***************************************************************************)
THEOREM RecursionCovers == Spec => []Partition
<1>1. Spec => [](Inv /\ Tiled)
  BY InitInv, InitTiled, NextInv, NextTiled, PTL DEF Spec
<1> QED
  BY <1>1, TiledPartition, PTL

(***************************************************************************)
(* Whatever texts are diffed, the ranges that diff() returns describe how  *)
(* the one becomes the other: they cover both without gap or overlap, and  *)
(* what they call equal is equal.                                          *)
(***************************************************************************)
THEOREM DiffAligns == Spec => [](phase = "done" => Aligns(solution, old, new))
<1>1. Spec => [](Inv /\ Tiled)
  BY InitInv, InitTiled, NextInv, NextTiled, PTL DEF Spec
<1>2. Inv /\ Tiled => (phase = "done" => Aligns(solution, old, new))
  BY TiledAligns
<1> QED
  BY <1>1, <1>2, PTL

(***************************************************************************)
(* Whatever texts are diffed and whatever earlier searches have left in    *)
(* the arrays: each cell that a search has written holds, as the comment   *)
(* on V says, the furthest point of its diagonal within that many edits.   *)
(***************************************************************************)
THEOREM CellsHoldFurthest == Spec => []FurthestReaching
<1>1. SearchInv => FurthestReaching
  BY SoundIsFurthest DEF SearchInv
<1> QED
  BY <1>1, SearchInvHolds, PTL

(***************************************************************************)
(* Whatever texts are diffed, each search finds a point of its box to      *)
(* split it at before it runs out of edits: the unreachable!() is never    *)
(* reached and split_at() never panics.                                    *)
(***************************************************************************)
THEOREM SearchNeverPanics == Spec => []SearchMeets
<1>1. SearchInv => SearchMeets
  BY SoundMeets DEF SearchInv
<1> QED
  BY <1>1, SearchInvHolds, PTL

(***************************************************************************)
(* MyersDiff implements the safety of ShortestEditScript: whatever texts   *)
(* are diffed, each range that diff() emits is the next item of an edit    *)
(* script, and what has been emitted can be completed to a shortest one.   *)
(***************************************************************************)
THEOREM ImplementsShortestEditScript == Spec => EmitsShortestScript
<1>1. SearchInv /\ SearchInv' /\ [Next]_vars => [Script!Emit]_(Script!svars)
  BY NextEmits
<1> QED
  BY <1>1, InitEmits, SearchInvHolds, PTL DEF Spec, EmitsShortestScript, Script!Safety

(***************************************************************************)
(* Whatever texts are diffed, diff() returns a shortest edit script: as    *)
(* many elements are deleted and inserted as the edit distance says.       *)
(***************************************************************************)
THEOREM DiffIsMinimal ==
  Spec => [](phase = "done" => Aligns(solution, old, new) /\ Cost(solution) = EditDistance(old, new))
<1>1. SearchInv => (phase = "done" => Aligns(solution, old, new) /\ Cost(solution) = EditDistance(old, new))
  BY TiledAligns, DoneIsShortest DEF SearchInv
<1> QED
  BY <1>1, SearchInvHolds, PTL

=============================================================================
