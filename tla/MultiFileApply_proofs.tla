------------------------ MODULE MultiFileApply_proofs ------------------------
(***************************************************************************)
(* What a run of apply_patch_file() keeps wherever it stops, for any       *)
(* directory, any patch set and any call that fails.                       *)
(***************************************************************************)
EXTENDS MultiFileApply, SequenceTheorems, TLAPS

(***************************************************************************)
(* The inductive invariant.  It adds what a stage knows from the ones      *)
(* before: the item it is at work on, where the directories of its target  *)
(* have been made, what it is about to write, and, before the source goes, *)
(* that the target has all of it.                                          *)
(***************************************************************************)
Given == start \in Trees /\ items \in ItemLists

AtWork == stage \in {"mkdir", "write", "fill", "remove"}

InHand ==
  /\ stage # "done" => result = "none"
  /\ patched \in Contents \cup {Other}
  /\ AtWork => idx <= Len(items) /\ Item.op \in {"create", "modify", "rename", "copy"}
  /\ stage \in {"write", "fill"} => Parents(Target) \subseteq dirs
  /\ stage = "fill" => Target \in DOMAIN tree /\ Item.op # "rename"
  /\ stage = "remove" => /\ Item.op = "modify" /\ Source # Target
                         /\ Target \in DOMAIN tree /\ tree[Target] = patched

TornHere ==
  \A p \in DOMAIN tree :
    tree[p] = Torn => /\ \/ stage = "fill"
                         \/ stage = "done" /\ result = "error"
                      /\ idx <= Len(items) /\ p = Target /\ Item.op # "error"

Untouched ==
  \A p \in DOMAIN start \cup DOMAIN tree :
    (\A i \in 1..Min({idx, Len(items)}) : ~Reaches(items[i], p)) =>
      p \in DOMAIN start /\ p \in DOMAIN tree /\ tree[p] = start[p]

MFInv == TypeOK /\ Given /\ InHand /\ TornHere /\ Untouched

(* Where a moved directory's files are found again, paths are rows of      *)
(* names and nothing else that has the same elements.                      *)
PathsOK == DOMAIN tree \cup dirs \subseteq Seq(Name)

TreeInv == MFInv /\ PathsOK

-----------------------------------------------------------------------------
(* Paths and items *)

(* The smaller of two numbers. *)
LEMMA MinOfTwo ==
  ASSUME NEW a \in Int, NEW b \in Int
  PROVE  Min({a, b}) = IF a <= b THEN a ELSE b
<1> DEFINE m == IF a <= b THEN a ELSE b
<1>1. m \in {a, b} /\ \A y \in {a, b} : m <= y
  OBVIOUS
<1>2. Min({a, b}) \in {a, b} /\ \A y \in {a, b} : Min({a, b}) <= y
  BY <1>1 DEF Min
<1> HIDE DEF m
<1>3. m <= Min({a, b}) /\ Min({a, b}) <= m /\ m \in Int /\ Min({a, b}) \in Int
  BY <1>1, <1>2
<1>4. m = Min({a, b})
  BY <1>3
<1> QED
  BY <1>4 DEF m

(* The directories above a directory above a file are above the file. *)
LEMMA ParentsOfParents ==
  ASSUME NEW path \in Seq(Name), NEW q \in Parents(path)
  PROVE  Parents(q) \subseteq Parents(path)
<1>1. PICK n \in 1..Len(path) - 1 : q = SubSeq(path, 1, n)
  BY DEF Parents
<1>2. Len(q) = n
  BY <1>1
<1>3. ASSUME NEW m \in 1..Len(q) - 1 PROVE SubSeq(q, 1, m) = SubSeq(path, 1, m) /\ m \in 1..Len(path) - 1
  BY <1>1, <1>2, <1>3
<1> QED
  BY <1>3 DEF Parents

(* A row from its first or from its second item on. *)
LEMMA FromSecond ==
  ASSUME NEW T, NEW s \in Seq(T), Len(s) >= 2
  PROVE  SubSeq(s, 2, Len(s)) = Tail(s)
<1>1. Len(SubSeq(s, 2, Len(s))) = Len(s) - 1 /\ Len(Tail(s)) = Len(s) - 1
  OBVIOUS
<1>2. \A i \in 1..Len(s) - 1 : SubSeq(s, 2, Len(s))[i] = s[i + 1] /\ Tail(s)[i] = s[i + 1]
  OBVIOUS
<1>3. SubSeq(s, 2, Len(s)) \in Seq(T) /\ Tail(s) \in Seq(T)
  OBVIOUS
<1> QED
  BY <1>1, <1>2, <1>3

(* All of a sequence. *)
LEMMA FromFirst ==
  ASSUME NEW T, NEW s \in Seq(T)
  PROVE  SubSeq(s, 1, Len(s)) = s
OBVIOUS

(* strip_prefix() leads to the file that the item is about. *)
LEMMA StripLeadsToFile ==
  ASSUME NEW item \in FilePatch, NEW path \in Seq(Name) \ {<<>>}
  PROVE  /\ StripPrefix(path, Strip(item)) = FileOf(item, path)
         /\ FileOf(item, path) \in Seq(Name)
<1>1. path \in Seq(Name) /\ Len(path) \in Nat /\ Len(path) >= 1
  OBVIOUS
<1>2. CASE item.op \in {"rename", "copy"}
  <2>1. Min({0 + 1, Len(path)}) = 1
    BY <1>1, MinOfTwo
  <2>2. StripPrefix(path, 0) = path
    BY <1>1, <2>1, FromFirst DEF StripPrefix
  <2> QED
    BY <1>1, <1>2, <2>2 DEF Strip, FileOf
<1>3. CASE item.op \notin {"rename", "copy"} /\ Len(path) = 1
  <2>1. Min({1 + 1, Len(path)}) = 1
    BY <1>1, <1>3, MinOfTwo
  <2>2. StripPrefix(path, 1) = path
    BY <1>1, <1>3, <2>1, FromFirst DEF StripPrefix
  <2> QED
    BY <1>1, <1>3, <2>2 DEF Strip, FileOf
<1>4. CASE item.op \notin {"rename", "copy"} /\ Len(path) # 1
  <2> DEFINE n == Len(path)
  <2>0. n \in Nat /\ n >= 1 /\ n # 1
    BY <1>1, <1>4
  <2> HIDE DEF n
  <2>1. 1 + 1 = 2 /\ 2 <= n
    BY <2>0
  <2> USE DEF n
  <2>2. Min({1 + 1, Len(path)}) = 2
    BY <1>1, <2>1, MinOfTwo
  <2>3. SubSeq(path, 2, Len(path)) = Tail(path)
    BY <1>1, <2>1, FromSecond
  <2>4. Tail(path) \in Seq(Name)
    BY <1>1, <2>1
  <2> QED
    BY <1>1, <1>4, <2>2, <2>3, <2>4 DEF Strip, FileOf, StripPrefix
<1> QED
  BY <1>2, <1>3, <1>4

(* The item at hand and the files it is about. *)
LEMMA ItemAtHand ==
  ASSUME Given, idx \in 1..Len(items) + 1, idx <= Len(items)
  PROVE  /\ Item \in FilePatch
         /\ Item.op # "error" =>
              /\ Source = SourceOf(Item) /\ Target = TargetOf(Item)
              /\ Source \in Seq(Name) /\ Target \in Seq(Name)
              /\ Source \in Touched(Item) /\ Target \in Touched(Item)
<1>1. items \in Seq(FilePatch)
  BY MultiFileAssumption DEF Given
<1>2. Item \in FilePatch
  BY <1>1 DEF Item
<1>3. ASSUME Item.op # "error"
      PROVE  Item.from \in Seq(Name) \ {<<>>} /\ Item.to \in Seq(Name) \ {<<>>}
  BY <1>2, <1>3 DEF FilePatch
<1> QED
  BY <1>2, <1>3, StripLeadsToFile DEF Source, Target, SourceOf, TargetOf, Touched

(* The item at hand is the same as long as neither it nor the items change. *)
LEMMA SameItem ==
  ASSUME UNCHANGED <<fixed, idx>>
  PROVE  Item' = Item /\ Source' = Source /\ Target' = Target /\ (Given <=> Given')
BY DEF Item, Source, Target, fixed, Given

-----------------------------------------------------------------------------
(* What steps have in common *)

(* Only the files of the item at hand change, or only what it reaches. *)
ElsewhereSame ==
  \A p : p # Source /\ p # Target =>
    (p \in DOMAIN tree' <=> p \in DOMAIN tree) /\ (p \in DOMAIN tree => tree'[p] = tree[p])
UnreachedSame ==
  \A p : ~Reaches(Item, p) =>
    (p \in DOMAIN tree' <=> p \in DOMAIN tree) /\ (p \in DOMAIN tree => tree'[p] = tree[p])

(* A step that changes only files of the item at hand leaves those that
   only later items name as they were. *)
LEMMA UntouchedStep ==
  ASSUME MFInv, UNCHANGED fixed, idx' = idx \/ idx' = idx + 1,
         tree' = tree \/ (idx <= Len(items) /\ Item.op # "error" /\ (ElsewhereSame \/ UnreachedSame))
  PROVE  Untouched'
<1>1. Given /\ Untouched /\ idx \in 1..Len(items) + 1 /\ start' = start /\ items' = items
  BY DEF MFInv, TypeOK, fixed
<1>2. items \in Seq(FilePatch) /\ Len(items) \in Nat
  BY <1>1, MultiFileAssumption DEF Given
<1> DEFINE seen == 1..Min({idx, Len(items)})
           then == 1..Min({idx', Len(items)})
<1>3. seen \subseteq then
  BY <1>1, <1>2, MinOfTwo
<1>4. idx <= Len(items) => idx \in seen
  BY <1>1, <1>2, MinOfTwo
<1> HIDE DEF seen, then
<1>5. ASSUME NEW p \in DOMAIN start \cup DOMAIN tree', \A i \in then : ~Reaches(items[i], p)
      PROVE  p \in DOMAIN start /\ p \in DOMAIN tree' /\ tree'[p] = start[p]
  <2>1. \A i \in seen : ~Reaches(items[i], p)
    BY <1>3, <1>5
  <2>2. (p \in DOMAIN tree' <=> p \in DOMAIN tree) /\ (p \in DOMAIN tree => tree'[p] = tree[p])
    <3>1. CASE tree' = tree
      BY <3>1
    <3>2. CASE idx <= Len(items) /\ Item.op # "error" /\ (ElsewhereSame \/ UnreachedSame)
      <4>1. ~Reaches(Item, p)
        BY <1>4, <2>1, <3>2 DEF Item
      <4>2. p # Source /\ p # Target
        BY <1>1, <3>2, <4>1, ItemAtHand DEF Reaches
      <4> QED
        BY <3>2, <4>1, <4>2 DEF ElsewhereSame, UnreachedSame
    <3> QED
      BY <3>1, <3>2
  <2> QED
    BY <1>1, <1>5, <2>1, <2>2 DEF Untouched, seen
<1> QED
  BY <1>1, <1>5 DEF Untouched, then

(* Nothing is torn but while a file is filled, or after an error. *)
LEMMA NothingTorn ==
  ASSUME MFInv, stage \notin {"fill", "done"}
  PROVE  \A p \in DOMAIN tree : tree[p] # Torn
BY DEF MFInv, TornHere

(* A step that leaves the files alone. *)
LEMMA FilesAlone ==
  ASSUME MFInv, UNCHANGED <<fixed, tree, dirs>>, stage \notin {"fill", "done"},
         idx' = idx \/ (idx <= Len(items) /\ idx' = idx + 1),
         stage' \in {"next", "mkdir", "write", "fill", "remove", "done"},
         result' \in {"none", "ok", "error"}
  PROVE  TypeOK' /\ Given' /\ TornHere' /\ Untouched'
<1>1. Given'
  BY DEF MFInv, Given, fixed
<1>2. Len(items) \in Nat /\ idx \in 1..Len(items) + 1 /\ items' = items
  BY MultiFileAssumption DEF MFInv, TypeOK, Given, fixed
<1>3. idx' \in 1..Len(items') + 1
  BY <1>2
<1>4. TypeOK'
  BY <1>3 DEF MFInv, TypeOK, fixed
<1>5. TornHere'
  BY NothingTorn DEF TornHere
<1>6. Untouched'
  BY UntouchedStep
<1> QED
  BY <1>1, <1>4, <1>5, <1>6

-----------------------------------------------------------------------------
(* The initial states *)

(* The directory is given as a tree. *)
LEMMA InitMFInv == Init => MFInv
<1> SUFFICES ASSUME Init PROVE MFInv
  OBVIOUS
<1> USE DEF Init
<1>1. Given
  BY DEF Given
<1>2. items \in Seq(FilePatch) /\ Len(items) \in Nat /\ 1 \in 1..Len(items) + 1
  BY MultiFileAssumption
<1>3. \A p \in DOMAIN start :
        p \in Seq(Name) /\ start[p] \in Contents /\ Parents(p) \cap DOMAIN start = {}
  BY MultiFileAssumption
<1>4. ASSUME NEW q \in dirs PROVE Parents(q) \subseteq dirs
  <2>1. PICK p \in DOMAIN start : q \in Parents(p)
    BY <1>4
  <2>2. Parents(q) \subseteq Parents(p)
    BY <1>3, <2>1, ParentsOfParents
  <2> QED
    BY <2>1, <2>2
<1>5. TypeOK
  BY <1>2, <1>3, <1>4 DEF TypeOK
<1>6. InHand
  BY MultiFileAssumption DEF InHand, AtWork
<1>7. TornHere
  BY <1>3, MultiFileAssumption DEF TornHere
<1>8. Untouched
  BY DEF Untouched
<1> QED
  BY <1>1, <1>5, <1>6, <1>7, <1>8 DEF MFInv

-----------------------------------------------------------------------------
(* The steps between items *)

(* All items are done and nothing is torn. *)
LEMMA FinishMFInv == MFInv /\ Finish => MFInv'
<1> SUFFICES ASSUME MFInv, Finish PROVE MFInv'
  OBVIOUS
<1>1. TypeOK' /\ Given' /\ TornHere' /\ Untouched'
  BY FilesAlone DEF Finish, Stop
<1>2. InHand'
  BY DEF MFInv, InHand, AtWork, Finish, Stop
<1> QED
  BY <1>1, <1>2 DEF MFInv

(* An item that could not be parsed stops the run between two files. *)
LEMMA ItemErrorMFInv == MFInv /\ ItemError => MFInv'
<1> SUFFICES ASSUME MFInv, ItemError PROVE MFInv'
  OBVIOUS
<1>1. TypeOK' /\ Given' /\ TornHere' /\ Untouched'
  BY FilesAlone DEF ItemError, HasItem, Stop
<1>2. InHand'
  BY DEF MFInv, InHand, AtWork, ItemError, Stop
<1> QED
  BY <1>1, <1>2 DEF MFInv

(* A marker patch touches nothing. *)
LEMMA SkipMarkerMFInv == MFInv /\ SkipMarker => MFInv'
<1> SUFFICES ASSUME MFInv, SkipMarker PROVE MFInv'
  OBVIOUS
<1>1. TypeOK' /\ Given' /\ TornHere' /\ Untouched'
  <2>1. result \in {"none", "ok", "error"}
    BY DEF MFInv, TypeOK
  <2> QED
    BY <2>1, FilesAlone DEF SkipMarker, HasItem, Continue
<1>2. InHand'
  BY DEF MFInv, InHand, AtWork, SkipMarker, HasItem, Continue
<1> QED
  BY <1>1, <1>2 DEF MFInv

(* The patched text is only held in memory. *)
LEMMA ApplyPatchMFInv == MFInv /\ ApplyPatch => MFInv'
<1> SUFFICES ASSUME MFInv, ApplyPatch PROVE MFInv'
  OBVIOUS
<1>1. /\ stage = "next" /\ idx <= Len(items) /\ Item.op \in {"create", "modify"}
      /\ UNCHANGED <<fixed, idx, tree, dirs, fault>>
  BY DEF ApplyPatch, HasItem
<1>2. Given /\ idx \in 1..Len(items) + 1 /\ result = "none" /\ patched \in Contents \cup {Other}
  BY <1>1 DEF MFInv, TypeOK, InHand
<1>3. Item \in FilePatch
  BY <1>1, <1>2, ItemAtHand
<1>4. \/ stage' = "done" /\ result' = "error" /\ patched' = patched
      \/ stage' = "mkdir" /\ result' = "none" /\ patched' \in {Item.patch.to, Other}
  BY <1>2 DEF ApplyPatch, Outcomes, Stop
<1>5. TypeOK' /\ Given' /\ TornHere' /\ Untouched'
  BY <1>1, <1>4, FilesAlone
<1>6. patched' \in Contents \cup {Other}
  BY <1>2, <1>3, <1>4 DEF FilePatch
<1>7. InHand'
  BY <1>1, <1>4, <1>6, SameItem DEF InHand, AtWork, fixed
<1> QED
  BY <1>5, <1>7 DEF MFInv

(* Nothing is written yet: the target is known. *)
LEMMA MoveFileMFInv == MFInv /\ MoveFile => MFInv'
<1> SUFFICES ASSUME MFInv, MoveFile PROVE MFInv'
  OBVIOUS
<1>1. /\ stage = "next" /\ idx <= Len(items) /\ Item.op \in {"rename", "copy"}
      /\ stage' = "mkdir"
      /\ UNCHANGED <<fixed, idx, tree, dirs, patched, result, fault>>
  BY DEF MoveFile, HasItem
<1>2. result = "none" /\ patched \in Contents \cup {Other}
  BY <1>1 DEF MFInv, InHand
<1>3. TypeOK' /\ Given' /\ TornHere' /\ Untouched'
  BY <1>1, <1>2, FilesAlone
<1>4. InHand'
  BY <1>1, <1>2, SameItem DEF InHand, AtWork, fixed
<1> QED
  BY <1>3, <1>4 DEF MFInv

(* Only the file the item names goes, and no directory with it. *)
LEMMA DeleteFileMFInv == MFInv /\ DeleteFile => MFInv'
<1> SUFFICES ASSUME MFInv, DeleteFile PROVE MFInv'
  OBVIOUS
<1>1. /\ stage = "next" /\ idx <= Len(items) /\ Item.op = "delete"
      /\ UNCHANGED <<fixed, dirs, patched, fault>>
  BY DEF DeleteFile, HasItem
<1>2. CASE ~IsFile(Target)
  <2>1. TypeOK' /\ Given' /\ TornHere' /\ Untouched'
    BY <1>1, <1>2, FilesAlone DEF DeleteFile, Stop
  <2>2. InHand'
    BY <1>1, <1>2 DEF DeleteFile, Stop, MFInv, InHand, AtWork
  <2> QED
    BY <2>1, <2>2 DEF MFInv
<1>3. CASE IsFile(Target)
  <2>1. tree' = Removed(Target) /\ stage' = "next" /\ idx' = idx + 1 /\ result' = result
    BY <1>3 DEF DeleteFile, Continue
  <2>2. DOMAIN tree' = DOMAIN tree \ {Target} /\ \A p \in DOMAIN tree' : tree'[p] = tree[p]
    BY <2>1 DEF Removed
  <2>3. Given' /\ items' = items /\ Len(items) \in Nat /\ idx \in 1..Len(items) + 1
    BY <1>1, MultiFileAssumption DEF MFInv, TypeOK, Given, fixed
  <2>4. idx' \in 1..Len(items') + 1
    BY <1>1, <2>1, <2>3
  <2>5. TypeOK'
    BY <1>1, <2>1, <2>2, <2>4 DEF MFInv, TypeOK
  <2>6. InHand'
    BY <1>1, <2>1 DEF MFInv, InHand, AtWork
  <2>7. TornHere'
    BY <1>1, <2>2, NothingTorn DEF TornHere
  <2>8. Untouched'
    BY <1>1, <2>1, <2>2, UntouchedStep DEF ElsewhereSame
  <2> QED
    BY <2>3, <2>5, <2>6, <2>7, <2>8 DEF MFInv
<1> QED
  BY <1>2, <1>3

-----------------------------------------------------------------------------
(* The steps at work on an item *)

(* What is known while an item is worked on. *)
LEMMA WhileAtWork ==
  ASSUME MFInv, AtWork
  PROVE  /\ result = "none" /\ patched \in Contents \cup {Other}
         /\ Given /\ items \in Seq(FilePatch) /\ Len(items) \in Nat
         /\ idx \in 1..Len(items) + 1 /\ idx <= Len(items)
         /\ Item \in FilePatch /\ Item.op \in {"create", "modify", "rename", "copy"}
         /\ Target \in Seq(Name)
<1>1. /\ result = "none" /\ patched \in Contents \cup {Other}
      /\ Given /\ idx \in 1..Len(items) + 1 /\ idx <= Len(items)
      /\ Item.op \in {"create", "modify", "rename", "copy"}
  BY DEF MFInv, TypeOK, InHand, AtWork
<1>2. items \in Seq(FilePatch) /\ Len(items) \in Nat
  BY <1>1, MultiFileAssumption DEF Given
<1> QED
  BY <1>1, <1>2, ItemAtHand

(* A step in which the item at hand stays, or is done. *)
LEMMA ItemOn ==
  ASSUME MFInv, AtWork, UNCHANGED fixed, idx' = idx \/ idx' = idx + 1
  PROVE  Given' /\ items' = items /\ idx' \in 1..Len(items') + 1
<1>1. Len(items) \in Nat /\ idx \in 1..Len(items) + 1 /\ idx <= Len(items) /\ Given
  BY WhileAtWork
<1> QED
  BY <1>1 DEF Given, fixed

(* A call that fails stops the run with the tree as it is. *)
LEMMA IOErrorMFInv == MFInv /\ IOError => MFInv'
<1> SUFFICES ASSUME MFInv, IOError PROVE MFInv'
  OBVIOUS
<1>1. stage' = "done" /\ result' = "error" /\ UNCHANGED <<fixed, idx, tree, dirs, patched>>
  BY DEF IOError, Stop
<1>2. idx <= Len(items) /\ stage # "done"
  BY DEF IOError, HasItem, MFInv, InHand, AtWork
<1>3. Item' = Item /\ Target' = Target /\ Given'
  BY <1>1, SameItem DEF MFInv
<1>4. TypeOK'
  BY <1>1 DEF MFInv, TypeOK, fixed
<1>5. InHand'
  BY <1>1 DEF MFInv, InHand, AtWork
<1>6. TornHere'
  BY <1>1, <1>2, <1>3 DEF MFInv, TornHere, fixed
<1>7. Untouched'
  BY <1>1, UntouchedStep
<1> QED
  BY <1>3, <1>4, <1>5, <1>6, <1>7 DEF MFInv

(* Only directories are added, those of the target, and no file is in the
   way of one. *)
LEMMA MakeParentsMFInv == MFInv /\ MakeParents => MFInv'
<1> SUFFICES ASSUME MFInv, MakeParents PROVE MFInv'
  OBVIOUS
<1>1. stage = "mkdir" /\ AtWork /\ UNCHANGED <<fixed, idx, tree, patched, fault>>
  BY DEF MakeParents, AtWork
<1>2. Item' = Item /\ Source' = Source /\ Target' = Target
  BY <1>1, SameItem
<1>3. CASE Parents(Target) \cap DOMAIN tree # {}
  <2>1. stage' = "done" /\ result' = "error" /\ dirs' = dirs
    BY <1>3 DEF MakeParents, Stop
  <2>2. TypeOK' /\ Given' /\ TornHere' /\ Untouched'
    BY <1>1, <2>1, FilesAlone
  <2>3. InHand'
    BY <1>1, <2>1, WhileAtWork DEF InHand, AtWork
  <2> QED
    BY <2>2, <2>3 DEF MFInv
<1>4. CASE Parents(Target) \cap DOMAIN tree = {}
  <2>1. stage' = "write" /\ result' = result /\ dirs' = dirs \cup Parents(Target)
    BY <1>4 DEF MakeParents
  <2>2. \A p \in Parents(Target) : Parents(p) \subseteq Parents(Target)
    BY <1>1, WhileAtWork, ParentsOfParents
  <2>3. Given' /\ idx' \in 1..Len(items') + 1
    BY <1>1, ItemOn
  <2>4. TypeOK'
    BY <1>1, <1>4, <2>1, <2>2, <2>3 DEF MFInv, TypeOK
  <2>5. InHand'
    BY <1>1, <1>2, <2>1, WhileAtWork DEF InHand, AtWork, fixed
  <2>6. TornHere'
    BY <1>1, NothingTorn DEF TornHere
  <2>7. Untouched'
    BY <1>1, UntouchedStep
  <2> QED
    BY <2>3, <2>4, <2>5, <2>6, <2>7 DEF MFInv
<1> QED
  BY <1>3, <1>4

(* The target is truncated, and so torn, until it is filled; its
   directories are there. *)
LEMMA OpenFileMFInv == MFInv /\ OpenFile => MFInv'
<1> SUFFICES ASSUME MFInv, OpenFile PROVE MFInv'
  OBVIOUS
<1>1. /\ stage = "write" /\ Item.op # "rename" /\ AtWork
      /\ UNCHANGED <<fixed, idx, dirs, fault>>
  BY DEF OpenFile, AtWork
<1>2. Item' = Item /\ Source' = Source /\ Target' = Target
  BY <1>1, SameItem
<1>3. CASE Target \in dirs \/ (Item.op = "copy" /\ ~IsFile(Source))
  <2>1. stage' = "done" /\ result' = "error" /\ UNCHANGED <<tree, patched>>
    BY <1>3 DEF OpenFile, Stop
  <2>2. TypeOK' /\ Given' /\ TornHere' /\ Untouched'
    BY <1>1, <2>1, FilesAlone
  <2>3. InHand'
    BY <1>1, <2>1, WhileAtWork DEF InHand, AtWork
  <2> QED
    BY <2>2, <2>3 DEF MFInv
<1>4. CASE ~(Target \in dirs \/ (Item.op = "copy" /\ ~IsFile(Source)))
  <2>1. /\ tree' = Stored(Target, Torn) /\ stage' = "fill" /\ result' = result
        /\ \/ patched' \in {patched, Empty}
           \/ Source \in DOMAIN tree /\ patched' = tree[Source]
    BY <1>4 DEF OpenFile, IsFile
  <2>2. /\ DOMAIN tree' = DOMAIN tree \cup {Target} /\ tree'[Target] = Torn
        /\ \A p \in DOMAIN tree' : p # Target => p \in DOMAIN tree /\ tree'[p] = tree[p]
    BY <2>1 DEF Stored
  <2>3. Given' /\ idx' \in 1..Len(items') + 1 /\ items' = items
    BY <1>1, ItemOn
  <2>4. Parents(Target) \subseteq dirs
    BY <1>1 DEF MFInv, InHand
  <2>5. TypeOK'
    BY <1>1, <1>4, <2>1, <2>2, <2>3, <2>4, WhileAtWork DEF MFInv, TypeOK
  <2>6. patched' \in Contents \cup {Other}
    BY <1>1, <2>1, NothingTorn, WhileAtWork, MultiFileAssumption DEF MFInv, TypeOK
  <2>7. InHand'
    BY <1>1, <1>2, <2>1, <2>2, <2>3, <2>4, <2>6, WhileAtWork DEF InHand, AtWork
  <2>8. TornHere'
    BY <1>1, <1>2, <2>1, <2>2, <2>3, NothingTorn, WhileAtWork DEF TornHere
  <2>9. Untouched'
    BY <1>1, <2>2, UntouchedStep, WhileAtWork DEF ElsewhereSame
  <2> QED
    BY <2>3, <2>5, <2>7, <2>8, <2>9 DEF MFInv
<1> QED
  BY <1>3, <1>4

(* The target has all of its contents and nothing is torn any more. *)
LEMMA FillFileMFInv == MFInv /\ FillFile => MFInv'
<1> SUFFICES ASSUME MFInv, FillFile PROVE MFInv'
  OBVIOUS
<1>1. stage = "fill" /\ AtWork /\ UNCHANGED <<fixed, dirs, patched, result, fault>>
  BY DEF FillFile, AtWork
<1>2. tree' = Stored(Target, patched)
  BY DEF FillFile
<1>3. \/ stage' = "remove" /\ idx' = idx /\ Item.op = "modify" /\ Source # Target
      \/ stage' = "next" /\ idx' = idx + 1
  BY DEF FillFile, Continue
<1>4. /\ Target \in DOMAIN tree /\ Target \notin dirs /\ Parents(Target) \subseteq dirs
  BY <1>1 DEF MFInv, InHand, TypeOK
<1>5. /\ DOMAIN tree' = DOMAIN tree /\ tree'[Target] = patched
      /\ \A p \in DOMAIN tree : p # Target => tree'[p] = tree[p]
  BY <1>2, <1>4 DEF Stored
<1>6. Given' /\ idx' \in 1..Len(items') + 1 /\ items' = items
  BY <1>1, <1>3, ItemOn
<1>7. TypeOK'
  BY <1>1, <1>3, <1>5, <1>6, WhileAtWork DEF MFInv, TypeOK
<1>8. InHand'
  <2>1. CASE stage' = "next"
    BY <1>1, <2>1, WhileAtWork DEF InHand, AtWork
  <2>2. CASE stage' = "remove"
    <3>1. idx' = idx /\ Item.op = "modify" /\ Source # Target
      BY <1>3, <2>2
    <3>2. Item' = Item /\ Source' = Source /\ Target' = Target
      BY <1>1, <3>1, SameItem
    <3> QED
      BY <1>1, <1>5, <1>6, <1>4, <2>2, <3>1, <3>2, WhileAtWork DEF InHand, AtWork
  <2> QED
    BY <1>3, <2>1, <2>2
<1>9. TornHere'
  <2>1. \A p \in DOMAIN tree' : tree'[p] # Torn
    BY <1>1, <1>5, WhileAtWork, MultiFileAssumption DEF MFInv, TornHere
  <2> QED
    BY <2>1 DEF TornHere
<1>10. Untouched'
  BY <1>1, <1>3, <1>5, UntouchedStep, WhileAtWork DEF ElsewhereSame
<1> QED
  BY <1>6, <1>7, <1>8, <1>9, <1>10 DEF MFInv

(* The old name of a file that has been written under its new one goes. *)
LEMMA RemoveSourceMFInv == MFInv /\ RemoveSource => MFInv'
<1> SUFFICES ASSUME MFInv, RemoveSource PROVE MFInv'
  OBVIOUS
<1>1. /\ stage = "remove" /\ AtWork /\ UNCHANGED <<fixed, dirs, patched, result, fault>>
      /\ tree' = Removed(Source) /\ stage' = "next" /\ idx' = idx + 1
  BY DEF RemoveSource, Continue, AtWork
<1>2. DOMAIN tree' = DOMAIN tree \ {Source} /\ \A p \in DOMAIN tree' : tree'[p] = tree[p]
  BY <1>1 DEF Removed
<1>3. Given' /\ idx' \in 1..Len(items') + 1
  BY <1>1, ItemOn
<1>4. TypeOK'
  BY <1>1, <1>2, <1>3 DEF MFInv, TypeOK
<1>5. InHand'
  BY <1>1, WhileAtWork DEF InHand, AtWork
<1>6. TornHere'
  BY <1>1, <1>2, NothingTorn DEF TornHere
<1>7. Untouched'
  BY <1>1, <1>2, UntouchedStep, WhileAtWork DEF ElsewhereSame
<1> QED
  BY <1>3, <1>4, <1>5, <1>6, <1>7 DEF MFInv

(* Both names belong to the item at hand. *)
LEMMA RenameFileMFInv == MFInv /\ RenameFile => MFInv'
<1> SUFFICES ASSUME MFInv, RenameFile PROVE MFInv'
  OBVIOUS
<1>1. /\ stage = "write" /\ Item.op = "rename" /\ AtWork
      /\ UNCHANGED <<fixed, dirs, patched, fault>>
  BY DEF RenameFile, AtWork
<1>2. CASE ~(IsFile(Source) /\ Target \notin dirs)
  <2>1. stage' = "done" /\ result' = "error" /\ UNCHANGED <<tree, idx>>
    BY <1>2 DEF RenameFile, Stop
  <2>2. TypeOK' /\ Given' /\ TornHere' /\ Untouched'
    BY <1>1, <2>1, FilesAlone
  <2>3. InHand'
    BY <1>1, <2>1, WhileAtWork DEF InHand, AtWork
  <2> QED
    BY <2>2, <2>3 DEF MFInv
<1>3. CASE IsFile(Source) /\ Target \notin dirs
  <2>1. /\ tree' = [p \in DOMAIN Removed(Source) \cup {Target} |->
                      IF p = Target THEN tree[Source] ELSE tree[p]]
        /\ stage' = "next" /\ idx' = idx + 1 /\ result' = result
    BY <1>3 DEF RenameFile, Continue
  <2>2. /\ DOMAIN tree' = (DOMAIN tree \ {Source}) \cup {Target}
        /\ tree'[Target] = tree[Source] /\ Source \in DOMAIN tree
        /\ \A p \in DOMAIN tree' : p # Target => tree'[p] = tree[p]
    BY <1>3, <2>1 DEF Removed, IsFile
  <2>3. Given' /\ idx' \in 1..Len(items') + 1
    BY <1>1, <2>1, ItemOn
  <2>4. Parents(Target) \subseteq dirs
    BY <1>1 DEF MFInv, InHand
  <2>5. TypeOK'
    BY <1>1, <1>3, <2>1, <2>2, <2>3, <2>4 DEF MFInv, TypeOK
  <2>6. InHand'
    BY <1>1, <2>1, WhileAtWork DEF InHand, AtWork
  <2>7. TornHere'
    BY <1>1, <2>2, NothingTorn DEF TornHere
  <2>8. Untouched'
    BY <1>1, <2>1, <2>2, UntouchedStep, WhileAtWork DEF ElsewhereSame
  <2> QED
    BY <2>3, <2>5, <2>6, <2>7, <2>8 DEF MFInv
<1> QED
  BY <1>2, <1>3

(* What is in front of a path, item by item. *)
LEMMA PrefixByItem ==
  ASSUME NEW a \in Seq(Name), NEW b \in Seq(Name)
  PROVE  IsPrefix(a, b) <=> Len(a) <= Len(b) /\ \A i \in 1..Len(a) : a[i] = b[i]
<1>1. SubSeq(a, 1, Len(a)) = a
  BY FromFirst
<1>2. ASSUME Len(a) <= Len(b)
      PROVE  /\ SubSeq(b, 1, Len(a)) \in Seq(Name) /\ Len(SubSeq(b, 1, Len(a))) = Len(a)
             /\ \A i \in 1..Len(a) : SubSeq(b, 1, Len(a))[i] = b[i]
  BY <1>2
<1>3. ASSUME Len(a) <= Len(b), \A i \in 1..Len(a) : a[i] = b[i]
      PROVE  a = SubSeq(b, 1, Len(a))
  <2> DEFINE c == SubSeq(b, 1, Len(a))
  <2>1. c \in Seq(Name) /\ Len(c) = Len(a) /\ \A i \in 1..Len(a) : c[i] = a[i]
    BY <1>2, <1>3
  <2> HIDE DEF c
  <2>2. a = c
    BY <2>1
  <2> QED
    BY <2>2 DEF c
<1> QED
  BY <1>1, <1>2, <1>3 DEF IsPrefix

(* A path with what was in front of it exchanged, and exchanged back. *)
LEMMA MovedPathFacts ==
  ASSUME NEW p \in Seq(Name), NEW from \in Seq(Name), NEW to \in Seq(Name), IsPrefix(from, p)
  PROVE  LET q == MovedPath(p, from, to)
         IN  /\ q \in Seq(Name) /\ IsPrefix(to, q) /\ Len(q) = Len(to) + Len(p) - Len(from)
             /\ \A i \in 1..Len(to) : q[i] = to[i]
             /\ \A i \in 1..Len(p) - Len(from) : q[Len(to) + i] = p[Len(from) + i]
<1> DEFINE rest == SubSeq(p, Len(from) + 1, Len(p))
           q == MovedPath(p, from, to)
<1>1. Len(from) \in Nat /\ Len(p) \in Nat /\ Len(to) \in Nat /\ Len(from) <= Len(p)
  BY PrefixByItem
<1>2. /\ rest \in Seq(Name) /\ Len(rest) = Len(p) - Len(from)
      /\ \A i \in 1..Len(p) - Len(from) : rest[i] = p[Len(from) + i]
  BY <1>1
<1> HIDE DEF rest
<1>3. to \o rest \in Seq(Name) /\ Len(to \o rest) = Len(to) + Len(rest)
  <2>1. rest \in Seq(Name)
    BY <1>2
  <2> QED
    BY <2>1
<1>4. \A i \in 1..Len(to) : (to \o rest)[i] = to[i]
  BY <1>2
<1>5. \A i \in 1..Len(rest) : (to \o rest)[Len(to) + i] = rest[i]
  BY <1>2
<1>6. q = to \o rest
  BY DEF q, rest, MovedPath
<1> HIDE DEF q
<1>7. /\ q \in Seq(Name) /\ Len(q) = Len(to) + Len(p) - Len(from)
      /\ \A i \in 1..Len(to) : q[i] = to[i]
      /\ \A i \in 1..Len(p) - Len(from) : q[Len(to) + i] = p[Len(from) + i]
  BY <1>1, <1>2, <1>3, <1>4, <1>5, <1>6
<1>8. Len(to) <= Len(q) /\ \A i \in 1..Len(to) : to[i] = q[i]
  BY <1>1, <1>7
<1>9. IsPrefix(to, q)
  BY <1>7, <1>8, PrefixByItem
<1> QED
  BY <1>7, <1>9 DEF q

(* Back is where it was, ... *)
LEMMA MovedBack ==
  ASSUME NEW p \in Seq(Name), NEW from \in Seq(Name), NEW to \in Seq(Name), IsPrefix(from, p)
  PROVE  MovedPath(MovedPath(p, from, to), to, from) = p
<1> DEFINE q == MovedPath(p, from, to)
           r == MovedPath(q, to, from)
<1>1. /\ q \in Seq(Name) /\ IsPrefix(to, q) /\ Len(q) = Len(to) + Len(p) - Len(from)
      /\ \A i \in 1..Len(p) - Len(from) : q[Len(to) + i] = p[Len(from) + i]
  BY MovedPathFacts
<1> HIDE DEF q
<1>2. /\ r \in Seq(Name) /\ Len(r) = Len(from) + Len(q) - Len(to)
      /\ \A i \in 1..Len(from) : r[i] = from[i]
      /\ \A i \in 1..Len(q) - Len(to) : r[Len(from) + i] = q[Len(to) + i]
  BY ZenonT(40), <1>1, MovedPathFacts
<1> HIDE DEF r
<1>3. /\ Len(from) \in Nat /\ Len(p) \in Nat /\ Len(to) \in Nat /\ Len(from) <= Len(p)
      /\ \A i \in 1..Len(from) : from[i] = p[i]
  BY PrefixByItem
<1>4. Len(r) = Len(p)
  BY <1>1, <1>2, <1>3
<1>5. ASSUME NEW i \in 1..Len(p) PROVE r[i] = p[i]
  <2>1. CASE i <= Len(from)
    BY <1>2, <1>3, <2>1
  <2>2. CASE i > Len(from)
    <3>1. PICK j \in 1..Len(p) - Len(from) : i = Len(from) + j
      <4>1. i - Len(from) \in 1..Len(p) - Len(from) /\ i = Len(from) + (i - Len(from))
        BY <1>3, <2>2
      <4> QED
        BY <4>1
    <3>2. j \in 1..Len(q) - Len(to)
      BY <1>1, <1>3
    <3> QED
      BY <1>1, <1>2, <3>1, <3>2
  <2> QED
    BY <1>3, <2>1, <2>2
<1>6. r = p
  <2>1. r \in Seq(Name) /\ \A i \in 1..Len(r) : r[i] = p[i]
    BY <1>2, <1>4, <1>5
  <2> QED
    BY <1>4, <2>1, SeqEqual
<1> QED
  BY <1>6 DEF r, q

(* ... and only the front itself becomes the new front. *)
LEMMA MovedFront ==
  ASSUME NEW p \in Seq(Name), NEW from \in Seq(Name), NEW to \in Seq(Name), IsPrefix(from, p)
  PROVE  MovedPath(p, from, to) = to <=> p = from
<1> DEFINE q == MovedPath(p, from, to)
<1>1. /\ q \in Seq(Name) /\ Len(q) = Len(to) + Len(p) - Len(from)
      /\ \A i \in 1..Len(to) : q[i] = to[i]
  BY MovedPathFacts
<1> HIDE DEF q
<1>2. /\ Len(from) \in Nat /\ Len(p) \in Nat /\ Len(to) \in Nat /\ Len(from) <= Len(p)
      /\ \A i \in 1..Len(from) : from[i] = p[i]
  BY PrefixByItem
<1>3. ASSUME p = from PROVE q = to
  <2>1. Len(q) = Len(to)
    BY <1>1, <1>2, <1>3
  <2> QED
    BY <1>1, <2>1
<1>4. ASSUME q = to PROVE p = from
  <2>1. Len(p) = Len(from)
    BY <1>1, <1>2, <1>4
  <2> QED
    BY <1>2, <2>1
<1> QED
  BY <1>3, <1>4 DEF q

(* A directory above a path, in terms of prefixes, both ways. *)
LEMMA ParentByPrefix ==
  ASSUME NEW q \in Seq(Name), NEW r
  PROVE  r \in Parents(q) <=> r \in Seq(Name) /\ r # <<>> /\ r # q /\ IsPrefix(r, q)
<1>1. ASSUME r \in Parents(q) PROVE r \in Seq(Name) /\ r # <<>> /\ r # q /\ IsPrefix(r, q)
  <2>1. PICK n \in 1..Len(q) - 1 : r = SubSeq(q, 1, n)
    BY <1>1 DEF Parents
  <2>2. r \in Seq(Name) /\ Len(r) = n /\ n < Len(q) /\ n \in Nat /\ n >= 1
    BY <2>1
  <2>3. \A i \in 1..n : r[i] = q[i]
    BY <2>1
  <2> QED
    BY <2>2, <2>3, PrefixByItem
<1>2. ASSUME r \in Seq(Name), r # <<>>, r # q, IsPrefix(r, q) PROVE r \in Parents(q)
  <2>1. /\ Len(r) \in Nat /\ Len(q) \in Nat /\ Len(r) >= 1 /\ Len(r) <= Len(q)
        /\ \A i \in 1..Len(r) : r[i] = q[i]
    BY <1>2, PrefixByItem
  <2>2. Len(r) # Len(q)
    BY <1>2, <2>1
  <2>3. Len(r) \in 1..Len(q) - 1
    BY <2>1, <2>2
  <2>4. r = SubSeq(q, 1, Len(r))
    BY <1>2, FromFirst DEF IsPrefix
  <2> QED
    BY <2>3, <2>4 DEF Parents
<1> QED
  BY <1>1, <1>2

(* What is in front of a path is in front of whatever that is in front of. *)
LEMMA PrefixOfPrefix ==
  ASSUME NEW a \in Seq(Name), NEW b \in Seq(Name), NEW c \in Seq(Name), IsPrefix(a, b), IsPrefix(b, c)
  PROVE  IsPrefix(a, c)
<1>1. Len(a) <= Len(b) /\ Len(b) <= Len(c) /\ Len(a) \in Nat /\ Len(b) \in Nat /\ Len(c) \in Nat
  BY PrefixByItem
<1>2. \A i \in 1..Len(a) : a[i] = b[i]
  BY PrefixByItem
<1>3. \A i \in 1..Len(b) : b[i] = c[i]
  BY PrefixByItem
<1>4. Len(a) <= Len(c) /\ \A i \in 1..Len(a) : a[i] = c[i]
  BY <1>1, <1>2, <1>3
<1> QED
  BY <1>4, PrefixByItem

(* Two paths in front of a third: the shorter is in front of the longer. *)
LEMMA PrefixesOfOne ==
  ASSUME NEW a \in Seq(Name), NEW b \in Seq(Name), NEW c \in Seq(Name), IsPrefix(a, c), IsPrefix(b, c)
  PROVE  IsPrefix(a, b) \/ IsPrefix(b, a)
<1>1. Len(a) \in Nat /\ Len(b) \in Nat
  OBVIOUS
<1>2. \A i \in 1..Len(a) : a[i] = c[i]
  BY PrefixByItem
<1>3. \A i \in 1..Len(b) : b[i] = c[i]
  BY PrefixByItem
<1>4. CASE Len(a) <= Len(b)
  <2>1. \A i \in 1..Len(a) : a[i] = b[i]
    BY <1>1, <1>2, <1>3, <1>4
  <2> QED
    BY <1>4, <2>1, PrefixByItem
<1>5. CASE Len(b) <= Len(a)
  <2>1. \A i \in 1..Len(b) : b[i] = a[i]
    BY <1>1, <1>2, <1>3, <1>5
  <2> QED
    BY <1>5, <2>1, PrefixByItem
<1> QED
  BY <1>1, <1>4, <1>5

(* What is in front of a path from the exchanged front on comes from what  *)
(* was in front of it.                                                     *)
LEMMA MovedPrefix ==
  ASSUME NEW p \in Seq(Name), NEW from \in Seq(Name), NEW to \in Seq(Name), IsPrefix(from, p),
         NEW r \in Seq(Name), IsPrefix(to, r), IsPrefix(r, MovedPath(p, from, to))
  PROVE  /\ MovedPath(r, to, from) \in Seq(Name)
         /\ IsPrefix(from, MovedPath(r, to, from)) /\ IsPrefix(MovedPath(r, to, from), p)
<1> DEFINE q == MovedPath(p, from, to)
           s == MovedPath(r, to, from)
<1>1. /\ q \in Seq(Name) /\ Len(q) = Len(to) + Len(p) - Len(from)
      /\ \A i \in 1..Len(p) - Len(from) : q[Len(to) + i] = p[Len(from) + i]
  BY ZenonT(40), MovedPathFacts
<1>2. IsPrefix(r, q)
  OBVIOUS
<1> HIDE DEF q
<1>3. /\ s \in Seq(Name) /\ IsPrefix(from, s) /\ Len(s) = Len(from) + Len(r) - Len(to)
      /\ \A i \in 1..Len(from) : s[i] = from[i]
      /\ \A i \in 1..Len(r) - Len(to) : s[Len(from) + i] = r[Len(to) + i]
  BY MovedPathFacts
<1> HIDE DEF s
<1>4. /\ Len(from) \in Nat /\ Len(p) \in Nat /\ Len(to) \in Nat /\ Len(r) \in Nat
      /\ Len(from) <= Len(p) /\ Len(to) <= Len(r) /\ Len(r) <= Len(q)
  BY <1>1, <1>2, PrefixByItem
<1>5. \A i \in 1..Len(from) : from[i] = p[i]
  BY PrefixByItem
<1>6. \A i \in 1..Len(r) : r[i] = q[i]
  BY <1>1, <1>2, PrefixByItem
<1>7. Len(s) <= Len(p)
  BY <1>1, <1>3, <1>4
<1>8. ASSUME NEW i \in 1..Len(s) PROVE s[i] = p[i]
  <2>1. CASE i <= Len(from)
    BY <1>3, <1>4, <1>5, <2>1
  <2>2. CASE i > Len(from)
    <3>1. PICK j \in 1..Len(r) - Len(to) : i = Len(from) + j
      <4>1. i - Len(from) \in 1..Len(r) - Len(to) /\ i = Len(from) + (i - Len(from))
        BY <1>3, <1>4, <2>2
      <4> QED
        BY <4>1
    <3>2. j \in 1..Len(p) - Len(from) /\ Len(to) + j \in 1..Len(r)
      BY <1>1, <1>4
    <3> QED
      BY <1>1, <1>3, <1>6, <3>1, <3>2
  <2> QED
    BY <1>4, <2>1, <2>2
<1>9. IsPrefix(s, p)
  BY <1>3, <1>7, <1>8, PrefixByItem
<1> QED
  BY <1>3, <1>9 DEF s

(* A directory that is moved to where it is. *)
LEMMA MovedNowhere ==
  ASSUME NEW paths, paths \subseteq Seq(Name), NEW from \in Seq(Name)
  PROVE  /\ \A p \in paths : IsPrefix(from, p) => MovedPath(p, from, from) = p
         /\ Moved(paths, from, from) = paths
<1>1. ASSUME NEW p \in paths, IsPrefix(from, p) PROVE MovedPath(p, from, from) = p
  <2> DEFINE q == MovedPath(p, from, from)
  <2>0. p \in Seq(Name)
    OBVIOUS
  <2>1. /\ q \in Seq(Name) /\ Len(q) = Len(from) + Len(p) - Len(from)
        /\ \A i \in 1..Len(from) : q[i] = from[i]
        /\ \A i \in 1..Len(p) - Len(from) : q[Len(from) + i] = p[Len(from) + i]
    BY <1>1, <2>0, MovedPathFacts
  <2> HIDE DEF q
  <2>2. /\ Len(from) \in Nat /\ Len(p) \in Nat /\ Len(from) <= Len(p)
        /\ \A i \in 1..Len(from) : from[i] = p[i]
    BY <1>1, <2>0, PrefixByItem
  <2>3. Len(q) = Len(p)
    BY <2>1, <2>2
  <2>4. ASSUME NEW i \in 1..Len(p) PROVE q[i] = p[i]
    <3>1. CASE i <= Len(from)
      BY <2>1, <2>2, <3>1
    <3>2. CASE i > Len(from)
      <4>1. PICK j \in 1..Len(p) - Len(from) : i = Len(from) + j
        <5>1. i - Len(from) \in 1..Len(p) - Len(from) /\ i = Len(from) + (i - Len(from))
          BY <2>2, <3>2
        <5> QED
          BY <5>1
      <4> QED
        BY <2>1, <4>1
    <3> QED
      BY <2>2, <3>1, <3>2
  <2>5. q = p
    BY <2>0, <2>1, <2>3, <2>4
  <2> QED
    BY <2>5 DEF q
<1>2. Moved(paths, from, from) = paths
  BY <1>1 DEF Moved
<1> QED
  BY <1>1, <1>2

(* A path is one that stays or one that is moved. *)
LEMMA InMoved ==
  ASSUME NEW paths, NEW from, NEW to, NEW x \in Moved(paths, from, to)
  PROVE  \/ x \in paths /\ ~IsPrefix(from, x)
         \/ \E p \in paths : IsPrefix(from, p) /\ x = MovedPath(p, from, to)
BY DEF Moved

(* What a directory that is moved leaves alone, brings along and finds. *)
MoveFits(from, to) ==
  /\ from \in Seq(Name) /\ to \in Seq(Name) /\ from \in dirs
  /\ ~IsPrefix(from, to) /\ ~IsFile(to)
  /\ \A p \in DOMAIN tree \cup dirs : ~IsStrictPrefix(to, p)
  /\ Parents(to) \subseteq dirs

(* The files that were not below the new place before are those below the  *)
(* old one now, each with what it held.                                    *)
LEMMA MovedFile ==
  ASSUME MFInv, PathsOK, NEW from, NEW to, MoveFits(from, to),
         NEW x \in Moved(DOMAIN tree, from, to)
  PROVE  \/ ~IsPrefix(to, x) /\ x \in DOMAIN tree /\ ~IsPrefix(from, x)
         \/ /\ IsPrefix(to, x) /\ MovedPath(x, to, from) \in DOMAIN tree
            /\ IsPrefix(from, MovedPath(x, to, from)) /\ x = MovedPath(MovedPath(x, to, from), from, to)
<1>1. CASE x \in DOMAIN tree /\ ~IsPrefix(from, x)
  BY <1>1 DEF MoveFits, IsFile, IsStrictPrefix
<1>2. ASSUME NEW p \in DOMAIN tree, IsPrefix(from, p), x = MovedPath(p, from, to)
      PROVE  /\ IsPrefix(to, x) /\ MovedPath(x, to, from) \in DOMAIN tree
             /\ IsPrefix(from, MovedPath(x, to, from)) /\ x = MovedPath(MovedPath(x, to, from), from, to)
  <2>1. p \in Seq(Name) /\ from \in Seq(Name) /\ to \in Seq(Name)
    BY DEF PathsOK, MoveFits
  <2>2. IsPrefix(to, x)
    BY <1>2, <2>1, MovedPathFacts
  <2>3. MovedPath(x, to, from) = p
    BY <1>2, <2>1, MovedBack
  <2> QED
    BY <1>2, <2>2, <2>3
<1> QED
  BY <1>1, <1>2, InMoved

(* After the move no file is where a directory is, ... *)
LEMMA MovedApart ==
  ASSUME MFInv, PathsOK, NEW from, NEW to, MoveFits(from, to)
  PROVE  Moved(DOMAIN tree, from, to) \cap Moved(dirs, from, to) = {}
<1> SUFFICES ASSUME NEW x \in Moved(DOMAIN tree, from, to), x \in Moved(dirs, from, to) PROVE FALSE
  OBVIOUS
<1>1. DOMAIN tree \cap dirs = {}
  BY DEF MFInv, TypeOK
<1>2. from \in Seq(Name) /\ to \in Seq(Name) /\ from \in dirs
  BY DEF MoveFits
<1>3. CASE x \in dirs /\ ~IsPrefix(from, x)
  <2>1. x \notin DOMAIN tree
    BY <1>1, <1>3
  <2>2. /\ IsPrefix(to, x) /\ MovedPath(x, to, from) \in DOMAIN tree
    BY <2>1, MovedFile
  <2>3. x = to
    BY <1>3, <2>2 DEF MoveFits, IsStrictPrefix
  <2>4. IsPrefix(to, to)
    BY <2>2, <2>3
  <2>5. MovedPath(x, to, from) = from
    BY <1>2, <2>3, <2>4, MovedFront
  <2> QED
    BY <1>1, <1>2, <2>2, <2>5
<1>4. ASSUME NEW q \in dirs, IsPrefix(from, q), x = MovedPath(q, from, to) PROVE FALSE
  <2>1. q \in Seq(Name)
    BY DEF PathsOK
  <2>2. IsPrefix(to, x)
    BY <1>2, <1>4, <2>1, MovedPathFacts
  <2>3. MovedPath(x, to, from) = q
    BY <1>2, <1>4, <2>1, MovedBack
  <2>4. MovedPath(x, to, from) \in DOMAIN tree
    BY <2>2, MovedFile
  <2> QED
    BY <1>1, <2>3, <2>4
<1> QED
  BY <1>3, <1>4, InMoved

(* ... and everything is in directories. *)
LEMMA MovedParents ==
  ASSUME MFInv, PathsOK, NEW from, NEW to, MoveFits(from, to),
         NEW paths \in {DOMAIN tree, dirs}, NEW x \in Moved(paths, from, to)
  PROVE  x \in Seq(Name) /\ Parents(x) \subseteq Moved(dirs, from, to)
<1>1. from \in Seq(Name) /\ to \in Seq(Name) /\ from \in dirs /\ Parents(to) \subseteq dirs
  BY DEF MoveFits
<1>2. paths \subseteq Seq(Name) /\ dirs \subseteq Seq(Name)
  BY DEF PathsOK
<1>3. \A p \in paths : Parents(p) \subseteq dirs
  BY DEF MFInv, TypeOK
<1>4. \A r \in dirs : ~IsPrefix(from, r) => r \in Moved(dirs, from, to)
  BY DEF Moved
<1>5. \A r \in dirs : IsPrefix(from, r) => MovedPath(r, from, to) \in Moved(dirs, from, to)
  BY DEF Moved
<1>6. CASE x \in paths /\ ~IsPrefix(from, x)
  <2>0. x \in Seq(Name)
    BY <1>2, <1>6
  <2>1. ASSUME NEW r \in Parents(x) PROVE r \in Moved(dirs, from, to)
    <3>1. r \in Seq(Name) /\ IsPrefix(r, x)
      BY <2>0, <2>1, ParentByPrefix
    <3>2. ~IsPrefix(from, r)
      BY <1>1, <1>6, <2>0, <3>1, PrefixOfPrefix
    <3> QED
      BY <1>3, <1>4, <1>6, <2>1, <3>2
  <2> QED
    BY <2>0, <2>1
<1>7. ASSUME NEW p \in paths, IsPrefix(from, p), x = MovedPath(p, from, to)
      PROVE  x \in Seq(Name) /\ Parents(x) \subseteq Moved(dirs, from, to)
  <2>1. p \in Seq(Name)
    BY <1>2
  <2>2. x \in Seq(Name) /\ IsPrefix(to, x)
    BY <1>1, <1>7, <2>1, MovedPathFacts
  <2>3. MovedPath(x, to, from) = p
    BY <1>1, <1>7, <2>1, MovedBack
  <2>4. ASSUME NEW r \in Parents(x) PROVE r \in Moved(dirs, from, to)
    <3>1. r \in Seq(Name) /\ r # <<>> /\ r # x /\ IsPrefix(r, x)
      BY <2>2, <2>4, ParentByPrefix
    <3>2. CASE IsPrefix(to, r)
      <4> DEFINE s == MovedPath(r, to, from)
      <4>1. s \in Seq(Name) /\ IsPrefix(from, s) /\ IsPrefix(s, p)
        BY <1>1, <1>7, <2>1, <3>1, <3>2, MovedPrefix
      <4>2. MovedPath(s, from, to) = r
        BY <1>1, <3>1, <3>2, MovedBack
      <4> HIDE DEF s
      <4>3. s # p
        BY <1>7, <3>1, <4>2
      <4>4. s \in dirs
        <5>1. CASE s = from
          BY <1>1, <5>1
        <5>2. CASE s # from
          <6>1. s # <<>>
            <7>1. Len(from) <= Len(s) /\ \A i \in 1..Len(from) : from[i] = s[i]
              BY <1>1, <4>1, PrefixByItem
            <7>2. s = <<>> => Len(from) = 0
              BY <1>1, <7>1
            <7>3. Len(from) = 0 => from = <<>>
              BY <1>1
            <7> QED
              BY <5>2, <7>2, <7>3
          <6>2. s \in Parents(p)
            BY <2>1, <4>1, <4>3, <6>1, ParentByPrefix
          <6> QED
            BY <1>3, <6>2
        <5> QED
          BY <5>1, <5>2
      <4> QED
        BY <1>5, <4>1, <4>2, <4>4
    <3>3. CASE ~IsPrefix(to, r)
      <4>1. IsPrefix(r, to) /\ r # to
        <5>1. IsPrefix(r, to)
          BY <1>1, <2>2, <3>1, <3>3, PrefixesOfOne
        <5>2. IsPrefix(to, to)
          BY <1>1, FromFirst DEF IsPrefix
        <5> QED
          BY <3>3, <5>1, <5>2
      <4>2. r \in Parents(to)
        BY <1>1, <3>1, <4>1, ParentByPrefix
      <4>3. ~IsPrefix(from, r)
        BY <1>1, <3>1, <4>1, PrefixOfPrefix DEF MoveFits
      <4> QED
        BY <1>1, <1>4, <4>2, <4>3
    <3> QED
      BY <3>2, <3>3
  <2> QED
    BY <2>2, <2>4
<1> QED
  BY <1>6, <1>7, InMoved

(* A directory and all that is in it move as a whole. *)
LEMMA RenameDirectoryMFInv == MFInv /\ PathsOK /\ RenameDirectory => MFInv'
<1> SUFFICES ASSUME MFInv, PathsOK, RenameDirectory PROVE MFInv'
  OBVIOUS
<1>1. /\ stage = "write" /\ Item.op = "rename" /\ Source \in dirs /\ AtWork
      /\ UNCHANGED <<fixed, patched, fault>>
  BY DEF RenameDirectory, AtWork
<1>2. CASE ~CanMoveDirectory
  <2>1. stage' = "done" /\ result' = "error" /\ UNCHANGED <<tree, dirs, idx>>
    BY <1>2 DEF RenameDirectory, Stop
  <2>2. TypeOK' /\ Given' /\ TornHere' /\ Untouched'
    BY <1>1, <2>1, FilesAlone
  <2>3. InHand'
    BY <1>1, <2>1, WhileAtWork DEF InHand, AtWork
  <2> QED
    BY <2>2, <2>3 DEF MFInv
<1>3. CASE CanMoveDirectory
  <2> DEFINE from == Source
             to == Target
             content(p) == IF IsPrefix(to, p) THEN tree[MovedPath(p, to, from)] ELSE tree[p]
  <2>1. /\ tree' = [p \in Moved(DOMAIN tree, from, to) |-> content(p)]
        /\ dirs' = Moved(dirs, from, to)
        /\ stage' = "next" /\ idx' = idx + 1 /\ result' = result
    BY <1>3 DEF RenameDirectory, Continue
  <2>2. Given' /\ idx' \in 1..Len(items') + 1
    BY <1>1, <2>1, ItemOn
  <2>3. from \in Seq(Name) /\ to \in Seq(Name) /\ Parents(to) \subseteq dirs
    BY <1>1, WhileAtWork DEF PathsOK, MFInv, InHand
  <2>4. /\ idx <= Len(items) /\ Given /\ idx \in 1..Len(items) + 1
        /\ from \in Touched(Item) /\ to \in Touched(Item)
    BY <1>1, WhileAtWork, ItemAtHand
  <2>5. \/ from = to
        \/ MoveFits(from, to)
    BY <1>1, <1>3, <2>3 DEF CanMoveDirectory, MoveFits
  <2> HIDE DEF from, to
  <2>6. DOMAIN tree' = Moved(DOMAIN tree, from, to) /\ \A p \in DOMAIN tree' : tree'[p] = content(p)
    BY <2>1
  <2>7. CASE from = to
    <3>1. /\ \A p \in DOMAIN tree : IsPrefix(from, p) => MovedPath(p, from, from) = p
          /\ Moved(DOMAIN tree, from, from) = DOMAIN tree
      BY <2>3, MovedNowhere DEF PathsOK
    <3>2. Moved(dirs, from, from) = dirs
      BY <2>3, MovedNowhere DEF PathsOK
    <3>3. DOMAIN tree' = DOMAIN tree /\ dirs' = dirs /\ \A p \in DOMAIN tree : tree'[p] = tree[p]
      BY <2>1, <2>6, <2>7, <3>1, <3>2
    <3>4. TypeOK'
      BY <2>1, <2>2, <3>3 DEF MFInv, TypeOK
    <3>5. InHand'
      BY <1>1, <2>1, WhileAtWork DEF InHand, AtWork
    <3>6. TornHere'
      BY <1>1, <3>3, NothingTorn DEF TornHere
    <3>7. ElsewhereSame
      BY <3>3 DEF ElsewhereSame
    <3>8. Untouched'
      BY <1>1, <2>1, <2>4, <3>7, UntouchedStep
    <3> QED
      BY <2>2, <3>4, <3>5, <3>6, <3>8 DEF MFInv
  <2>8. CASE MoveFits(from, to)
    <3>1. ASSUME NEW p \in DOMAIN tree' PROVE \E q \in DOMAIN tree : tree'[p] = tree[q]
      BY <2>6, <2>8, <3>1, MovedFile
    <3>2. \A p \in DOMAIN tree' : tree'[p] \in Contents \cup {Torn, Other}
      BY <3>1 DEF MFInv, TypeOK
    <3>3. DOMAIN tree' \cap dirs' = {}
      BY <2>1, <2>6, <2>8, MovedApart
    <3>4. \A p \in DOMAIN tree' \cup dirs' : Parents(p) \subseteq dirs'
      BY <2>1, <2>6, <2>8, MovedParents
    <3>5. result' \in {"none", "ok", "error"}
      BY <2>1 DEF MFInv, TypeOK
    <3>6. TypeOK'
      BY <2>1, <2>2, <3>2, <3>3, <3>4, <3>5 DEF TypeOK
    <3>7. InHand'
      BY <1>1, <2>1, WhileAtWork DEF InHand, AtWork
    <3>8. TornHere'
      BY <1>1, <3>1, NothingTorn DEF TornHere
    <3>9. ASSUME NEW p, ~Reaches(Item, p)
          PROVE  (p \in DOMAIN tree' <=> p \in DOMAIN tree) /\ (p \in DOMAIN tree => tree'[p] = tree[p])
      <4>1. ~IsPrefix(from, p) /\ ~IsPrefix(to, p)
        BY <1>1, <2>4, <3>9 DEF Reaches
      <4>2. p \in DOMAIN tree => p \in DOMAIN tree'
        BY <2>6, <4>1 DEF Moved
      <4>3. p \in DOMAIN tree' => p \in DOMAIN tree /\ tree'[p] = tree[p]
        BY <2>6, <2>8, <4>1, MovedFile
      <4> QED
        BY <4>2, <4>3
    <3>10. UnreachedSame
      BY <3>9 DEF UnreachedSame
    <3>11. Untouched'
      BY <1>1, <2>1, <2>4, <3>10, UntouchedStep
    <3> QED
      BY <2>2, <3>6, <3>7, <3>8, <3>11 DEF MFInv
  <2> QED
    BY <2>5, <2>7, <2>8
<1> QED
  BY <1>2, <1>3

(* All that is ever in the tree has a path. *)
LEMMA PathsStay == MFInv /\ PathsOK /\ [Next]_mvars => PathsOK'
<1> SUFFICES ASSUME MFInv, PathsOK, [Next]_mvars PROVE PathsOK'
  OBVIOUS
<1>1. CASE UNCHANGED <<tree, dirs>>
  BY <1>1 DEF PathsOK
<1>2. CASE DeleteFile \/ RemoveSource
  BY <1>2 DEF DeleteFile, RemoveSource, Removed, PathsOK
<1>3. CASE MakeParents
  <2>1. Target \in Seq(Name)
    BY <1>3, WhileAtWork DEF MakeParents, AtWork
  <2>2. Parents(Target) \subseteq Seq(Name)
    BY <2>1, ParentByPrefix
  <2> QED
    BY <1>3, <2>2 DEF MakeParents, PathsOK
<1>4. CASE OpenFile \/ FillFile
  <2>1. Target \in Seq(Name)
    BY <1>4, WhileAtWork DEF OpenFile, FillFile, AtWork
  <2> QED
    BY <1>4, <2>1 DEF OpenFile, FillFile, Stored, PathsOK
<1>5. CASE RenameFile
  <2>1. Target \in Seq(Name)
    BY <1>5, WhileAtWork DEF RenameFile, AtWork
  <2> QED
    BY <1>5, <2>1 DEF RenameFile, Removed, PathsOK
<1>6. CASE RenameDirectory
  <2>1. Target \in Seq(Name) /\ Source \in Seq(Name)
    BY <1>6, WhileAtWork DEF RenameDirectory, AtWork, PathsOK
  <2>2. ASSUME NEW paths, paths \subseteq Seq(Name)
        PROVE  Moved(paths, Source, Target) \subseteq Seq(Name)
    <3>1. ASSUME NEW p \in paths, IsPrefix(Source, p) PROVE MovedPath(p, Source, Target) \in Seq(Name)
      <4>1. p \in Seq(Name)
        BY <2>2
      <4> QED
        BY <2>1, <3>1, <4>1, MovedPathFacts
    <3> QED
      BY <2>2, <3>1 DEF Moved
  <2>3. /\ Moved(DOMAIN tree, Source, Target) \subseteq Seq(Name)
        /\ Moved(dirs, Source, Target) \subseteq Seq(Name)
    BY <2>2 DEF PathsOK
  <2> QED
    BY <1>6, <2>3 DEF RenameDirectory, PathsOK
<1> QED
  BY <1>1, <1>2, <1>3, <1>4, <1>5, <1>6
  DEF Next, mvars, Finish, ItemError, SkipMarker, ApplyPatch, MoveFile, IOError

-----------------------------------------------------------------------------
(* The theorems *)

(* Every step keeps the invariant, ... *)
LEMMA NextTreeInv == TreeInv /\ [Next]_mvars => TreeInv'
<1> SUFFICES ASSUME MFInv, PathsOK, [Next]_mvars PROVE MFInv' /\ PathsOK'
  BY DEF TreeInv
<1>1. PathsOK'
  BY PathsStay
<1>2. CASE UNCHANGED mvars
  BY <1>1, <1>2 DEF mvars, MFInv, TypeOK, Given, InHand, AtWork, TornHere, Untouched,
     Item, Source, Target
<1>3. CASE Next
  BY <1>1, <1>3, FinishMFInv, ItemErrorMFInv, DeleteFileMFInv, SkipMarkerMFInv,
     ApplyPatchMFInv, MoveFileMFInv, MakeParentsMFInv, OpenFileMFInv,
     FillFileMFInv, RemoveSourceMFInv, RenameFileMFInv, RenameDirectoryMFInv,
     IOErrorMFInv DEF Next
<1> QED
  BY <1>2, <1>3

(* ... which holds at the start, ... *)
LEMMA InitTreeInv == Init => TreeInv
<1> SUFFICES ASSUME Init PROVE PathsOK
  BY InitMFInv DEF TreeInv
<1>1. DOMAIN start \subseteq Seq(Name)
  BY MultiFileAssumption DEF Init
<1>2. \A p \in DOMAIN start : Parents(p) \subseteq Seq(Name)
  BY <1>1, ParentByPrefix
<1> QED
  BY <1>1, <1>2 DEF Init, PathsOK

(* ... so it holds always. *)
LEMMA TreeInvHolds == Spec => []TreeInv
BY InitTreeInv, NextTreeInv, PTL DEF Spec

(* The files and the directories of the target always form a tree, in      *)
(* which no file stands where another one has its directories.             *)
THEOREM MultiFileTypeCorrect == Spec => []TypeOK
<1>1. TreeInv => TypeOK
  BY DEF TreeInv, MFInv
<1> QED
  BY <1>1, TreeInvHolds, PTL

(* Wherever a run of apply_patch_file() stops, whichever call failed, no   *)
(* file is changed that only later items reach (a rename reaches also what *)
(* is below the two paths that it names), and at most the one file it was  *)
(* writing is torn; none is when the run succeeds.                         *)
THEOREM FailureStaysInOneFile == Spec => []StopsInOneFile
<1>1. TreeInv => StopsInOneFile
  <2> SUFFICES ASSUME MFInv PROVE StopsInOneFile
    BY DEF TreeInv
  <2>1. ASSUME NEW p \in DOMAIN tree, tree[p] = Torn
        PROVE  result # "ok" /\ idx <= Len(items) /\ p = TargetOf(Item)
    <3>1. /\ idx <= Len(items) /\ p = Target /\ Item.op # "error"
          /\ stage = "fill" \/ result = "error"
      BY <2>1 DEF MFInv, TornHere
    <3>2. result # "ok"
      BY <3>1 DEF MFInv, InHand
    <3>3. Given /\ idx \in 1..Len(items) + 1
      BY DEF MFInv, TypeOK
    <3> QED
      BY <3>1, <3>2, <3>3, ItemAtHand
  <2> QED
    BY <2>1 DEF MFInv, Untouched, StopsInOneFile
<1> QED
  BY <1>1, TreeInvHolds, PTL

(* A file that is renamed, by itself or with the directory it is in, or    *)
(* patched under another name, is complete at its new place in the very    *)
(* step that takes it from its old one.                                    *)
THEOREM MovesLoseNothing == Spec => KeepsASource
<1> DEFINE there(p) == MovedPath(p, Source, Target)
           There(p) == /\ there(p) \in DOMAIN tree'
                       /\ tree'[there(p)] = IF Item.op = "rename" THEN tree[p] ELSE patched
           Kept == idx <= Len(items) /\ Moving =>
                     \A p \in DOMAIN tree \ DOMAIN tree' : IsPrefix(Source, p) => There(p)
<1>1. ASSUME MFInv, PathsOK, [Next]_mvars, idx <= Len(items), Moving,
             NEW p \in DOMAIN tree \ DOMAIN tree', IsPrefix(Source, p)
      PROVE  There(p)
  <2>1. tree' # tree /\ p \in DOMAIN tree /\ p \notin DOMAIN tree' /\ p \in Seq(Name)
    BY <1>1 DEF PathsOK
  <2>2. Next
    BY <1>1, <2>1 DEF mvars
  <2>3. Source \in Seq(Name) /\ Target \in Seq(Name)
    BY <1>1, ItemAtHand DEF MFInv, TypeOK, Moving
  <2>4. ASSUME p = Source PROVE there(p) = Target
    BY <1>1, <2>3, <2>4, MovedFront
  <2>5. CASE DeleteFile
    BY <1>1, <2>5 DEF Moving, DeleteFile
  <2>6. CASE OpenFile
    BY <2>1, <2>6 DEF OpenFile, Stored
  <2>7. CASE FillFile
    BY <2>1, <2>7 DEF FillFile, Stored
  <2>8. CASE RemoveSource
    <3>1. p = Source /\ there(p) = Target
      BY <2>1, <2>4, <2>8 DEF RemoveSource, Removed
    <3>2. Item.op = "modify" /\ Source # Target /\ Target \in DOMAIN tree /\ tree[Target] = patched
      BY <1>1, <2>8 DEF RemoveSource, MFInv, InHand
    <3>3. Target \in DOMAIN tree' /\ tree'[Target] = tree[Target]
      BY <2>8, <3>2 DEF RemoveSource, Removed
    <3> QED
      BY <3>1, <3>2, <3>3
  <2>9. CASE RenameFile
    <3>1. /\ tree' = [q \in DOMAIN Removed(Source) \cup {Target} |->
                        IF q = Target THEN tree[Source] ELSE tree[q]]
          /\ Item.op = "rename"
      BY <2>1, <2>9 DEF RenameFile
    <3>2. p = Source /\ there(p) = Target
      BY <2>1, <2>4, <3>1 DEF Removed
    <3>3. Target \in DOMAIN tree' /\ tree'[Target] = tree[Source]
      BY <3>1
    <3> QED
      BY <3>1, <3>2, <3>3
  <2>10. CASE RenameDirectory
    <3>1. /\ tree' = [q \in Moved(DOMAIN tree, Source, Target) |->
                        IF IsPrefix(Target, q) THEN tree[MovedPath(q, Target, Source)] ELSE tree[q]]
          /\ Item.op = "rename"
      BY <2>1, <2>10 DEF RenameDirectory
    <3>2. there(p) \in Moved(DOMAIN tree, Source, Target)
      BY <1>1, <2>1 DEF Moved
    <3>3. IsPrefix(Target, there(p))
      BY <1>1, <2>1, <2>3, MovedPathFacts
    <3>4. MovedPath(there(p), Target, Source) = p
      BY <1>1, <2>1, <2>3, MovedBack
    <3> HIDE DEF there
    <3>5. there(p) \in DOMAIN tree' /\ tree'[there(p)] = tree[p]
      BY <3>1, <3>2, <3>3, <3>4
    <3> QED
      BY <3>1, <3>5
  <2> HIDE DEF There
  <2> QED
    BY <2>1, <2>2, <2>5, <2>6, <2>7, <2>8, <2>9, <2>10
    DEF Next, Finish, ItemError, SkipMarker, ApplyPatch, MoveFile, MakeParents, IOError
<1>2. TreeInv /\ [Next]_mvars => Kept
  BY <1>1 DEF TreeInv
<1>3. TreeInv /\ [Next]_mvars => [Kept]_mvars
  BY <1>2
<1> QED
  BY <1>3, TreeInvHolds, PTL DEF Spec, KeepsASource

-----------------------------------------------------------------------------
(* The files a patch set for them is about *)

(* The patch set is for these files, names none of them twice, and its
   renames and copies change nothing else. *)
Wanted ==
  /\ \A i \in DOMAIN items : Applicable(items[i])
  /\ Independent
  /\ PureMoves

Targets == {TargetOf(items[i]) : i \in DOMAIN items}

(* A directory above a file is a prefix of it, and not all of it. *)
LEMMA ParentsArePrefixes ==
  ASSUME NEW path \in Seq(Name), NEW q \in Parents(path)
  PROVE  IsPrefix(q, path) /\ q # path
<1>1. PICK n \in 1..Len(path) - 1 : q = SubSeq(path, 1, n)
  BY DEF Parents
<1>2. Len(q) = n /\ n \in Nat /\ Len(path) \in Nat /\ n < Len(path)
  BY <1>1
<1>3. SubSeq(q, 1, n) = q
  BY <1>1, <1>2, FromFirst
<1> QED
  BY <1>1, <1>2, <1>3 DEF IsPrefix

(* Every path is a prefix of itself. *)
LEMMA PrefixOfItself ==
  ASSUME NEW path \in Seq(Name)
  PROVE  IsPrefix(path, path)
BY DEF IsPrefix

(* The files an item of the patch set is about. *)
LEMMA ItemOfSet ==
  ASSUME Given, Wanted, NEW i \in DOMAIN items
  PROVE  /\ items \in Seq(FilePatch) /\ Len(items) \in Nat /\ DOMAIN items = 1..Len(items)
         /\ items[i] \in FilePatch /\ Applicable(items[i]) /\ items[i].op # "error"
         /\ SourceOf(items[i]) \in Seq(Name) /\ TargetOf(items[i]) \in Seq(Name)
         /\ Touched(items[i]) = {SourceOf(items[i]), TargetOf(items[i])}
<1>1. items \in Seq(FilePatch)
  BY MultiFileAssumption DEF Given
<1>2. items[i] \in FilePatch /\ Applicable(items[i]) /\ items[i].op # "error"
  BY <1>1 DEF Wanted, Applicable
<1>3. items[i].from \in Seq(Name) \ {<<>>} /\ items[i].to \in Seq(Name) \ {<<>>}
  BY <1>2 DEF FilePatch
<1> QED
  BY <1>1, <1>2, <1>3, StripLeadsToFile DEF SourceOf, TargetOf, Touched

(* Two items have no file in common. *)
LEMMA NoFileTwice ==
  ASSUME Given, Wanted, NEW i \in DOMAIN items, NEW j \in DOMAIN items,
         NEW p \in Touched(items[i]), p \in Touched(items[j])
  PROVE  i = j
<1>1. p \in Seq(Name)
  BY ItemOfSet
<1> QED
  BY <1>1, PrefixOfItself DEF Wanted, Independent

(* The item at hand, as one of the patch set. *)
LEMMA WantedItem ==
  ASSUME Given, Wanted, idx \in 1..Len(items) + 1, idx <= Len(items)
  PROVE  /\ idx \in DOMAIN items /\ Item = items[idx] /\ Item \in FilePatch
         /\ Applicable(Item) /\ Item.op # "error" /\ Item.patch.kind # "marker"
         /\ Source = SourceOf(Item) /\ Target = TargetOf(Item)
         /\ Source \in Seq(Name) /\ Target \in Seq(Name)
         /\ Touched(Item) = {Source, Target} /\ Target \in Targets
<1>1. items \in Seq(FilePatch)
  BY MultiFileAssumption DEF Given
<1>2. idx \in DOMAIN items /\ Item = items[idx]
  BY <1>1 DEF Item
<1>3. /\ Item \in FilePatch /\ Applicable(Item) /\ Item.op # "error"
      /\ SourceOf(Item) \in Seq(Name) /\ TargetOf(Item) \in Seq(Name)
      /\ Touched(Item) = {SourceOf(Item), TargetOf(Item)}
  BY <1>2, ItemOfSet
<1>4. Source = SourceOf(Item) /\ Target = TargetOf(Item)
  BY <1>3, ItemAtHand
<1> QED
  BY <1>2, <1>3, <1>4 DEF Applicable, Targets

(* No file is in the way of a directory of the target, ... *)
LEMMA ParentsFree ==
  ASSUME Given, Wanted, NEW i \in DOMAIN items, NEW q \in Parents(TargetOf(items[i]))
  PROVE  q \notin DOMAIN start \cup Targets
<1>1. Applicable(items[i]) /\ TargetOf(items[i]) \in Seq(Name) /\ TargetOf(items[i]) \in Touched(items[i])
  BY ItemOfSet
<1>2. IsPrefix(q, TargetOf(items[i])) /\ q # TargetOf(items[i])
  BY <1>1, ParentsArePrefixes
<1>3. q \notin DOMAIN start
  BY <1>1, <1>2 DEF Applicable, IsStrictPrefix
<1>4. ASSUME NEW j \in DOMAIN items, q = TargetOf(items[j]) PROVE FALSE
  <2>1. j # i
    BY <1>2, <1>4
  <2>2. q \in Touched(items[j])
    BY <1>4, ItemOfSet
  <2> QED
    BY <1>1, <1>2, <2>1, <2>2 DEF Wanted, Independent
<1> QED
  BY <1>3, <1>4 DEF Targets

(* ... and no directory where the target goes. *)
LEMMA TargetFree ==
  ASSUME Given, Wanted, NEW i \in DOMAIN items, NEW p \in DOMAIN start \cup Targets
  PROVE  TargetOf(items[i]) \notin Parents(p)
<1> SUFFICES ASSUME TargetOf(items[i]) \in Parents(p) PROVE FALSE
  OBVIOUS
<1>1. Applicable(items[i]) /\ TargetOf(items[i]) \in Touched(items[i])
  BY ItemOfSet
<1>2. CASE p \in DOMAIN start
  <2>1. p \in Seq(Name)
    BY <1>2, MultiFileAssumption DEF Given
  <2> QED
    BY <1>1, <1>2, <2>1, ParentsArePrefixes DEF Applicable, IsStrictPrefix
<1>3. ASSUME NEW j \in DOMAIN items, p = TargetOf(items[j]) PROVE FALSE
  <2>1. p \in Seq(Name) /\ p \in Touched(items[j])
    BY <1>3, ItemOfSet
  <2>2. IsPrefix(TargetOf(items[i]), p) /\ TargetOf(items[i]) # p
    BY <2>1, ParentsArePrefixes
  <2>3. i # j
    BY <1>3, <2>2
  <2> QED
    BY <1>1, <2>1, <2>2, <2>3 DEF Wanted, Independent
<1> QED
  BY <1>2, <1>3 DEF Targets

-----------------------------------------------------------------------------
(* A run in which no call fails *)

(* What has become of the files of an item that is done. *)
Carried(files, item) ==
  /\ item.op = "delete" => SourceOf(item) \notin DOMAIN files
  /\ item.op # "delete" =>
       TargetOf(item) \in DOMAIN files /\ files[TargetOf(item)] = item.patch.to
  /\ item.op \in {"rename", "modify"} /\ SourceOf(item) # TargetOf(item) =>
       SourceOf(item) \notin DOMAIN files
  /\ item.op = "copy" =>
       /\ SourceOf(item) \in DOMAIN start /\ SourceOf(item) \in DOMAIN files
       /\ files[SourceOf(item)] = start[SourceOf(item)]

(* No item has got to the file yet. *)
Ahead(p) ==
  /\ \A i \in DOMAIN items : i < idx => p \notin Touched(items[i])
  /\ stage \in {"fill", "remove"} => p # Target

AsAtStart ==
  \A p \in DOMAIN start \cup DOMAIN tree :
    Ahead(p) => p \in DOMAIN start /\ p \in DOMAIN tree /\ tree[p] = start[p]

(***************************************************************************)
(* The inductive invariant of a run without a failing call on files the    *)
(* patch set is for: the items behind are carried out, the files ahead are *)
(* as they were, and the item at hand is about to write what it should.    *)
(***************************************************************************)
OnCourse ==
  /\ stage = "done" => result = "ok" /\ idx > Len(items)
  /\ \A q \in dirs : \E p \in DOMAIN start \cup Targets : q \in Parents(p)
  /\ DOMAIN tree \subseteq DOMAIN start \cup Targets
  /\ \A i \in DOMAIN items : i < idx => Carried(tree, items[i])
  /\ AsAtStart
  /\ stage \in {"mkdir", "write"} /\ Item.op \in {"create", "modify"} =>
       patched = Item.patch.to
  /\ stage \in {"fill", "remove"} => patched = Item.patch.to

IsFunction == tree = [p \in DOMAIN tree |-> tree[p]]

CourseInv == TreeInv /\ IsFunction /\ (Wanted /\ ~fault => OnCourse)

(* What is known of a run on its course before a step. *)
LEMMA OnCourseItem ==
  ASSUME MFInv, Wanted, OnCourse, idx <= Len(items)
  PROVE  /\ Given /\ idx \in Nat /\ idx \in DOMAIN items /\ Item = items[idx] /\ Item \in FilePatch
         /\ Applicable(Item) /\ Item.op # "error" /\ Item.patch.kind # "marker"
         /\ Source = SourceOf(Item) /\ Target = TargetOf(Item)
         /\ Touched(Item) = {Source, Target} /\ Target \in Targets
         /\ \A i \in DOMAIN items : i < idx => Source \notin Touched(items[i]) /\ Target \notin Touched(items[i])
<1>1. Given /\ idx \in 1..Len(items) + 1 /\ idx \in Nat
  BY DEF MFInv, TypeOK
<1>2. /\ idx \in DOMAIN items /\ Item = items[idx] /\ Item \in FilePatch
      /\ Applicable(Item) /\ Item.op # "error" /\ Item.patch.kind # "marker"
      /\ Source = SourceOf(Item) /\ Target = TargetOf(Item)
      /\ Touched(Item) = {Source, Target} /\ Target \in Targets
  BY <1>1, WantedItem
<1>3. ASSUME NEW i \in DOMAIN items, i < idx PROVE Source \notin Touched(items[i]) /\ Target \notin Touched(items[i])
  <2>1. i # idx
    BY <1>1, <1>3, MultiFileAssumption DEF Given
  <2> QED
    BY <1>1, <1>2, <2>1, NoFileTwice
<1> QED
  BY <1>1, <1>2, <1>3

(* As long as the item at hand has not been started, its file is there, and
   is the one its patch was made of. *)
LEMMA SourceAsAtStart ==
  ASSUME MFInv, Wanted, OnCourse, idx <= Len(items), Item.op # "create",
         stage \notin {"fill", "remove"} \/ Source # Target
  PROVE  /\ Source \in DOMAIN start /\ Source \in DOMAIN tree
         /\ tree[Source] = start[Source] /\ start[Source] = Item.patch.from
<1>1. Source \in DOMAIN start /\ start[Source] = Item.patch.from
  BY OnCourseItem DEF Applicable
<1>2. Ahead(Source)
  BY OnCourseItem DEF Ahead
<1> QED
  BY <1>1, <1>2 DEF OnCourse, AsAtStart

(* What is wanted does not change. *)
LEMMA WantedStays ==
  ASSUME UNCHANGED fixed
  PROVE  Wanted' = Wanted /\ Targets' = Targets
BY DEF fixed, Wanted, Applicable, Independent, PureMoves, Targets, SourceOf, TargetOf, FileOf, Touched

(* Items that are done stay done while only files of the item at hand change. *)
LEMMA CarriedStays ==
  ASSUME MFInv, Wanted, OnCourse, UNCHANGED fixed,
         tree' = tree \/ (idx <= Len(items) /\ ElsewhereSame),
         NEW i \in DOMAIN items, i < idx
  PROVE  Carried(tree', items[i])
<1>1. Carried(tree, items[i]) /\ Given
  BY DEF OnCourse, MFInv
<1>2. start' = start /\ items' = items
  BY DEF fixed
<1>3. \A p \in Touched(items[i]) :
        (p \in DOMAIN tree' <=> p \in DOMAIN tree) /\ (p \in DOMAIN tree => tree'[p] = tree[p])
  <2>1. CASE tree' = tree
    BY <2>1
  <2>2. CASE idx <= Len(items) /\ ElsewhereSame
    BY <2>2, OnCourseItem DEF ElsewhereSame
  <2> QED
    BY <2>1, <2>2
<1>4. Touched(items[i]) = {SourceOf(items[i]), TargetOf(items[i])}
  BY <1>1, ItemOfSet
<1> QED
  BY <1>1, <1>2, <1>3, <1>4 DEF Carried

(* The items behind are carried out, in terms of the state before. *)
LEMMA CarriedPrimed ==
  ASSUME UNCHANGED fixed, \A i \in DOMAIN items : i < idx' => Carried(tree', items[i])
  PROVE  (\A i \in DOMAIN items : i < idx => Carried(tree, items[i]))'
<1>1. start' = start /\ items' = items
  BY DEF fixed
<1>2. ASSUME NEW i \in DOMAIN items, i < idx' PROVE Carried(tree, items[i])'
  <2> DEFINE item == items[i]
  <2>1. Carried(tree', item)
    BY <1>2
  <2>2. item' = item
    BY <1>1
  <2>3. SourceOf(item)' = SourceOf(item) /\ TargetOf(item)' = TargetOf(item)
    BY <2>2 DEF SourceOf, TargetOf, FileOf
  <2> HIDE DEF item
  <2>4. Carried(tree, item)'
    BY <1>1, <2>1, <2>2, <2>3 DEF Carried
  <2> QED
    BY <2>4 DEF item
<1> QED
  BY <1>1, <1>2

(* A step after which no more files are ahead leaves those as they were. *)
LEMMA AsAtStartStep ==
  ASSUME MFInv, Wanted, OnCourse, UNCHANGED fixed,
         \A p : Ahead(p)' => Ahead(p),
         \A p : Ahead(p)' => (p \in DOMAIN tree' <=> p \in DOMAIN tree)
                              /\ (p \in DOMAIN tree => tree'[p] = tree[p])
  PROVE  AsAtStart'
<1>1. start' = start
  BY DEF fixed
<1>2. ASSUME NEW p \in DOMAIN start \cup DOMAIN tree', Ahead(p)'
      PROVE  p \in DOMAIN start /\ p \in DOMAIN tree' /\ tree'[p] = start[p]
  <2>1. Ahead(p)
    BY <1>2
  <2>2. (p \in DOMAIN tree' <=> p \in DOMAIN tree) /\ (p \in DOMAIN tree => tree'[p] = tree[p])
    BY <1>2
  <2> QED
    BY <1>2, <2>1, <2>2 DEF OnCourse, AsAtStart
<1> QED
  BY <1>1, <1>2 DEF AsAtStart

(* A run starts on its course. *)
LEMMA InitCourse == Init => CourseInv
<1> SUFFICES ASSUME Init PROVE CourseInv
  OBVIOUS
<1>1. TreeInv
  BY InitTreeInv
<1> USE DEF Init
<1>2. start \in [DOMAIN start -> Contents]
  BY MultiFileAssumption
<1>3. IsFunction
  BY <1>2 DEF IsFunction
<1>4. items \in Seq(FilePatch)
  BY MultiFileAssumption
<1>5. OnCourse
  BY <1>4 DEF OnCourse, AsAtStart
<1> QED
  BY <1>1, <1>3, <1>5 DEF CourseInv

(* The patch set is carried out when there is no item left. *)
LEMMA FinishCourse ==
  ASSUME MFInv, Wanted, OnCourse, Finish
  PROVE  OnCourse'
<1>1. /\ stage = "next" /\ idx > Len(items) /\ stage' = "done" /\ result' = "ok"
      /\ UNCHANGED <<fixed, idx, tree, dirs, patched>>
  BY DEF Finish, Stop
<1>2. start' = start /\ items' = items /\ Targets' = Targets
  BY <1>1, WantedStays DEF fixed
<1>3. \A p : Ahead(p)' => Ahead(p)
  BY <1>1, <1>2 DEF Ahead, Touched, SourceOf, TargetOf, FileOf
<1>4. AsAtStart'
  BY <1>1, <1>3, AsAtStartStep
<1>5. \A i \in DOMAIN items : i < idx' => Carried(tree', items[i])
  BY <1>1, CarriedStays
<1>6. (\A i \in DOMAIN items : i < idx => Carried(tree, items[i]))'
  BY <1>1, <1>5, CarriedPrimed
<1> QED
  BY <1>1, <1>2, <1>4, <1>6 DEF OnCourse

(* What an item that is done leaves to show of the invariant. *)
LEMMA ItemDone ==
  ASSUME MFInv, Wanted, OnCourse, UNCHANGED <<fixed, dirs>>, idx <= Len(items),
         idx' = idx + 1, stage' = "next", ElsewhereSame,
         DOMAIN tree' \subseteq DOMAIN tree \cup {Target},
         Carried(tree', Item)
  PROVE  OnCourse'
<1>1. start' = start /\ items' = items /\ Targets' = Targets
  BY WantedStays DEF fixed
<1>2. /\ idx \in DOMAIN items /\ Item = items[idx] /\ idx \in Nat
      /\ Touched(Item) = {Source, Target} /\ Target \in Targets
  BY OnCourseItem
<1>3. \A i \in DOMAIN items : i \in Int
  BY MultiFileAssumption DEF MFInv, Given
<1>4. ASSUME NEW i \in DOMAIN items, i < idx' PROVE Carried(tree', items[i])
  <2>1. CASE i = idx
    BY <1>2, <2>1
  <2>2. CASE i # idx
    <3>1. i < idx
      BY <1>2, <1>3, <2>2, <1>4
    <3> QED
      BY <3>1, CarriedStays
  <2> QED
    BY <2>1, <2>2
<1>5. ASSUME NEW p, Ahead(p)' PROVE Ahead(p) /\ p # Source /\ p # Target
  <2>1. \A i \in DOMAIN items : i < idx + 1 => p \notin Touched(items[i])
    BY <1>1, <1>5 DEF Ahead, Touched, SourceOf, TargetOf, FileOf
  <2>2. p # Source /\ p # Target
    BY <1>2, <2>1
  <2>3. \A i \in DOMAIN items : i < idx => i < idx + 1
    BY <1>2, <1>3
  <2> QED
    BY <2>1, <2>2, <2>3 DEF Ahead
<1>6. AsAtStart'
  BY <1>5, AsAtStartStep DEF ElsewhereSame
<1>7. (\A i \in DOMAIN items : i < idx => Carried(tree, items[i]))'
  BY <1>4, CarriedPrimed
<1>8. DOMAIN tree' \subseteq DOMAIN start' \cup Targets'
  BY <1>1, <1>2 DEF OnCourse
<1>9. \A q \in dirs' : \E p \in DOMAIN start' \cup Targets' : q \in Parents(p)
  BY <1>1 DEF OnCourse
<1> QED
  BY <1>6, <1>7, <1>8, <1>9 DEF OnCourse

(* What a step at work on an item leaves to show of the invariant when the
   item stays and the files that are ahead stay as they are. *)
LEMMA ItemStays ==
  ASSUME MFInv, Wanted, OnCourse, UNCHANGED <<fixed, idx>>, idx <= Len(items),
         stage' # "done", stage \notin {"fill", "remove"} \/ stage' \in {"fill", "remove"},
         ElsewhereSame, tree' = tree \/ stage' \in {"fill", "remove"},
         \A p : p # Target => (p \in DOMAIN tree' <=> p \in DOMAIN tree)
                              /\ (p \in DOMAIN tree => tree'[p] = tree[p])
  PROVE  /\ (\A i \in DOMAIN items : i < idx => Carried(tree, items[i]))'
         /\ AsAtStart' /\ (DOMAIN tree \subseteq DOMAIN start \cup Targets)'
<1>1. start' = start /\ items' = items /\ Targets' = Targets /\ Target \in Targets /\ Target' = Target
  BY WantedStays, OnCourseItem, SameItem DEF fixed
<1>2. \A i \in DOMAIN items : i < idx' => Carried(tree', items[i])
  BY CarriedStays
<1>3. (\A i \in DOMAIN items : i < idx => Carried(tree, items[i]))'
  BY <1>2, CarriedPrimed
<1>4. ASSUME NEW p, Ahead(p)'
      PROVE  /\ Ahead(p)
             /\ (p \in DOMAIN tree' <=> p \in DOMAIN tree) /\ (p \in DOMAIN tree => tree'[p] = tree[p])
  <2>1. \A i \in DOMAIN items : i < idx => p \notin Touched(items[i])
    BY <1>1, <1>4 DEF Ahead, Touched, SourceOf, TargetOf, FileOf
  <2>2. stage' \in {"fill", "remove"} => p # Target
    BY <1>1, <1>4 DEF Ahead
  <2> QED
    BY <2>1, <2>2 DEF Ahead
<1>5. AsAtStart'
  BY <1>4, AsAtStartStep
<1>6. DOMAIN tree' \subseteq DOMAIN tree \cup {Target}
  OBVIOUS
<1> QED
  BY <1>1, <1>3, <1>5, <1>6 DEF OnCourse

(* The file to delete is there. *)
LEMMA DeleteFileCourse ==
  ASSUME MFInv, Wanted, OnCourse, DeleteFile
  PROVE  OnCourse'
<1>1. /\ stage = "next" /\ idx <= Len(items) /\ Item.op = "delete"
      /\ UNCHANGED <<fixed, dirs, patched, fault>>
  BY DEF DeleteFile, HasItem
<1>2. Source = SourceOf(Item) /\ Target = TargetOf(Item) /\ Applicable(Item)
  BY <1>1, OnCourseItem
<1>3. Source = Target
  BY <1>1, <1>2 DEF Applicable
<1>4. Source \in DOMAIN tree
  BY <1>1, SourceAsAtStart
<1>5. tree' = Removed(Target) /\ stage' = "next" /\ idx' = idx + 1
  BY <1>3, <1>4 DEF DeleteFile, Continue, IsFile
<1>6. DOMAIN tree' = DOMAIN tree \ {Target} /\ \A p \in DOMAIN tree' : tree'[p] = tree[p]
  BY <1>5 DEF Removed
<1>7. ElsewhereSame
  BY <1>6 DEF ElsewhereSame
<1>8. Carried(tree', Item)
  BY <1>1, <1>2, <1>3, <1>6 DEF Carried
<1> QED
  BY <1>1, <1>5, <1>6, <1>7, <1>8, ItemDone

(* The file is the one the patch was made of. *)
LEMMA ApplyPatchCourse ==
  ASSUME MFInv, Wanted, OnCourse, ApplyPatch
  PROVE  OnCourse'
<1>1. /\ stage = "next" /\ idx <= Len(items) /\ Item.op \in {"create", "modify"}
      /\ UNCHANGED <<fixed, idx, tree, dirs, fault>>
  BY DEF ApplyPatch, HasItem
<1>2. Source = SourceOf(Item) /\ Target = TargetOf(Item) /\ Applicable(Item)
  BY <1>1, OnCourseItem
<1>3. Base = Item.patch.from /\ ~(Item.op = "modify" /\ ~IsFile(Source))
  <2>1. CASE Item.op = "create"
    BY <1>2, <2>1 DEF Base, Applicable
  <2>2. CASE Item.op = "modify"
    BY <1>1, <2>2, SourceAsAtStart DEF Base, IsFile
  <2> QED
    BY <1>1, <2>1, <2>2
<1>4. Outcomes(Item.patch, Base) = {Item.patch.to}
  BY <1>3 DEF Outcomes
<1>5. PICK outcome \in Outcomes(Item.patch, Base) :
         IF outcome = Failed THEN Stop("error") /\ UNCHANGED patched
         ELSE patched' = outcome /\ stage' = "mkdir" /\ UNCHANGED result
  BY <1>3 DEF ApplyPatch
<1>6. Item.patch.to # Failed
  <2>1. Item \in FilePatch
    BY <1>1, OnCourseItem
  <2>2. Item.patch.to \in Contents
    BY <2>1 DEF FilePatch
  <2> QED
    BY <2>2, MultiFileAssumption
<1>7. patched' = Item.patch.to /\ stage' = "mkdir"
  BY <1>4, <1>5, <1>6
<1>8. Item' = Item /\ start' = start /\ items' = items /\ Targets' = Targets
  BY <1>1, SameItem, WantedStays DEF fixed
<1>9. /\ (\A i \in DOMAIN items : i < idx => Carried(tree, items[i]))'
      /\ AsAtStart' /\ (DOMAIN tree \subseteq DOMAIN start \cup Targets)'
  BY <1>1, <1>7, ItemStays DEF ElsewhereSame
<1> QED
  BY <1>1, <1>7, <1>8, <1>9 DEF OnCourse

(* What a rename or a copy writes is what it finds. *)
LEMMA MoveFileCourse ==
  ASSUME MFInv, Wanted, OnCourse, MoveFile
  PROVE  OnCourse'
<1>1. /\ stage = "next" /\ idx <= Len(items) /\ Item.op \in {"rename", "copy"} /\ stage' = "mkdir"
      /\ UNCHANGED <<fixed, idx, tree, dirs, patched, result, fault>>
  BY DEF MoveFile, HasItem
<1>2. Item' = Item /\ start' = start /\ items' = items /\ Targets' = Targets
  BY <1>1, SameItem, WantedStays DEF fixed
<1>3. /\ (\A i \in DOMAIN items : i < idx => Carried(tree, items[i]))'
      /\ AsAtStart' /\ (DOMAIN tree \subseteq DOMAIN start \cup Targets)'
  BY <1>1, ItemStays DEF ElsewhereSame
<1> QED
  BY <1>1, <1>2, <1>3 DEF OnCourse

(* No file is in the way of the directories. *)
LEMMA MakeParentsCourse ==
  ASSUME MFInv, Wanted, OnCourse, MakeParents
  PROVE  OnCourse'
<1>1. /\ stage = "mkdir" /\ idx <= Len(items) /\ UNCHANGED <<fixed, idx, tree, patched, fault>>
  BY WhileAtWork DEF MakeParents, AtWork
<1>2. Item' = Item /\ start' = start /\ items' = items /\ Targets' = Targets
  BY <1>1, SameItem, WantedStays DEF fixed
<1>3. Given /\ idx \in DOMAIN items /\ Target = TargetOf(items[idx]) /\ Target \in Targets
  BY <1>1, OnCourseItem
<1>4. Parents(Target) \cap DOMAIN tree = {}
  BY <1>3, ParentsFree DEF OnCourse
<1>5. stage' = "write" /\ dirs' = dirs \cup Parents(Target)
  BY <1>4 DEF MakeParents
<1>6. /\ (\A i \in DOMAIN items : i < idx => Carried(tree, items[i]))'
      /\ AsAtStart' /\ (DOMAIN tree \subseteq DOMAIN start \cup Targets)'
  BY <1>1, <1>5, ItemStays DEF ElsewhereSame
<1>7. \A q \in dirs' : \E p \in DOMAIN start' \cup Targets' : q \in Parents(p)
  BY <1>2, <1>3, <1>5 DEF OnCourse
<1> QED
  BY <1>1, <1>2, <1>5, <1>6, <1>7 DEF OnCourse

(* No directory is where the target goes. *)
LEMMA TargetIsNoDirectory ==
  ASSUME MFInv, Wanted, OnCourse, idx <= Len(items)
  PROVE  Target \notin dirs
<1>1. Given /\ idx \in DOMAIN items /\ Target = TargetOf(items[idx])
  BY OnCourseItem
<1> QED
  BY <1>1, TargetFree DEF OnCourse

(* What a copy reads is what the patch set says. *)
LEMMA OpenFileCourse ==
  ASSUME MFInv, Wanted, OnCourse, OpenFile
  PROVE  OnCourse'
<1>1. /\ stage = "write" /\ Item.op # "rename" /\ idx <= Len(items)
      /\ Item.op \in {"create", "modify", "copy"}
      /\ UNCHANGED <<fixed, idx, dirs, fault>>
  BY WhileAtWork DEF OpenFile, AtWork
<1>2. Item' = Item /\ start' = start /\ items' = items /\ Targets' = Targets
  BY <1>1, SameItem, WantedStays DEF fixed
<1>3. Target \notin dirs
  BY <1>1, TargetIsNoDirectory
<1>4. Item.op = "copy" => Source \in DOMAIN tree /\ tree[Source] = Item.patch.from
  BY <1>1, SourceAsAtStart
<1>5. idx \in DOMAIN items /\ Item = items[idx]
  BY <1>1, OnCourseItem
<1>6. Item.op = "copy" => Item.patch.from = Item.patch.to
  BY <1>5 DEF Wanted, PureMoves
<1>7. /\ tree' = Stored(Target, Torn) /\ stage' = "fill" /\ UNCHANGED result
      /\ patched' = IF Item.op = "copy" THEN tree[Source] ELSE patched
  <2>1. Item.op = "copy" => Source # Target
    BY <1>1, OnCourseItem DEF Applicable
  <2> QED
    BY <1>1, <1>3, <1>4, <2>1 DEF OpenFile, IsFile
<1>8. patched' = Item.patch.to
  BY <1>1, <1>4, <1>6, <1>7 DEF OnCourse
<1>9. \A p : p # Target => (p \in DOMAIN tree' <=> p \in DOMAIN tree)
                            /\ (p \in DOMAIN tree => tree'[p] = tree[p])
  BY <1>7 DEF Stored
<1>10. /\ (\A i \in DOMAIN items : i < idx => Carried(tree, items[i]))'
       /\ AsAtStart' /\ (DOMAIN tree \subseteq DOMAIN start \cup Targets)'
  BY <1>1, <1>7, <1>9, ItemStays DEF ElsewhereSame
<1>11. \A q \in dirs' : \E p \in DOMAIN start' \cup Targets' : q \in Parents(p)
  BY <1>1, <1>2 DEF OnCourse
<1> QED
  BY <1>1, <1>2, <1>7, <1>8, <1>10, <1>11 DEF OnCourse

(* The target is what the patch set says; a source under another name is
   still there. *)
LEMMA FillFileCourse ==
  ASSUME MFInv, Wanted, OnCourse, FillFile
  PROVE  OnCourse'
<1>1. /\ stage = "fill" /\ idx <= Len(items) /\ Item.op \in {"create", "modify", "copy"}
      /\ UNCHANGED <<fixed, dirs, patched, result, fault>>
      /\ Target \in DOMAIN tree
  BY WhileAtWork DEF FillFile, AtWork, MFInv, InHand
<1>2. Source = SourceOf(Item) /\ Target = TargetOf(Item) /\ Applicable(Item)
  BY <1>1, OnCourseItem
<1>3. tree' = Stored(Target, patched) /\ patched = Item.patch.to
  BY <1>1 DEF FillFile, OnCourse
<1>4. /\ DOMAIN tree' = DOMAIN tree /\ tree'[Target] = Item.patch.to
      /\ \A p \in DOMAIN tree : p # Target => tree'[p] = tree[p]
  BY <1>1, <1>3 DEF Stored
<1>5. ElsewhereSame
  BY <1>4 DEF ElsewhereSame
<1>6. CASE Item.op = "modify" /\ Source # Target
  <2>1. stage' = "remove" /\ idx' = idx
    BY <1>6 DEF FillFile
  <2>2. Item' = Item /\ start' = start /\ items' = items /\ Targets' = Targets
    BY <1>1, <2>1, SameItem, WantedStays DEF fixed
  <2>3. /\ (\A i \in DOMAIN items : i < idx => Carried(tree, items[i]))'
        /\ AsAtStart' /\ (DOMAIN tree \subseteq DOMAIN start \cup Targets)'
    BY <1>1, <1>4, <1>5, <2>1, ItemStays
  <2>4. \A q \in dirs' : \E p \in DOMAIN start' \cup Targets' : q \in Parents(p)
    BY <1>1, <2>2 DEF OnCourse
  <2> QED
    BY <1>1, <1>3, <2>1, <2>2, <2>3, <2>4 DEF OnCourse
<1>7. CASE ~(Item.op = "modify" /\ Source # Target)
  <2>1. stage' = "next" /\ idx' = idx + 1
    BY <1>7 DEF FillFile, Continue
  <2>2. ASSUME Item.op = "copy"
        PROVE  Source \in DOMAIN start /\ Source \in DOMAIN tree' /\ tree'[Source] = start[Source]
    <3>1. Source # Target
      BY <1>2, <2>2 DEF Applicable
    <3>2. Source \in DOMAIN start /\ Source \in DOMAIN tree /\ tree[Source] = start[Source]
      BY <1>1, <2>2, <3>1, SourceAsAtStart
    <3> QED
      BY <1>4, <3>1, <3>2
  <2>3. Carried(tree', Item)
    BY <1>1, <1>2, <1>4, <1>7, <2>2 DEF Carried
  <2> QED
    BY <1>1, <1>4, <1>5, <2>1, <2>3, ItemDone
<1> QED
  BY <1>6, <1>7

(* The item is done with its old name. *)
LEMMA RemoveSourceCourse ==
  ASSUME MFInv, Wanted, OnCourse, RemoveSource
  PROVE  OnCourse'
<1>1. /\ stage = "remove" /\ idx <= Len(items)
      /\ UNCHANGED <<fixed, dirs, patched, result, fault>>
      /\ tree' = Removed(Source) /\ stage' = "next" /\ idx' = idx + 1
  BY WhileAtWork DEF RemoveSource, Continue, AtWork
<1>2. /\ Item.op = "modify" /\ Source # Target /\ Target \in DOMAIN tree
      /\ tree[Target] = Item.patch.to
  BY <1>1 DEF MFInv, InHand, OnCourse
<1>3. Source = SourceOf(Item) /\ Target = TargetOf(Item)
  BY <1>1, OnCourseItem
<1>4. DOMAIN tree' = DOMAIN tree \ {Source} /\ \A p \in DOMAIN tree' : tree'[p] = tree[p]
  BY <1>1 DEF Removed
<1>5. ElsewhereSame
  BY <1>4 DEF ElsewhereSame
<1>6. Carried(tree', Item)
  BY <1>2, <1>3, <1>4 DEF Carried
<1> QED
  BY <1>1, <1>4, <1>5, <1>6, ItemDone

(* The renamed file has what the patch set says. *)
LEMMA RenameFileCourse ==
  ASSUME MFInv, Wanted, OnCourse, RenameFile
  PROVE  OnCourse'
<1>1. /\ stage = "write" /\ Item.op = "rename" /\ idx <= Len(items)
      /\ UNCHANGED <<fixed, dirs, patched, fault>>
  BY WhileAtWork DEF RenameFile, AtWork
<1>2. /\ Source = SourceOf(Item) /\ Target = TargetOf(Item) /\ Applicable(Item)
      /\ idx \in DOMAIN items /\ Item = items[idx]
  BY <1>1, OnCourseItem
<1>3. Source # Target /\ Item.patch.from = Item.patch.to
  BY <1>1, <1>2 DEF Applicable, Wanted, PureMoves
<1>4. Source \in DOMAIN tree /\ tree[Source] = Item.patch.from
  BY <1>1, SourceAsAtStart
<1>5. Target \notin dirs
  BY <1>1, TargetIsNoDirectory
<1>6. /\ tree' = [p \in DOMAIN Removed(Source) \cup {Target} |->
                    IF p = Target THEN tree[Source] ELSE tree[p]]
      /\ stage' = "next" /\ idx' = idx + 1
  BY <1>4, <1>5 DEF RenameFile, Continue, IsFile
<1>7. /\ DOMAIN tree' = (DOMAIN tree \ {Source}) \cup {Target}
      /\ tree'[Target] = tree[Source]
      /\ \A p \in DOMAIN tree' : p # Target => tree'[p] = tree[p]
  BY <1>6 DEF Removed
<1>8. ElsewhereSame
  BY <1>7 DEF ElsewhereSame
<1>9. Carried(tree', Item)
  BY <1>1, <1>2, <1>3, <1>4, <1>7 DEF Carried
<1> QED
  BY <1>1, <1>6, <1>7, <1>8, <1>9, ItemDone

(* The tree stays a function from paths. *)
LEMMA StaysFunction ==
  ASSUME IsFunction, [Next]_mvars
  PROVE  IsFunction'
<1>1. CASE tree' = tree
  BY <1>1 DEF IsFunction
<1>2. CASE tree' # tree
  <2>1. Next
    BY <1>2 DEF mvars
  <2>2. \/ tree' = Removed(Target) \/ tree' = Removed(Source)
        \/ tree' = Stored(Target, Torn) \/ tree' = Stored(Target, patched)
        \/ tree' = [p \in DOMAIN Removed(Source) \cup {Target} |->
                      IF p = Target THEN tree[Source] ELSE tree[p]]
        \/ tree' = [p \in Moved(DOMAIN tree, Source, Target) |->
                      IF IsPrefix(Target, p) THEN tree[MovedPath(p, Target, Source)] ELSE tree[p]]
    BY <1>2, <2>1 DEF Next, Finish, ItemError, DeleteFile, SkipMarker, ApplyPatch, MoveFile,
       MakeParents, OpenFile, FillFile, RemoveSource, RenameFile, RenameDirectory, IOError
  <2> QED
    BY <2>2 DEF IsFunction, Removed, Stored
<1> QED
  BY <1>1, <1>2

(* Every step keeps a run on its course. *)
LEMMA NextCourse == CourseInv /\ [Next]_mvars => CourseInv'
<1> SUFFICES ASSUME CourseInv, [Next]_mvars PROVE CourseInv'
  OBVIOUS
<1>1. TreeInv' /\ IsFunction'
  BY NextTreeInv, StaysFunction DEF CourseInv
<1>2. UNCHANGED fixed
  BY DEF mvars, fixed, Next, Finish, ItemError, DeleteFile, SkipMarker, ApplyPatch, MoveFile,
     MakeParents, OpenFile, FillFile, RemoveSource, RenameFile, RenameDirectory, IOError
<1>3. Wanted' = Wanted
  BY <1>2, WantedStays
<1>4. ASSUME Wanted, ~fault' PROVE OnCourse'
  <2>1. ~IOError
    BY <1>4 DEF IOError
  <2>2. ~fault
    BY <1>4, <2>1 DEF mvars, Next, Finish, ItemError, DeleteFile, SkipMarker, ApplyPatch, MoveFile,
       MakeParents, OpenFile, FillFile, RemoveSource, RenameFile, RenameDirectory
  <2>3. MFInv /\ OnCourse
    BY <1>4, <2>2 DEF CourseInv, TreeInv
  <2>4. CASE UNCHANGED mvars
    BY <2>3, <2>4 DEF mvars, OnCourse, AsAtStart, Ahead, Carried, Targets, Item, Target, Source,
       SourceOf, TargetOf, FileOf, Touched
  <2>5. ~ItemError /\ ~SkipMarker
    BY <1>4, <2>3, OnCourseItem DEF ItemError, SkipMarker, HasItem
  <2>6. ~RenameDirectory
    <3> SUFFICES ASSUME RenameDirectory PROVE FALSE
      OBVIOUS
    <3>1. stage = "write" /\ Item.op = "rename" /\ Source \in dirs /\ idx <= Len(items)
      BY <2>3, WhileAtWork DEF RenameDirectory, AtWork
    <3>2. Source \in DOMAIN tree
      BY <1>4, <2>3, <3>1, SourceAsAtStart
    <3> QED
      BY <2>3, <3>1, <3>2 DEF MFInv, TypeOK
  <2> QED
    BY <1>4, <2>1, <2>3, <2>4, <2>5, <2>6, FinishCourse, DeleteFileCourse, ApplyPatchCourse,
       MoveFileCourse, MakeParentsCourse, OpenFileCourse, FillFileCourse,
       RemoveSourceCourse, RenameFileCourse DEF Next
<1> QED
  BY <1>1, <1>3, <1>4 DEF CourseInv

(* A run always is on its course, unless a call fails. *)
LEMMA CourseHolds == Spec => []CourseInv
BY InitCourse, NextCourse, PTL DEF Spec

-----------------------------------------------------------------------------
(* The end of a run *)

Written == {i \in DOMAIN items : items[i].op # "delete"}
Gone == {SourceOf(items[i]) : i \in {j \in DOMAIN items : items[j].op \in {"delete", "rename", "modify"}}}
NewFiles == {TargetOf(items[i]) : i \in Written}

(* What has become of a file that no item writes. *)
LEMMA OldFiles ==
  ASSUME MFInv, Wanted, OnCourse, stage = "done", NEW p, p \notin NewFiles
  PROVE  /\ p \in DOMAIN tree <=> p \in DOMAIN start \ Gone
         /\ p \in DOMAIN tree => tree[p] = start[p]
<1>1. Given /\ idx \in Nat /\ idx > Len(items)
  BY DEF MFInv, TypeOK, OnCourse
<1>2. \A i \in DOMAIN items : i < idx
  BY <1>1, MultiFileAssumption DEF Given
<1>3. CASE \E i \in DOMAIN items : p \in Touched(items[i])
  <2>1. PICK i \in DOMAIN items : p \in Touched(items[i])
    BY <1>3
  <2> DEFINE item == items[i]
  <2>2. /\ item \in FilePatch /\ Applicable(item) /\ item.op # "error"
        /\ Touched(item) = {SourceOf(item), TargetOf(item)}
    BY <1>1, ItemOfSet
  <2>3. Carried(tree, item)
    BY <1>2 DEF OnCourse
  <2>4. item.op # "delete" => p # TargetOf(item)
    BY DEF NewFiles, Written
  <2>5. p \in Gone => item.op \in {"delete", "rename", "modify"}
    <3>1. SUFFICES ASSUME p \in Gone PROVE item.op \in {"delete", "rename", "modify"}
      OBVIOUS
    <3>2. PICK j \in DOMAIN items : p = SourceOf(items[j]) /\ items[j].op \in {"delete", "rename", "modify"}
      BY <3>1 DEF Gone
    <3>3. p \in Touched(items[j])
      BY <1>1, <3>2, ItemOfSet
    <3>4. i = j
      BY <1>1, <2>1, <3>3, NoFileTwice
    <3> QED
      BY <3>2, <3>4
  <2>6. item.op \in {"delete", "rename", "modify"} => SourceOf(item) \in Gone
    BY DEF Gone
  <2>7. item.op \in {"create", "delete", "modify", "rename", "copy"}
    BY <2>2 DEF FilePatch
  <2> HIDE DEF item
  <2>8. CASE item.op = "delete"
    <3>1. SourceOf(item) = TargetOf(item)
      BY <2>2, <2>8 DEF Applicable
    <3>2. p = SourceOf(item)
      BY <2>1, <2>2, <3>1 DEF item
    <3> QED
      BY <2>3, <2>6, <2>8, <3>2 DEF Carried
  <2>9. CASE item.op # "delete"
    <3>1. p = SourceOf(item) /\ p # TargetOf(item)
      BY <2>1, <2>2, <2>4, <2>9 DEF item
    <3>2. item.op # "create"
      BY <2>2, <3>1 DEF Applicable
    <3>3. CASE item.op = "copy"
      BY <2>3, <2>5, <3>1, <3>3 DEF Carried
    <3>4. CASE item.op \in {"rename", "modify"}
      BY <2>3, <2>6, <3>1, <3>4 DEF Carried
    <3> QED
      BY <2>7, <2>9, <3>2, <3>3, <3>4
  <2> QED
    BY <2>8, <2>9
<1>4. CASE ~\E i \in DOMAIN items : p \in Touched(items[i])
  <2>1. Ahead(p)
    BY <1>4 DEF Ahead
  <2>2. p \in DOMAIN start \cup DOMAIN tree => p \in DOMAIN start /\ p \in DOMAIN tree /\ tree[p] = start[p]
    BY <2>1 DEF OnCourse, AsAtStart
  <2>3. p \notin Gone
    BY <1>1, <1>4, ItemOfSet DEF Gone
  <2> QED
    BY <2>2, <2>3
<1> QED
  BY <1>3, <1>4

(* The files that the items write are what the patch set says. *)
LEMMA WrittenFiles ==
  ASSUME MFInv, OnCourse, stage = "done", NEW p \in NewFiles,
         NEW i \in Written, TargetOf(items[i]) = p
  PROVE  p \in DOMAIN tree /\ tree[p] = items[i].patch.to
<1>1. Given /\ idx \in Nat /\ idx > Len(items)
  BY DEF MFInv, TypeOK, OnCourse
<1>2. i \in DOMAIN items /\ i < idx /\ items[i].op # "delete"
  BY <1>1, MultiFileAssumption DEF Given, Written
<1>3. Carried(tree, items[i])
  BY <1>2 DEF OnCourse
<1> QED
  BY <1>2, <1>3 DEF Carried

(* A run without a failing call, over a patch set for these files that     *)
(* names none of them twice and whose renames and copies change nothing    *)
(* else, succeeds and leaves the files that the whole patch set describes. *)
THEOREM PureMovesApplied == Spec => []AppliesPureMoves
<1>1. CourseInv => AppliesPureMoves
  <2> SUFFICES ASSUME CourseInv, Wanted, stage = "done", ~fault
               PROVE  result = "ok" /\ tree = WholeChange
    BY DEF AppliesPureMoves, Applies, Wanted
  <2>1. MFInv /\ IsFunction /\ OnCourse
    BY DEF CourseInv, TreeInv
  <2>2. result = "ok"
    BY <2>1 DEF OnCourse
  <2> DEFINE content(p) ==
        IF p \in NewFiles
        THEN items[CHOOSE i \in Written : TargetOf(items[i]) = p].patch.to
        ELSE start[p]
  <2>3. WholeChange = [p \in (DOMAIN start \ Gone) \cup NewFiles |-> content(p)]
    BY DEF WholeChange, Gone, NewFiles, Written
  <2>4. ASSUME NEW p \in NewFiles PROVE p \in DOMAIN tree /\ tree[p] = content(p)
    <3>1. \E i \in Written : TargetOf(items[i]) = p
      BY <2>4 DEF NewFiles
    <3> DEFINE i == CHOOSE n \in Written : TargetOf(items[n]) = p
    <3>2. i \in Written /\ TargetOf(items[i]) = p
      BY <3>1
    <3>3. p \in DOMAIN tree /\ tree[p] = items[i].patch.to
      BY <2>1, <2>4, <3>2, WrittenFiles
    <3> QED
      BY <2>4, <3>3
  <2>5. \A p : p \notin NewFiles => /\ p \in DOMAIN tree <=> p \in DOMAIN start \ Gone
                                    /\ p \in DOMAIN tree => tree[p] = content(p)
    BY <2>1, OldFiles
  <2> HIDE DEF content
  <2>6. DOMAIN tree = (DOMAIN start \ Gone) \cup NewFiles
    BY <2>4, <2>5
  <2>7. \A p \in DOMAIN tree : tree[p] = content(p)
    BY <2>4, <2>5
  <2>8. [p \in DOMAIN tree |-> tree[p]] = [p \in DOMAIN tree |-> content(p)]
    BY <2>7
  <2>9. tree = WholeChange
    BY <2>1, <2>3, <2>6, <2>8 DEF IsFunction
  <2> QED
    BY <2>2, <2>9
<1> QED
  BY <1>1, CourseHolds, PTL

===============================================================================
