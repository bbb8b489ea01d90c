--------------------------- MODULE MultiFileApply ---------------------------
(***************************************************************************)
(* examples/apply.rs: apply_patch_file() carries out the file operations   *)
(* of a patch set one after the other on a directory.  Each call of        *)
(* std::fs is a step, and a write is two, since a file is truncated before *)
(* it is filled; any of them may fail, and the run then ends where it is.  *)
(* A path is the row of its components.                                    *)
(***************************************************************************)
EXTENDS Integers, SequencesExt

CONSTANTS
  Name,       \* the components of paths
  Contents,   \* of files; Empty is one of them
  Empty,
  Torn,       \* what is in a file that is written to
  Other,      \* the outcome of a patch that fits contents it was not made of
  Trees,      \* the directories to start from, as functions from paths
  ItemLists   \* what the patch set yields: file patches and errors

Failed == "failed"   \* the outcome of a patch that does not fit

Parents(path) == {SubSeq(path, 1, n) : n \in 1..Len(path) - 1}

FilePatch ==
  {item \in [op : {"error", "create", "delete", "modify", "rename", "copy"},
             from : Seq(Name), to : Seq(Name),
             patch : [kind : {"change", "literal", "marker"}, from : Contents, to : Contents]] :
     item.op # "error" => item.from # <<>> /\ item.to # <<>>}

(* In a directory no file is where another one has its directories. *)
ASSUME MultiFileAssumption ==
  /\ Empty \in Contents
  /\ Torn \notin Contents /\ Other \notin Contents /\ Torn # Other
  /\ Failed \notin Contents
  /\ \A files \in Trees :
       /\ DOMAIN files \subseteq Seq(Name) \ {<<>>} /\ files \in [DOMAIN files -> Contents]
       /\ \A p \in DOMAIN files : Parents(p) \cap DOMAIN files = {}
  /\ ItemLists \subseteq Seq(FilePatch)

VARIABLES
  start,      \* history: the files at the start
  items, idx,
  tree, dirs, \* the files and the directories now
  stage,      \* "next", "mkdir", "write", "fill", "remove" or "done"
  patched,    \* what is to be written
  result,     \* "none", "ok" or "error"
  fault       \* history: did a call fail that could have succeeded?

mvars == <<start, items, idx, tree, dirs, stage, patched, result, fault>>
fixed == <<start, items>>

-----------------------------------------------------------------------------
(* Paths and std::fs *)

(* FileOperation::strip_prefix: a path keeps at least its last component. *)
StripPrefix(path, n) == SubSeq(path, Min({n + 1, Len(path)}), Len(path))

IsFile(path) == path \in DOMAIN tree

Removed(path) == [p \in DOMAIN tree \ {path} |-> tree[p]]
Stored(path, content) ==
  [p \in DOMAIN tree \cup {path} |-> IF p = path THEN content ELSE tree[p]]

(* Where a path is when `from`, which is in front of it, has become `to`.  *)
MovedPath(path, from, to) == to \o SubSeq(path, Len(from) + 1, Len(path))
Moved(paths, from, to) ==
  {p \in paths : ~IsPrefix(from, p)}
  \cup {MovedPath(p, from, to) : p \in {q \in paths : IsPrefix(from, q)}}

-----------------------------------------------------------------------------
(* The item at hand *)

Item == items[idx]

(* Mutated Strip. *)
StripOne(item) == 1

(* Only the paths of rename and copy headers come without a/ and b/. *)
Strip(item) == IF item.op \in {"rename", "copy"} THEN 0 ELSE 1

Source == StripPrefix(Item.from, Strip(Item))
Target == StripPrefix(Item.to, Strip(Item))

(***************************************************************************)
(* apply_bytes and BinaryPatch::apply, of which the modules ApplyPatch and *)
(* BinaryApply have the detail: a patch leads from the contents it was     *)
(* made of to others, a literal block from any; on contents that are not   *)
(* its own a patch fails or, finding its lines elsewhere, fits.            *)
(***************************************************************************)
Outcomes(patch, base) ==
  IF patch.kind = "literal" \/ base = patch.from THEN {patch.to} ELSE {Failed, Other}

Base == IF Item.op = "create" THEN Empty ELSE tree[Source]

Stop(outcome) == stage' = "done" /\ result' = outcome

Continue == stage' = "next" /\ idx' = idx + 1

-----------------------------------------------------------------------------

Init ==
  /\ start \in Trees /\ items \in ItemLists
  /\ tree = start /\ dirs = UNION {Parents(p) : p \in DOMAIN start}
  /\ idx = 1 /\ stage = "next" /\ patched = Empty /\ result = "none" /\ fault = FALSE

Finish ==
  /\ stage = "next" /\ idx > Len(items)
  /\ Stop("ok")
  /\ UNCHANGED <<fixed, idx, tree, dirs, patched, fault>>

HasItem == stage = "next" /\ idx <= Len(items)

(* `file_patch?` *)
ItemError ==
  /\ HasItem /\ Item.op = "error"
  /\ Stop("error")
  /\ UNCHANGED <<fixed, idx, tree, dirs, patched, fault>>

DeleteFile ==
  /\ HasItem /\ Item.op = "delete"
  /\ IF IsFile(Target)
     THEN tree' = Removed(Target) /\ Continue /\ UNCHANGED result
     ELSE Stop("error") /\ UNCHANGED <<tree, idx>>
  /\ UNCHANGED <<fixed, dirs, patched, fault>>

SkipMarker ==
  /\ HasItem /\ Item.op \in {"create", "modify"} /\ Item.patch.kind = "marker"
  /\ Continue
  /\ UNCHANGED <<fixed, tree, dirs, patched, result, fault>>

ApplyPatch ==
  /\ HasItem /\ Item.op \in {"create", "modify"} /\ Item.patch.kind # "marker"
  /\ IF Item.op = "modify" /\ ~IsFile(Source) THEN Stop("error") /\ UNCHANGED patched
     ELSE \E outcome \in Outcomes(Item.patch, Base) :
            IF outcome = Failed THEN Stop("error") /\ UNCHANGED patched
            ELSE patched' = outcome /\ stage' = "mkdir" /\ UNCHANGED result
  /\ UNCHANGED <<fixed, idx, tree, dirs, fault>>

(* Whatever the item's patch says, only the file is moved or copied. *)
MoveFile ==
  /\ HasItem /\ Item.op \in {"rename", "copy"}
  /\ stage' = "mkdir"
  /\ UNCHANGED <<fixed, idx, tree, dirs, patched, result, fault>>

(* Mutated MakeParents. *)
MakeParentsUnchecked ==
  /\ stage = "mkdir"
  /\ dirs' = dirs \cup Parents(Target)
  /\ stage' = "write"
  /\ UNCHANGED <<fixed, idx, tree, patched, result, fault>>

(* create_parent_dirs *)
MakeParents ==
  /\ stage = "mkdir"
  /\ IF Parents(Target) \cap DOMAIN tree # {}
     THEN Stop("error") /\ UNCHANGED dirs
     ELSE /\ dirs' = dirs \cup Parents(Target)
          /\ stage' = "write" /\ UNCHANGED result
  /\ UNCHANGED <<fixed, idx, tree, patched, fault>>

(* fs::write and fs::copy open the file, which truncates it (a file that is
   copied onto itself is empty from then on) ... *)
OpenFile ==
  /\ stage = "write" /\ Item.op # "rename"
  /\ IF Target \in dirs \/ (Item.op = "copy" /\ ~IsFile(Source))
     THEN Stop("error") /\ UNCHANGED <<tree, patched>>
     ELSE /\ tree' = Stored(Target, Torn)
          /\ patched' = IF Item.op # "copy" THEN patched
                        ELSE IF Source = Target THEN Empty ELSE tree[Source]
          /\ stage' = "fill" /\ UNCHANGED result
  /\ UNCHANGED <<fixed, idx, dirs, fault>>

(* Mutated FillFile. *)
FillFileOnly ==
  /\ stage = "fill"
  /\ tree' = Stored(Target, patched)
  /\ Continue
  /\ UNCHANGED <<fixed, dirs, patched, result, fault>>

(* ... and fill it. *)
FillFile ==
  /\ stage = "fill"
  /\ tree' = Stored(Target, patched)
  /\ IF Item.op = "modify" /\ Source # Target
     THEN stage' = "remove" /\ UNCHANGED idx
     ELSE Continue
  /\ UNCHANGED <<fixed, dirs, patched, result, fault>>

RemoveSource ==
  /\ stage = "remove"
  /\ tree' = Removed(Source)
  /\ Continue
  /\ UNCHANGED <<fixed, dirs, patched, result, fault>>

(* Mutated RenameFile. *)
RenameFileLate ==
  /\ stage = "write" /\ Item.op = "rename" /\ Source \notin dirs
  /\ IF IsFile(Source) /\ Target \notin dirs
     THEN /\ tree' = Removed(Source) /\ patched' = tree[Source]
          /\ stage' = "fill" /\ UNCHANGED result
     ELSE Stop("error") /\ UNCHANGED <<tree, patched>>
  /\ UNCHANGED <<fixed, idx, dirs, fault>>

RenameFile ==
  /\ stage = "write" /\ Item.op = "rename" /\ Source \notin dirs
  /\ IF IsFile(Source) /\ Target \notin dirs
     THEN /\ tree' = [p \in DOMAIN Removed(Source) \cup {Target} |->
                        IF p = Target THEN tree[Source] ELSE tree[p]]
          /\ Continue /\ UNCHANGED result
     ELSE Stop("error") /\ UNCHANGED <<tree, idx>>
  /\ UNCHANGED <<fixed, dirs, patched, fault>>

(* fs::rename also moves a directory, with all that is below it, to where  *)
(* there is nothing or an empty directory, and not into itself.            *)
CanMoveDirectory ==
  \/ Source = Target
  \/ /\ ~IsPrefix(Source, Target) /\ ~IsFile(Target)
     /\ \A p \in DOMAIN tree \cup dirs : ~IsStrictPrefix(Target, p)

RenameDirectory ==
  /\ stage = "write" /\ Item.op = "rename" /\ Source \in dirs
  /\ IF CanMoveDirectory
     THEN /\ tree' = [p \in Moved(DOMAIN tree, Source, Target) |->
                        IF IsPrefix(Target, p) THEN tree[MovedPath(p, Target, Source)] ELSE tree[p]]
          /\ dirs' = Moved(dirs, Source, Target)
          /\ Continue /\ UNCHANGED result
     ELSE Stop("error") /\ UNCHANGED <<tree, dirs, idx>>
  /\ UNCHANGED <<fixed, patched, fault>>

(* Mutated IOError. *)
IOErrorSwallowed ==
  /\ stage = "fill"
  /\ Continue /\ fault' = TRUE
  /\ UNCHANGED <<fixed, tree, dirs, patched, result>>

(* A call fails: no permission, no space, the disk. *)
IOError ==
  /\ \/ stage \in {"mkdir", "write", "fill", "remove"}
     \/ HasItem /\ Item.op \in {"delete", "modify"}
  /\ Stop("error") /\ fault' = TRUE
  /\ UNCHANGED <<fixed, idx, tree, dirs, patched>>

Next ==
  \/ Finish \/ ItemError \/ DeleteFile \/ SkipMarker \/ ApplyPatch \/ MoveFile
  \/ MakeParents \/ OpenFile \/ FillFile \/ RemoveSource
  \/ RenameFile \/ RenameDirectory \/ IOError

Spec == Init /\ [][Next]_mvars /\ WF_mvars(Next)

-----------------------------------------------------------------------------
(* Properties *)

(* The tree is one: a path is a file or a directory, in directories. *)
TypeOK ==
  /\ \A p \in DOMAIN tree : tree[p] \in Contents \cup {Torn, Other}
  /\ DOMAIN tree \cap dirs = {}
  /\ \A p \in DOMAIN tree \cup dirs : Parents(p) \subseteq dirs
  /\ idx \in 1..Len(items) + 1
  /\ stage \in {"next", "mkdir", "write", "fill", "remove", "done"}
  /\ result \in {"none", "ok", "error"}

(* The files an item is about: those of ---/+++ have a/ and b/ in front,   *)
(* unless they are nothing but a name.                                     *)
FileOf(item, path) ==
  IF item.op \in {"rename", "copy"} \/ Len(path) = 1 THEN path ELSE Tail(path)
SourceOf(item) == FileOf(item, item.from)
TargetOf(item) == FileOf(item, item.to)
Touched(item) == IF item.op = "error" THEN {} ELSE {SourceOf(item), TargetOf(item)}

(* A rename, which may be one of a directory, also reaches what is below.  *)
Reaches(item, p) ==
  \E q \in Touched(item) : p = q \/ (item.op = "rename" /\ IsPrefix(q, p))

(***************************************************************************)
(* Wherever the run stops, it has not touched a file that only later items *)
(* reach, and at most the one file it was writing is torn; none is when it *)
(* succeeds.                                                               *)
(***************************************************************************)
StopsInOneFile ==
  /\ \A p \in DOMAIN start \cup DOMAIN tree :
       (\A i \in 1..Min({idx, Len(items)}) : ~Reaches(items[i], p)) =>
         /\ p \in DOMAIN start /\ p \in DOMAIN tree
         /\ tree[p] = start[p]
  /\ \A p \in DOMAIN tree :
       tree[p] = Torn => result # "ok" /\ idx <= Len(items) /\ p = TargetOf(Item)

(***************************************************************************)
(* A file that is moved, by itself or with the directory it is in, is      *)
(* never lost on the way: until it is complete at its new place, it is     *)
(* still at its old one with what it held.                                 *)
(***************************************************************************)
Moving == Item.op = "rename" \/ (Item.op = "modify" /\ Source # Target)
KeepsASource ==
  [][idx <= Len(items) /\ Moving =>
       \A p \in DOMAIN tree \ DOMAIN tree' :
         IsPrefix(Source, p) =>
           LET there == MovedPath(p, Source, Target)
           IN  /\ there \in DOMAIN tree'
               /\ tree'[there] = IF Item.op = "rename" THEN tree[p] ELSE patched]_mvars

-----------------------------------------------------------------------------
(* What the patch set says, read as one change of all the files at once *)

Applicable(item) ==
  LET source == SourceOf(item)
      fits == source \in DOMAIN start /\ start[source] = item.patch.from
  IN  /\ item.op # "error" /\ item.patch.kind # "marker"
      /\ item.op = "create" => item.patch.from = Empty
      /\ item.op # "create" => fits
      /\ source # TargetOf(item) =>
           /\ item.op \notin {"create", "delete"}
           /\ ~IsPrefix(source, TargetOf(item))
      /\ item.op \in {"rename", "copy"} => source # TargetOf(item)
      /\ \A p \in DOMAIN start : ~IsStrictPrefix(p, TargetOf(item))
      /\ \A p \in DOMAIN start : ~IsStrictPrefix(TargetOf(item), p)

Independent ==
  \A i, j \in DOMAIN items : i # j =>
    \A p \in Touched(items[i]), q \in Touched(items[j]) : ~IsPrefix(p, q)

WholeChange ==
  LET written == {i \in DOMAIN items : items[i].op # "delete"}
      gone == {SourceOf(items[i]) : i \in {j \in DOMAIN items : items[j].op \in {"delete", "rename", "modify"}}}
      targets == {TargetOf(items[i]) : i \in written}
  IN  [p \in (DOMAIN start \ gone) \cup targets |->
         IF p \in targets
         THEN items[CHOOSE i \in written : TargetOf(items[i]) = p].patch.to
         ELSE start[p]]

Applies ==
  /\ \A i \in DOMAIN items : Applicable(items[i])
  /\ Independent
  /\ stage = "done" /\ ~fault
  => result = "ok" /\ tree = WholeChange

(***************************************************************************)
(* "Applies a git-format patch file to a target directory": a patch set    *)
(* for these files, in which no file is named twice, leads to the files    *)
(* that it describes ... of renames and copies that change nothing else.   *)
(***************************************************************************)
PureMoves ==
  \A i \in DOMAIN items :
    items[i].op \in {"rename", "copy"} => items[i].patch.from = items[i].patch.to
AppliesPureMoves == PureMoves => Applies

=============================================================================
