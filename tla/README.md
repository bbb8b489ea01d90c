# diffy in TLA+

A verification project for [diffy](../src/README.md), the Rust library that makes, writes, parses, applies
and merges text patches. The library is sequential: there are no threads, no clocks and nothing is
persisted. What is hard about it is long loops that rewrite data in place behind an index, arithmetic at
the edges of texts, parsers that decide line by line what a line means, and stages that rely on each
other's output without checking it. Those loops are the state machines modelled here.

Paths below are relative to `src/` of the repository; `src/diff/myers.rs` is `src/src/diff/myers.rs` in
`PROJECT.json`.

## 1. The system

| Component | State it keeps | Operations | Used by / uses |
|---|---|---|---|
| `utils.rs` classifier | a map from lines to ids | `classify_lines` | feeds ids to the diff; two equal lines get one id, numbered by first occurrence across all texts |
| `range.rs` | none: `Range`, `DiffRange` values | slicing, growing, shrinking, common prefix and suffix | everything below |
| `diff/myers.rs` | the `solution` vector, two V arrays shared by all recursive searches | `diff`, `conquer`, `find_middle_snake` | called by `diff_slice` |
| `diff/cleanup.rs` | the `solution` vector, one index into it | `compact`, `shift_diff_up`, `shift_diff_down` | called by `diff_slice` on the result of `diff` |
| `diff/mod.rs` | options; while hunks are made: the edit script, the open hunk | `diff_slice`, `create_patch`, `to_hunks`, `build_edit_script`, `calc_end` | uses the two above, makes `Hunk`s |
| file names (`utils.rs`, `patch/mod.rs`) | none | quoting, `escaped_filename`, `decode_escaped` | every name that is written or read |
| `patch/mod.rs` | `Patch`, `Hunk`, `HunkRange`, `Line` values | `Hunk::new` (asserts), `reverse` | all patch code |
| `patch/parse.rs` | input, position, three no-newline flags, counts | `parse`, `parse_one` | called by `Patch::from_str` (strict) and by the patch set (lenient) |
| `patch/format.rs` | options of a `PatchFormatter` | `fmt_patch`, `write_patch_into` | inverse of the parser |
| `apply.rs` | the image: lines, each marked patched or not | `apply`, `find_position` | uses the hunks of a patch in order |
| `merge/mod.rs` | two diff iterators, lists of three-way ranges | `merge`, `merge_solutions`, `cleanup_conflicts`, `output_result` | uses `diff_slice` twice against one ancestor |
| `patch_set/parse.rs` | input, `offset`, `found_any`, `finished`, one `GitHeader` | `next` | calls `parse_one` and `parse_binary_patch` at its offset, `parse_diff_git_path` when no other header names the file |
| `binary/` | decoded bytes, inflate state, output buffer, delta cursor | block parser, `apply`, `apply_reverse`: base85, inflate, delta | called by the patch set and by users |
| `examples/apply.rs` | the files of a directory | `apply_patch_file`: applies a patch set file by file and stops at the first error | uses the patch set and `apply` |

Components interact by calls only; what makes the composition fragile is the contract between them:
a *diff* is a shortest list of adjacent ranges that covers both texts; *hunks* are in order, do not
overlap and their ranges count their lines; a *parser* leaves its offset where the next one can start.

### What makes each component correct

* **Myers diff**: no index leaves the V arrays although each search uses only a part of them and none
  clears them; every recursion shrinks; the emitted ranges follow each other in both texts and form a
  shortest edit script.
* **Compaction**: whatever is swapped, merged, inserted or removed, the list remains a diff of the same
  two texts at the same cost; the loops end; the pointer is on an edit of the pass's kind.
* **Hunks**: what the hunks say is exactly the change; as many lines of context above the first edit and
  below the last one as were asked for, unless both texts begin or end there; no line twice; nothing
  underflows at the ends of the texts; `Hunk::new` and the parser's order check accept them.
* **Apply**: a hunk never touches lines that an earlier one wrote; on success every hunk is in; a created
  patch recovers the text it was made for, and its reverse the text it was made from.
* **Merge**: never panics, whatever two diffs it is given; loses no line of any side; gives the text and
  the conflicts of a three-way merge.
* **File names**: whatever bytes a name has, it reads back, if it was written into bytes (shown as a string,
  a name that is quoted and not ASCII does not, see section 3); a `diff --git` line is split where the two
  paths agree, with spaces and quotes in them.
* **Binary patches**: forward and reverse lead to the declared contents; damage is noticed or harmless;
  decoding ends, with a buffer that follows the data and not the header.
* **Multi-file apply**: the files end up as the patch set says; stopped anywhere, at most one file is torn,
  none is touched but those that an item so far names or that are below a path it renames (`fs::rename` moves
  directories, too), and a moved file is never in neither place.
* **Parser, formatter, patch set**: each line is accounted for; a hunk is never silently lost in strict
  mode; what is written reads back; the iterator consumes text with every item, also after an error, and
  tells the patches of several files apart.

## 2. Modules

```
DiffRanges ── Alignments ─┬─ Texts ─┬─ MyersDiff ── (refines) ShortestEditScript
                          │         │      └─ DiffSlice = MyersDiff ; Compact
                          │         └─ Compact
                          ├─ ThreeWayMerge ── Merge
                          └─ SmallTexts        (inputs of the MC modules)
PatchData ── PatchLines (on Alignments) ─┬─ Hunks ─────┐
                                         └─ ApplyPatch ┴─ RoundTrip = Hunks ; ApplyPatch
PatchData, FileNames ── PatchText ─┬─ PatchParser ── FormatRoundTrip = formatter ; parser
FileNames, DiffRanges ── GitPath ──┴─ PatchSet          (INSTANCE PatchParser)
Base85, Delta ── BinaryApply
MultiFileApply

Alignments_proofs ─┬─ MyersDiff_proofs ── DiffSlice_proofs
                   ├─ RoundTrip_proofs                   (with Hunks)
                   ├─ Merge_proofs
                   ├─ PatchParser_proofs                 (with FormatRoundTrip)
                   └─ PatchSet_proofs         (INSTANCE PatchParser_proofs)
MultiFileApply_proofs
```

Where a component is composed of others, the modules are extended and share their variables; `PatchSet`
and the refinement of `ShortestEditScript` are instances.

| Module | Models | Correspondence |
|---|---|---|
| `DiffRanges` | `range.rs` | `Range` and `DiffRange` with their methods, as operators on records; a text is a sequence of line ids |
| `Alignments` | nothing: reference definitions | what a diff of two texts is, edit distance, blocks |
| `ShortestEditScript` | nothing: abstract specification | a script grows item by item and can always be completed at minimal cost |
| `Texts` | the arguments of `diff_slice` | the two texts that `MyersDiff` and `Compact` work on |
| `MyersDiff` | `diff/myers.rs` | the recursion of `conquer` is a stack of tasks; `StartSearch`, `Forward`, `Backward` are `find_middle_snake` one (d, k) iteration at a time on `vf`, `vb`; `Push` is `solution.push` |
| `Compact` | `diff/cleanup.rs` | one action per match arm of the two shifting loops, `Scan` and `EndOfPass` for the outer ones |
| `DiffSlice` | `diff/mod.rs` `diff_slice` | runs `MyersDiff`, then `Compact` on the same `solution`; or `Compact` alone on a given alignment |
| `PatchData` | `patch/mod.rs`, image helpers of `apply.rs`, `verify_hunks_in_order` | operators on lines and hunks |
| `PatchLines` | `Hunk` and `Line` of `patch/mod.rs` | the sets of hunks whose lines are line ids |
| `Hunks` | `diff/mod.rs` `to_hunks` | the labelled loop as `OpenHunk`, `MergeEdit`, `CloseHunk` |
| `ApplyPatch` | `apply.rs` | one step per hunk: the interleaved search outwards from the new range's line, then the splice |
| `RoundTrip` | `create_patch` and `apply` | hunks are made, possibly reversed, then applied; or a given patch is applied to a given text |
| `ThreeWayMerge` | nothing: reference definition | diff3 on matched lines |
| `Merge` | `merge/mod.rs` | the four stages; one step per iteration of each |
| `FileNames` | `utils.rs`, `Filename` of `patch/mod.rs` | quoting (`WrittenName` into bytes, `ShownName` into a string) and unquoting of a sequence of bytes, errors included |
| `PatchText` | `patch/format.rs`, line tests of `patch/parse.rs` | a line is a sign (`-`, `+`, `space`, `\\`, `@@`, any other `@`, or `none`), a start that some parser looks for, the rest, and whether it ends in a newline; a hunk header also has its ranges |
| `PatchParser` | `patch/parse.rs` | one action per outcome of a loop iteration, errors included; `pos` is the consumed length |
| `FormatRoundTrip` | both | the initial text is what the formatter writes for one of `Writings`, a patch and a formatter with its options and its output, string or bytes |
| `GitPath` | `parse_diff_git_path` of `patch_set/parse.rs` | the two paths of a line, quoted or not |
| `PatchSet` | rest of `patch_set/parse.rs`, block parser of `binary/mod.rs` | `next()` as find, header lines, `parse_one`, yield; `items` records what was yielded |
| `Base85` | `binary/base85.rs` | decoding and encoding of groups, with the overflow of a group's value |
| `Delta` | `DeltaCursor` of `binary/delta.rs` | sizes, copy parameters |
| `BinaryApply` | `binary/mod.rs` `apply`, `apply_reverse`, `delta::apply` | one step per line, per call of `decompress` and per delta instruction; every error is an outcome |
| `MultiFileApply` | `examples/apply.rs`, `strip_prefix` | one step per call of `std::fs`, two for a write; each call may fail. A path is a sequence of the names of its components |

A Rust panic (assertion, `unreachable!`, index or subtraction out of range) is a guard that fails: the
model stops in a state that is not "done". `Termination` says this never happens, and for `Hunks`, which
only loops over lists, `NoPanic` does. The one panic that does happen is a step of its own:
`OverflowPanic`, below.

`Compact`, `Hunks`, `Merge` and `RoundTrip` take the diffs they work on as a constant. This is an
assume-guarantee argument. Their assumptions ask no more than that a list aligns its two texts (it covers
both, in order, and what it equates is equal) and, after `Compact`, that no item is empty; that
`diff_slice` returns such a list is proved, for texts of any length (`DiffSliceReturnsDiff`, section 4).
The runs give `Hunks`, `Merge` and `RoundTrip` *every* diff in the sense of `Alignments!IsDiff` with few
items, not just those the algorithm happens to find, and check on small texts that `diff_slice` returns
nothing else (`ReturnsDiff`). `Compact` is given more: every alignment, shortest or not. In the same way
`MultiFileApply` takes from `ApplyPatch` and `BinaryApply` no more than what their runs show: a patch leads
from the contents it was made of to the others, and on contents that are not its own it fails or yields
some other text.

Three things are outside the library and modelled by what the code uses of them. *zlib* is a toy stream:
literals, an end, anything else an error. It has no compression and no checksum, so what `Recovers`
says is due to diffy's own checks. *`std::fs`* is a function from paths to contents and a set of
directories. *git*, as the writer of deltas and `diff --git` lines, is in the MC modules.

## 3. Runs

All runs are exhaustive. Texts are sequences of ids numbered by first occurrence, as the classifier hands
them out, so no symmetry set is needed: every other choice of ids is a renaming.

| Run | Instance | Shows |
|---|---|---|
| `diff_slice` | both texts up to 4 lines over 3 ids; and all alignments in up to 5 items of texts up to 3 lines over 2 ids | `MyersDiff`: `VIndexInBounds`, `Partition`, `FurthestReaching`, `EmitsShortestScript` (refines `ShortestEditScript`); `Compact`: stays an alignment of the same cost, moves only edits, leaves each settled against its neighbours; together: `ReturnsDiff` |
| `round_trip` | texts up to 4 and 5 lines over 2 ids, all diffs of up to 5 items, context 0, 1, 2, forward and reversed; and bases up to 3 lines with any one or two hunks of up to 2 lines at lines 1 or 3 | hunks describe the change, contexts are as asked, nothing panics, the parser accepts the order; with context the patch applies in place and recovers the other text; any patch keeps what earlier hunks wrote, and success means all hunks are in |
| `merge` | three texts over 3 ids, ancestor and ours up to 3, theirs up to 2 lines, all diffs of up to 4 items, conflicts in diff3 style | ends without a panic, no line lost, agrees with the textbook merge |
| `patch_parser` | up to two lines and a hunk header, and up to 3 of 10 kinds of line after a first hunk header, last line with and without newline, lenient, strict, without preamble; and written patches of one hunk of up to 3 lines or two of one line, with contents that look like file headers or are empty, and names of up to 3 of 10 bytes (special ones, and the two of an e acute), with all options, into bytes, and into strings as far as names survive that | ends, accounts for each consumed line, loses no hunk in strict mode; what is written reads back |
| `patch_set` | up to 4 of 13 kinds of line, both formats, plus texts that begin a binary patch; up to 3 unified diffs or noise; up to 2 git diffs or noise: edits, renames, copies, empty files, modes, binary, mail; single git diffs of files named by up to 3 pieces (spaces, slashes, quotes, what looks like the second path) under three pairs of prefixes | ends, progresses with every item, one item per git diff; every file of the known texts is yielded with operation, names, modes, hunks and blocks |
| `binary` | contents of 0, 1 and 4 bytes, deltas of up to 2 instructions with every way to write a copy, literals, both directions; 13 kinds of damage to patches of one instruction, and a marker without data | recovers both contents; damage is refused or harmless; the buffer is bounded by what was inflated; decoding ends unless the stream just stops |
| `multi_file` | 4 directories, every list of up to 2 file patches over 4 paths, one of them below another, two of them directories in some; also from a path to itself; any call may fail | stops in one file, never loses a moved one, nor one below a directory that is renamed, and without failures does what the patch set says, as long as renames and copies only move |

Why the bounds suffice for the interesting cases. Two texts of four lines already need three levels of
`conquer`, searches in boxes smaller than the V arrays, both parities of delta, and k ranges that leave
the box. Five items let an edit move past another, through equal text and into a third. With context up to
2 and four lines, hunks are separate, merged, and cut at either end of the text. Three hunk lines after a
header of up to two lines each side reach every branch of `hunk_lines`, and a second hunk header. Two
items in a list are enough for one to find, overwrite or remove what the other left. For every property
`PROJECT.json` names a mutation of a modelled definition, a plausible slip in that code, which the same
instance refutes.

`binary` scales the numbers, which are constants of `Base85`, `Delta` and `BinaryApply`, so that their
edges are reached: groups of 3 characters over 41 digits for 2 bytes (41^3 is just above 256^2, as 85^5 is
above 256^4), sizes of at most 3 digits of which the last may lose bits, a buffer that starts at 3 bytes
and doubles, lines of at most 4 bytes, and copies whose omitted length stands for 4 bytes.

Whether the counts stop a hunk at the right line when its deletions look like file headers shows only with
a following patch, so that is left to `patch_set`. Three diffs in a row matter only without `diff --git`
lines, so there the git texts stop at two.

**Fairness.** Every specification has weak fairness of its whole next-state relation: a sequential program
that can take its next step does. No fairness of single actions is assumed, so an I/O error may strike or
not. `Termination` then says that no loop is endless and no panic stops it.

**Deadlock.** `CHECK_DEADLOCK FALSE` in all configurations: the functions return, and the models have no
step after that. That they stop nowhere else is what `NoPanic` and `Termination` check.

### Disagreements found

| Run | Property | What |
|---|---|---|
| `round_trip_no_context` | `Recovers` | with `context_len` 0 a created patch applied to its own base can delete another of several equal lines |
| `patch_parser_complete_hunk` | `CompleteHunkStands` | a complete hunk that ends in an unterminated deletion is refused when `--- ` follows, as in two unified diffs in a row |
| `binary_truncated` | `AlwaysAnswers` | a block that lost a line, or the end of one, makes the loop around `decompress` run forever: nothing goes in, nothing comes out, and that is not looked at |
| `multi_file_rename` | `Applies` | the example ignores the hunks of a rename or copy and reports success |
| `format_round_trip_context` | `ReadsBack` | a function context keeps its newline, and the formatter adds a space and another newline: the text no longer parses |
| same run, same last state | `ReadsBack` | `Display` of a quoted name encodes a byte from 128 on as a character of its own: e acute and a tab reads back as another name |

Each quotes the documentation, comment or test it contradicts in `PROJECT.json` "findings". The passing
runs exclude exactly these cases and say so in the MC modules.

What was met on the way and contradicts no more than the wording of a comment, or nothing that is written
down, has no run:

* compaction, said to reduce the number of edited blocks (`src/diff/mod.rs:115`), can split one into two
  (1 1 to 2 1 does);
* the parser accepts lines after an unterminated line of the same file, which `Line` says is the last
  (`src/patch/mod.rs:391`);
* five base85 digits can exceed 32 bits (`src/binary/base85.rs:74`): a panic in a build with overflow checks,
  a wrapped value otherwise. Both are in `BinaryApply`, where `Recovers` allows either;
* a line's length character may stand for more bytes than the line has (`src/binary/mod.rs:517`): accepted,
  and harmless, since nothing is cut;
* the example skips binary patches without data and still succeeds (`examples/apply.rs:64`, `84`);
* the example applies file patches one after the other, where git reads them as one change of all files at
  once: a copy of a file that an earlier item has modified copies the new contents. `Applies` is only
  about patch sets that name no file twice.

## 4. Proofs

Eight modules hold theorems. All theorems are stated for every value of the constants that satisfies the
assumptions of section 2: texts of any length over any set of symbols, any list of hunks, any directory and
any patch set, any number of context lines. No other assumption is made, except that
`WrittenPatchesReadBack` is about the patches that `Survives` admits. What the theorems say of one another's
inputs fits together:

    diff_slice returns a shortest alignment without empty items   DiffSliceReturnsDiff
      which is all Merge assumes  =>  no line is lost, no panic    MergeLosesNothing, MergeNeverPanics
                                      and diff3 is what is done    MergeIsTextbook
      and all Hunks assumes       =>  hunks describe the change    HunksDescribeChange, HunksNeverPanic
        so that apply() recovers the other text                    PatchRecovers
      and their ranges count their lines, in order, which is all
      the formatter assumes   =>  what is written reads back       WrittenPatchesReadBack

| Theorem | Module | States |
|---|---|---|
| `TypeCorrect` | `MyersDiff_proofs` | `[]TypeOK`: no length, offset or furthest point is negative, which in Rust would be an underflow |
| `VNeverOutOfBounds` | | `[]VIndexInBounds`: no access of any recursive search leaves the `2 * max_d` cells of a V array |
| `RecursionCovers` | | `[]Partition`: what was emitted and what is still on the stack cover both texts, wherever `find_middle_snake` splits |
| `DiffAligns` | | what `diff` returns aligns the texts |
| `CellsHoldFurthest` | | `[]FurthestReaching`: each cell a search has written is the furthest point of its diagonal for its number of edits, whatever earlier searches left in the arrays |
| `SearchNeverPanics` | | every search meets within its box before it runs out of edits: the `unreachable!()` after the loop over d and the panics of `split_at` are out of reach |
| `ImplementsShortestEditScript` | | `EmitsShortestScript`: initial state and steps map to those of the abstract specification |
| `DiffIsMinimal` | | what `diff` returns costs the edit distance, as the textbook recurrence computes it |
| `SearchCorrect` | `DiffSlice_proofs` | the invariants above, in all of `diff_slice` |
| `SearchEmitsShortestScript` | | and the refinement |
| `CompactTypeCorrect` | | `[]CompactTypeOK`: an edit that is shifted stays where the pointer is; the panicking arms are out of reach |
| `CompactionAligns` | | `[]StaysAligned`: whatever `compact` swaps, splits, merges or drops, the list describes the same two texts |
| `CompactionKeepsCost` | | `KeepsCost`: no step changes the number of edited elements |
| `CompactionSettles` | | `[]Settled`: when `compact` ends no edit touches one of its kind, and none could still move down |
| `DiffSliceReturnsDiff` | | `[]ReturnsDiff`: what `diff_slice` returns is a diff: it aligns the texts at minimal cost, has no empty item and no edit next to one of its kind |
| `HunksTypeCorrect` | `RoundTrip_proofs` | `[]TypeOK` of `Hunks` |
| `HunksNeverPanic` | | `[]NoPanic`: the assertions of `Hunk::new` hold, `lines1.len() - 1` does not underflow |
| `HunksDescribeChange` | | `[]DescribesChange`: the hunks quote both texts where they say, are in order and, read literally, turn one into the other, both ways |
| `HunksContextAsAsked` | | `[]ContextAsAsked`: context as asked for at both ends of each hunk, unless both texts begin or end there, and edits joined only when their contexts touch |
| `RTTypeCorrect` | | `[]RTTypeOK` |
| `PatchRecovers` | | `[]RecoversWithContext`: with context, `apply` on a created patch (or its reverse) succeeds without a search and yields the other text |
| `AllHunksApplied` | | `[]AppliesAll`: success means that every hunk of the patch is in, whatever patch and text |
| `PatchedLinesKept` | | `KeepsPatchedLines`: no hunk undoes or reorders what an earlier one has put in, however far the search goes |
| `MergeTypeCorrect` | `Merge_proofs` | `[]TypeOK` |
| `MergeLosesNothing` | | `[]LosesNothing`: the ranges that are written account for each line of all three texts once, in order |
| `MergeNeverPanics` | | the `unreachable!()` and the assertions of `merge_solutions` and `set_or_merge_range` are out of reach |
| `MergeIsTextbook` | | `[]AgreesWithTextbook`: whatever the two diffs, the merge ends with the text and the number of conflicts of the textbook three-way merge on the same diffs |
| `ParserTypeCorrect` | `PatchParser_proofs` | `[]TypeOK` |
| `NoHeaderLost` | | `[]NoHunkLost`: in strict mode there is one hunk for each hunk header of the text |
| `TextIsAccountedFor` | | `[]AccountsForText`: what was consumed from the first hunk on is what the formatter writes for the hunks that are returned |
| `NamesReadBack` | | `escaped_filename` reads from what `write_into` writes for a name the same name, whatever bytes it has |
| `WrittenPatchesReadBack` | | `[]ReadsBack`: of every patch whose hunks count their lines, are in order and have no function context, whatever its lines; and whatever its names, but those quoted in a string have to be ASCII |
| `PatchSetTypeCorrect` | `PatchSet_proofs` | `[]TypeOK`: no parser leaves the text, and every item ends in it, with an error there is a kind for |
| `EveryItemAdvances` | | `[]MakesProgress`: each item of `next()` has consumed something, also when a parser gave up in the middle |
| `EveryDiffAnswered` | | `[]OneItemPerDiff`: whatever stands between them, each `diff --git` line is answered for by one patch or error |
| `MultiFileTypeCorrect` | `MultiFileApply_proofs` | `[]TypeOK`: what is left is a tree |
| `FailureStaysInOneFile` | | `[]StopsInOneFile`: files that no item so far names, nor has as a directory or file to rename above them, are as they were; at most the one being written is torn |
| `MovesLoseNothing` | | `KeepsASource`: a file leaves its old place only in a step after which its new place has all of it, also when its directory is renamed |
| `PureMovesApplied` | | `[]AppliesPureMoves`: without failures the files end up as the patch set says, if its renames and copies only move |

### The inductive invariants

None of these properties is inductive as it stands. The proofs rest on the invariants below, which are, and
have one lemma per action that shows the action keeps them. Where TLC can evaluate such an invariant it was
found to hold on small instances like those of section 3 before it was proved. Some say that there is a
sequence, or a place, in a set TLC cannot enumerate (`Tiled` of `MyersDiff`, `SearchSound`, `TextInv` of
`Merge`); of those the runs check the consequences (`Partition`, `FurthestReaching`, `AgreesWithTextbook`).

* **`MyersDiff`**: `Inv == TypeOK /\ stack \in Seq(BoundedTask) /\ SearchBounded`. A search on the stack only
  becomes the running one later, so each pending box is bounded by the whole texts (`BoundedTask`), and d
  and k of the running one are tied together (`SearchBounded`). `Tiled` adds that what is emitted equates
  equal text and that emitted items and pending boxes lead from (0, 0) to the ends of the texts, one after
  the other (`Path`). `Partition` follows from it and not the other way round: it says nothing of the running
  search.

  Minimality needs two more. `SearchSound` says of the running search that each cell of V it has written is
  the furthest point its diagonal reaches with that many edits, forward and backward, that the edits tried
  so far are not enough for the box (`Within`, stated with chains of matched pairs instead of paths), and
  that the two halves have not met where they have been compared (`Gap`). From it follow
  `FurthestReaching`, that a search meets in time, and that it meets on a shortest path of its box. `Frugal`
  adds up what has been emitted and the edit distances of the pending boxes: together never more than the
  edit distance of the whole texts. At the end nothing is pending. `EditDistance` is defined by the textbook
  recurrence; `Alignments_proofs` shows that it is the least c with `Within`.
* **`DiffSlice`**: `DSInv == Inv /\ Tiled /\ CompactInv`. `CompactInv` says that the list is a `Path` of
  items that equate equal text. Each arm of the two loops replaces one to four neighbours; a lemma
  (`CutThere`, `SwapNeighbours`, ...) shows that the new ones lead from the same place to the same place at
  the same cost. `NoEmptyItem` is separate, since `compact` may also be given lists with empty items; its
  first half says it of the search's stack, where boxes with an empty side become an insert or a delete.
  `ShortAndSolid` carries that and the minimal cost from `diff` through `compact`.

  `SettledInv` is about the order of the two passes: the edits that a pass has gone by stand (`Stood`: none
  touches the next of its kind or could still move down), and once the Deletes are done none of them ends
  where another begins and none could move down the old text even if nothing were in its way
  (`FirmDeletes`). That is stronger than `Settled` says of them, and it is what the Insert pass, which
  swaps Inserts past Deletes and takes up the equal text between them, does not break.
* **`Hunks`**: `HInv`. Between hunks there is nothing but equal text from the end of the last one to the
  next edit (`Gap`); in an open hunk, its lines say what becomes of the text from its start to the end of
  the current edit (`Says`). That separates `calc_end`, which fixes the ends in advance, from the lines,
  which arrive edit by edit. Closed hunks form a chain (`HunkChain`), from which order and description
  follow.
* **`RoundTrip`**: `RTInv == HInv /\ reversed \in BOOLEAN /\ AppInv /\ MadeInv`. `AppInv` holds of any patch:
  patched and unpatched lines of the image are counted by the hunks applied so far. `MadeInv` holds with
  context: up to the end of the last applied hunk the image is the new text, from there on the old one
  (`Placed`), and so the next hunk matches where its new range begins, which is where `find_position` looks
  first. Context is what makes this true: an empty range then stands only at the beginning of a text
  (`InPlace`). Without it the place is off by one, which the run `round_trip_no_context` shows.
* **`Merge`**: `MInv`. The ranges of the walk stand one after the other on all three sides (`Tiled`) and
  end where the two iterators stand, which agree on the ancestor (`StandsAt`); in the second stage the
  region at hand leads from the end of what was merged to the place of the cursor (`Bridges`), even if it has
  nothing of a side. The clean-up stages only join neighbours or turn one range into another with the
  same lines.

  `TextInv` relates each stage to the lines that both sides keep, the *stable* ones, which is how
  `ThreeWayMerge` is stated. A three-way range of the walk or of the second stage marks them: if it is an
  Equal it is a run of stable lines, otherwise there is none in it; and of the gathered ranges no two
  changes are neighbours without an Equal between them (`Regular`). So the ranges between two Equals have
  exactly the chunk that the textbook settles. The clean-up rewrites them in place, so from then on the
  ranges as they were gathered are remembered by an existential quantifier (`Raw`). While the output is
  written, it is the textbook's up to the last stable line before the place that has been reached, followed
  by the settled chunk from there (`SoFar`).
* **`PatchParser`**: `ParserInv` counts hunk headers: each that was consumed has become a hunk or is the
  open one. `TextInv` says there is a place up to which no header was seen, and that what was consumed
  from there on spells the hunks taken so far, with the open one and its late markers.

  `ReadInv` is for a written text, and is a simulation: of the lines that the formatter writes for the
  patch, what has not been consumed is, stage by stage, the rest from a name, a hunk or a line on
  (`Remaining`), and what has been taken is what comes before. Inside a hunk a line that lacks its newline
  is taken with one first, and its marker, the next line of the rest, takes that away again. That a marker is
  never refused needs that an unterminated line is the last of its file (`LastOf`), which is what
  `WrittenHunk` assumes beyond the counts. Names rest on `NamesReadBack`: the decoder is a recursive
  function from the end of the name, and each byte's escape is the token that the decoder sees there. In a
  string names are written in the same way if they survive (`ShownAsWritten`).
* **`PatchSet`**: `SetInv == SetType /\ Advances /\ AnswersDiffs`. `Advances` says why the place a parser has
  come to is past the end of the last item whenever an item is about to be yielded: headers begin at a
  `diff --git` line, which the first of them always takes (`AtDiff`, then `PastDiff`); a unified patch begins
  at a file header, and until that is taken nothing else can happen (`AtNames`), since both names are unread.
  A binary patch ends past its own header, which is not before the offset (`header.binaryAt`).
  `AnswersDiffs` counts: as many items as `diff --git` lines consumed, and one less while a diff is being read.
  It needs that the parser of a git diff is never in one of the two loops that skip lines (`Skipping`), and
  that the lines of a hunk never include such a line (`HunkTakesNoDiff`): it ends a complete hunk and is an
  error in any other. What the parser is asked for is in one lemma per action of `PatchParser` (`TakesLines`).
  Which errors a name can have is taken from `PatchParser_proofs`, an instance, whose operators are shown to
  be the ones used here (`SameNames`).
* **`MultiFileApply`**: `MFInv` records what a stage knows from those before it: the directories of the
  target exist, what is about to be written, and that a source is only removed when its target has all
  of it (`InHand`); that only the file being written is torn (`TornHere`); and that what no item so far
  reaches is as it was (`Untouched`). `TreeInv` adds that paths are rows of names (`PathsOK`): a directory
  that is renamed takes what is below it along, and the proof finds each file again by moving its path back
  (`MovedBack`). `CourseInv` adds, for a run in which no call fails and whose patch set
  was made for the files it finds, that the items behind are carried out, the files ahead are as at the
  start, and the item at hand is about to write what it should (`OnCourse`).

`Alignments_proofs` has what these have in common: `CommonPrefixLenProperty` and its twin (the lengths are
defined with CHOOSE, as the longest match), `Path` under concatenation and replacement, and that a `Path` of
items covers both texts. It also has the edit distance: the recurrence never
exceeds the cost of an alignment, and is reached by one. The recursive definitions among the operators (`SumUpTo`, flattening, what the name
decoder and the line reader compute from the rest of a line) are functions. Facts about them need induction,
which is done in first-order terms, without an operator for the predicate: the set of numbers for which the
fact fails has no least element (`LeastNatural`, from the well-foundedness of finite sets, and
`NatSetInduction`).

### What stays with TLC

* Liveness under fairness: all of `Termination`. The provers have no rule for it.
* `YieldsEveryFile`: what it says of written patch sets rests, beyond `WrittenPatchesReadBack`, on the
  headers of git and on the splitting of every `diff --git` line.
* `BinaryApply`, see section 6.

## 5. Not modelled

* Line splitting (`LineIter`); carriage returns and tabs, except where a name ends at one; colors; positions
  in error messages; conversions between string, byte, owned and borrowed values. Byte and string variants
  of one function are one model, except where a name is written, which is where they differ. A name that is
  read is a sequence of bytes; that a string refuses one that is not UTF-8 is left out.
* `DiffOptions::diff` and `to_str`, the character-level diff: not public, and called by tests only.
  `Compact` is nevertheless checked on alignments with empty Equals, as `to_str` could leave them.
* Numbers in hunk headers either parse or do not. `usize` is a natural number: all lengths are lengths of
  texts in memory, and the places where an external number could overflow are covered by "does not parse"
  (`range` of the parser, which uses `checked_add`) or by a modulus (`Size` of `Delta`). `InvalidCopyRange` is
  left out: offset and length are 32-bit values, whose sum fits into a 64-bit `usize`.
* Conflict marker length and labels; a marker that is glued to an unterminated line, because lines are
  atoms in `Merge`. Only the diff3 conflict style is checked, the other one leaves out the ancestor's lines.
* zlib's format, see section 2. Whether a checksum failure is reported is the library's matter.
* In the multi-file example, paths that are absolute or have `..` in them, which `Path::join` would let out of
  the directory; symbolic links; a `create_dir_all` that fails after some of the directories.
* What `main` of the examples prints; file permissions, links and modes, which the example does not apply
  either; `examples/patch_formatter.rs`, the fuzz targets and tests, which were read as documentation.

## 6. Plan

Done: every module of section 2.

What could still be modelled:

1. `MergeLines`: `Merge` with lines that know whether they end in a newline.
2. `CharBoundaries`: `to_str` on ranges that split characters, once something public uses it.

Proofs, in the order of what they are worth:

1. `BinaryApply`: `TypeOK` and `GrowsWithOutput`, once the sums over instructions are stated with `SumUpTo`.
2. `PatchSet`: `YieldsEveryFile` of unified diffs, from `WrittenPatchesReadBack` and the trailing lines of a
   patch.
