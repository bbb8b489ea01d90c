----------------------------- MODULE BinaryApply -----------------------------
(***************************************************************************)
(* binary/mod.rs and binary/delta.rs: BinaryPatch::apply() on a base, and  *)
(* apply_reverse() on what it returned.  A block is decoded line by line   *)
(* (decode_base85_lines), inflated call by call (the loop in decode_data)  *)
(* and, for a delta, run instruction by instruction (delta::apply).        *)
(***************************************************************************)
EXTENDS Base85, Delta

CONSTANTS
  Inputs,        \* records: the patch, the base it is applied to, and the
                 \* contents and the damage that Recovers is about
  MaxPrealloc,   \* MAX_PREALLOC
  MaxLineBytes   \* 52, what the last length character stands for

ASSUME BinaryAssumption == {MaxPrealloc, MaxLineBytes} \subseteq Nat \ {0}

VARIABLES
  input,
  reverse,      \* apply_reverse()?
  base,         \* the original, or the modified contents when reversed
  stage,        \* "start", "lines", "inflate", "header", "delta" or "done"
  at,           \* the line or the byte to read next
  compressed,
  output,       \* the bytes inflated so far
  capacity,     \* the length of the output buffer
  expected,     \* header_mod_size
  built,        \* the contents returned in the end
  result        \* "none", "ok", "panic" or the error

bvars == <<input, reverse, base, stage, at, compressed, output, capacity, expected,
           built, result>>

Block == IF reverse THEN input.reverse ELSE input.forward

Stop(outcome) == stage' = "done" /\ result' = outcome

-----------------------------------------------------------------------------
(* zlib_rs::Inflate, of which the code uses that a call takes what it can  *)
(* from the input and puts what it can into the output, and answers        *)
(* StreamEnd, an error, or, with InflateFlush::Finish, BufError.  A stream *)
(* is a row of <<1, byte>> and ends with <<0>>; any other tag is an error. *)

Literals(data, from) ==
  LET whole(n) == /\ from + 2 * n - 1 <= Len(data)
                  /\ \A j \in 0..n - 1 : data[from + 2 * j] = 1
  IN  Max({n \in 0..Len(data) : whole(n)})

Inflated(data, from, n) == [j \in 1..n |-> data[from + 2 * j - 1]]

Deflated(bytes) == FlattenSeq([i \in DOMAIN bytes |-> <<1, bytes[i]>>]) \o <<0>>

-----------------------------------------------------------------------------

Init ==
  /\ input \in Inputs
  /\ reverse = FALSE /\ base = input.base
  /\ stage = "start" /\ at = 1 /\ compressed = <<>> /\ output = <<>> /\ capacity = 0
  /\ expected = 0 /\ built = <<>> /\ result = "none"

Start ==
  /\ stage = "start"
  /\ IF input.full THEN stage' = "lines" /\ UNCHANGED result ELSE Stop("NoBinaryData")
  /\ UNCHANGED <<input, reverse, base, at, compressed, output, capacity, expected, built>>

(* decode_line_length: the letter's number *)
LineLength(line) == line.len

LineError(line) ==
  IF line.len \notin 1..MaxLineBytes THEN "InvalidLineLengthIndicator"
  ELSE IF InvalidLength(line.chars) THEN "InvalidLength"
  ELSE IF InvalidCharacter(line.chars) THEN "InvalidCharacter" ELSE "none"

DecodeLine ==
  /\ stage = "lines" /\ at <= Len(Block.lines)
  /\ LET line == Block.lines[at]
         bytes == DecodeInto(line.chars)
     IN  /\ LineError(line) = "none"
         /\ compressed' =
              compressed \o SubSeq(bytes, 1, Min({LineLength(line), Len(bytes)}))
  /\ at' = at + 1
  /\ UNCHANGED <<input, reverse, base, stage, output, capacity, expected, built, result>>

RejectLine ==
  /\ stage = "lines" /\ at <= Len(Block.lines)
  /\ LineError(Block.lines[at]) # "none"
  /\ Stop(LineError(Block.lines[at]))
  /\ UNCHANGED <<input, reverse, base, at, compressed, output, capacity, expected, built>>

(* Only where the build has overflow checks; DecodeLine wraps otherwise. *)
OverflowPanic ==
  /\ stage = "lines" /\ at <= Len(Block.lines)
  /\ Block.lines[at].len \in 1..MaxLineBytes
  /\ Overflows(Block.lines[at].chars)
  /\ Stop("panic")
  /\ UNCHANGED <<input, reverse, base, at, compressed, output, capacity, expected, built>>

StartInflate ==
  /\ stage = "lines" /\ at > Len(Block.lines)
  /\ stage' = "inflate" /\ at' = 1
  /\ capacity' = Max({1, Min({Block.size, MaxPrealloc})})
  /\ UNCHANGED <<input, reverse, base, compressed, output, expected, built, result>>

-----------------------------------------------------------------------------
(* One call of decompress(): with room left, it has come to the end of the *)
(* literals, and what follows them decides.                                *)

Room == capacity - Len(output)
Taken == Min({Literals(compressed, at), Room})
Answer ==
  LET next == at + 2 * Taken
      tag == IF next > Len(compressed) THEN 1 ELSE compressed[next]
  IN  IF Taken < Literals(compressed, at) \/ tag = 1 THEN "BufError"
      ELSE IF tag = 0 THEN "StreamEnd" ELSE "DataError"

(* Mutated InflateMore. *)
InflateAndGrow ==
  /\ stage = "inflate" /\ Answer = "BufError"
  /\ output' = output \o Inflated(compressed, at, Taken)
  /\ at' = at + 2 * Taken
  /\ capacity' = 2 * capacity
  /\ UNCHANGED <<input, reverse, base, stage, compressed, expected, built, result>>
InflateInPlace ==
  /\ stage = "inflate" /\ Answer = "BufError"
  /\ output' = output \o Inflated(compressed, at, Taken)
  /\ at' = at + 2 * Taken
  /\ UNCHANGED <<input, reverse, base, stage, compressed, capacity, expected, built, result>>

InflateMore ==
  /\ stage = "inflate" /\ Answer = "BufError"
  /\ output' = output \o Inflated(compressed, at, Taken)
  /\ at' = at + 2 * Taken
  /\ capacity' = IF Len(output') = capacity THEN 2 * capacity ELSE capacity
  /\ UNCHANGED <<input, reverse, base, stage, compressed, expected, built, result>>

InflateFails ==
  /\ stage = "inflate" /\ Answer = "DataError"
  /\ Stop("DecompressionFailed")
  /\ UNCHANGED <<input, reverse, base, at, compressed, output, capacity, expected, built>>

(* Mutated EndInflate. *)
EndInflateUnchecked ==
  /\ stage = "inflate" /\ Answer = "StreamEnd"
  /\ output' = output \o Inflated(compressed, at, Taken)
  /\ at' = 1
  /\ \/ /\ Block.kind = "literal"
        /\ Stop("ok") /\ built' = output'
     \/ /\ Block.kind = "delta"
        /\ stage' = "header" /\ UNCHANGED <<built, result>>
  /\ UNCHANGED <<input, reverse, base, compressed, capacity, expected>>

(* The end of decode_data, and what apply_block makes of its answer. *)
EndInflate ==
  /\ stage = "inflate" /\ Answer = "StreamEnd"
  /\ output' = output \o Inflated(compressed, at, Taken)
  /\ at' = 1
  /\ \/ /\ Len(output') # Block.size
        /\ Stop("DecompressedSizeMismatch") /\ UNCHANGED built
     \/ /\ Len(output') = Block.size /\ Block.kind = "literal"
        /\ Stop("ok") /\ built' = output'
     \/ /\ Len(output') = Block.size /\ Block.kind = "delta"
        /\ stage' = "header" /\ UNCHANGED <<built, result>>
  /\ UNCHANGED <<input, reverse, base, compressed, capacity, expected>>

-----------------------------------------------------------------------------
(* delta::apply, of the bytes in output *)

ModifiedAt == SizeEnd(output, 1) + 1

HeaderError ==
  IF SizeOverflow(output, 1) THEN "SizeOverflow"
  ELSE IF SizeEof(output, 1) THEN "UnexpectedEof"
  ELSE IF SizeOverflow(output, ModifiedAt) THEN "SizeOverflow"
  ELSE IF SizeEof(output, ModifiedAt) THEN "UnexpectedEof"
  ELSE IF Size(output, 1) # Len(base) THEN "OriginalSizeMismatch" ELSE "none"

ReadHeader ==
  /\ stage = "header"
  /\ IF HeaderError # "none" THEN Stop(HeaderError) /\ UNCHANGED <<at, expected>>
     ELSE /\ stage' = "delta" /\ UNCHANGED result
          /\ expected' = Size(output, ModifiedAt)
          /\ at' = SizeEnd(output, ModifiedAt) + 1
  /\ UNCHANGED <<input, reverse, base, compressed, output, capacity, built>>

Control == output[at]
AfterCopy == at + 1 + ParamBytes(Control)
CopyEnd == CopyOffset(output, at + 1, Control) + CopyLen(output, at + 1, Control)

InstructionError ==
  IF IsCopy(Control)
  THEN IF AfterCopy - 1 > Len(output) THEN "UnexpectedEof"
       ELSE IF CopyEnd > Len(base) THEN "CopyOutOfBounds" ELSE "none"
  ELSE IF Control = 0 THEN "UnexpectedOpcode"
  ELSE IF at + Control > Len(output) THEN "UnexpectedEof" ELSE "none"

CopyBytes ==
  /\ stage = "delta" /\ at <= Len(output) /\ IsCopy(Control) /\ InstructionError = "none"
  /\ built' = built \o SubSeq(base, CopyOffset(output, at + 1, Control) + 1, CopyEnd)
  /\ at' = AfterCopy
  /\ UNCHANGED <<input, reverse, base, stage, compressed, output, capacity, expected, result>>

(* Mutated AddBytes. *)
AddBytesAndSkip ==
  /\ stage = "delta" /\ at <= Len(output) /\ ~IsCopy(Control) /\ InstructionError = "none"
  /\ built' = built \o SubSeq(output, at + 1, at + Control)
  /\ at' = at + Control + 2
  /\ UNCHANGED <<input, reverse, base, stage, compressed, output, capacity, expected, result>>

AddBytes ==
  /\ stage = "delta" /\ at <= Len(output) /\ ~IsCopy(Control) /\ InstructionError = "none"
  /\ built' = built \o SubSeq(output, at + 1, at + Control)
  /\ at' = at + Control + 1
  /\ UNCHANGED <<input, reverse, base, stage, compressed, output, capacity, expected, result>>

RejectInstruction ==
  /\ stage = "delta" /\ at <= Len(output) /\ InstructionError # "none"
  /\ Stop(InstructionError)
  /\ UNCHANGED <<input, reverse, base, at, compressed, output, capacity, expected, built>>

EndDelta ==
  /\ stage = "delta" /\ at > Len(output)
  /\ Stop(IF Len(built) = expected THEN "ok" ELSE "ModifiedSizeMismatch")
  /\ UNCHANGED <<input, reverse, base, at, compressed, output, capacity, expected, built>>

-----------------------------------------------------------------------------

(* The caller takes the result back: apply_reverse() on what apply() gave. *)
ApplyReverse ==
  /\ stage = "done" /\ result = "ok" /\ ~reverse
  /\ reverse' = TRUE /\ base' = built
  /\ stage' = "start" /\ at' = 1 /\ compressed' = <<>> /\ output' = <<>> /\ capacity' = 0
  /\ expected' = 0 /\ built' = <<>> /\ result' = "none"
  /\ UNCHANGED input

Next ==
  \/ Start \/ DecodeLine \/ RejectLine \/ OverflowPanic \/ StartInflate
  \/ InflateMore \/ InflateFails \/ EndInflate
  \/ ReadHeader \/ CopyBytes \/ AddBytes \/ RejectInstruction \/ EndDelta
  \/ ApplyReverse

Spec == Init /\ [][Next]_bvars /\ WF_bvars(Next)

-----------------------------------------------------------------------------
(* Properties *)

(* Every index the code slices at is inside what it slices. *)
TypeOK ==
  /\ stage \in {"start", "lines", "inflate", "header", "delta", "done"}
  /\ reverse \in BOOLEAN
  /\ {compressed, output, built, base} \subseteq Seq(Byte)
  /\ stage = "lines" => at <= Len(Block.lines) + 1
  /\ stage = "inflate" => at <= Len(compressed) + 1 /\ Len(output) <= capacity
  /\ stage = "delta" => at <= Len(output) + 1

Target == IF reverse THEN input.old ELSE input.new

(***************************************************************************)
(* apply() never returns wrong contents: a patch that is as it was made    *)
(* turns the original contents into the modified ones and these back into  *)
(* the original, whatever mix of literal and delta blocks and of ways to   *)
(* write the same numbers it is made of.  When a block has a part lost or  *)
(* changed, or a delta meets contents of another length, there is an error *)
(* or, where the damage does not matter, the right contents.               *)
(***************************************************************************)
Recovers ==
  stage = "done" =>
    /\ input.damage = "none" => result = "ok"
    /\ result = "ok" => built = Target

(***************************************************************************)
(* MAX_PREALLOC: "This prevents instant OOM from a bogus header."  Beyond  *)
(* it, the buffer is at most twice as large as what has been inflated.     *)
(***************************************************************************)
GrowsWithOutput == capacity <= Max({MaxPrealloc, 2 * Len(output)})

(***************************************************************************)
(* The loop around decompress() ends, as often as the buffer has to grow,  *)
(* unless the stream just stops.                                           *)
(***************************************************************************)
Truncated == {"shorter", "dropped"}
Termination == input.damage \notin Truncated => <>(stage = "done" /\ (result = "ok" => reverse))

(***************************************************************************)
(* DecompressedSizeMismatch: "Decompressed size doesn't match declared     *)
(* size", and Result as the return type: apply() answers for any block.    *)
(***************************************************************************)
AlwaysAnswers == <>(stage = "done")

=============================================================================
