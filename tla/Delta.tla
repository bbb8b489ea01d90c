------------------------------- MODULE Delta -------------------------------
(***************************************************************************)
(* binary/delta.rs: how DeltaCursor reads the sizes and the instructions   *)
(* of a git delta.  Pure operators; `at` is the byte the cursor stands at, *)
(* counted from 1.  A digit of a number is always below its radix, so that *)
(* the code's `|=` of shifted digits is their sum.                         *)
(***************************************************************************)
EXTENDS Integers, SequencesExt

CONSTANTS
  SizeRadix,    \* 128: a byte of a size holds 7 bits
  SizeDigits,   \* 10: the bytes that checked_shl can shift into a u64
  SizeLimit,    \* 2^64: bits of the last of them that do not fit are lost
  CopyRadix     \* 256: a byte of a copy's offset or length

ASSUME DeltaAssumption ==
  /\ {SizeRadix, SizeDigits, SizeLimit, CopyRadix} \subseteq Nat \ {0}
  /\ SizeRadix ^ (SizeDigits - 1) < SizeLimit

Flag == 128     \* 0x80: a size goes on; an instruction is a copy

-----------------------------------------------------------------------------
(* read_size *)

SizeEnds(data, at) == {i \in at..Len(data) : data[i] < Flag}
SizeOverflow(data, at) ==
  /\ at + SizeDigits <= Len(data)
  /\ \A i \in at..at + SizeDigits - 1 : data[i] >= Flag
SizeEof(data, at) == SizeEnds(data, at) = {}
SizeEnd(data, at) == Min(SizeEnds(data, at))

Size(data, at) ==
  MapThenSumSet(LAMBDA i : (data[i] % Flag) * SizeRadix ^ (i - at), at..SizeEnd(data, at))
    % SizeLimit

-----------------------------------------------------------------------------
(* read_copy_params: a byte of the offset for each of the bits 0 to 3 of   *)
(* the control byte that is set, then one of the length for 4 to 6         *)

IsCopy(control) == control >= Flag

Bits(control, from, to) == {i \in from..to : (control \div 2 ^ i) % 2 = 1}

ParamBytes(control) == Cardinality(Bits(control, 0, 6))

(* The bytes of the bits from..to, the first of them the lowest. *)
Param(data, at, control, from, to) ==
  MapThenSumSet(
    LAMBDA i : data[at + Cardinality(Bits(control, 0, i - 1))] * CopyRadix ^ (i - from),
    Bits(control, from, to))

CopyOffset(data, at, control) == Param(data, at, control, 0, 3)

(* Mutated CopyLen. *)
CopyLenAsRead(data, at, control) == Param(data, at, control, 4, 6)

CopyLen(data, at, control) ==
  LET len == Param(data, at, control, 4, 6)
  IN  IF len = 0 THEN CopyRadix ^ 2 ELSE len    \* 0x10000

=============================================================================
