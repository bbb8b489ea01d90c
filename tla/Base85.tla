------------------------------- MODULE Base85 -------------------------------
(***************************************************************************)
(* binary/base85.rs: groups of characters for groups of bytes.  A          *)
(* character is its digit in the alphabet; anything else is no digit.  Pure *)
(* operators, with the two group sizes and the radix as constants.         *)
(***************************************************************************)
EXTENDS Integers, SequencesExt

CONSTANTS
  Radix,        \* 85, the length of ALPHABET
  GroupChars,   \* 5
  GroupBytes    \* 4, the bytes of a u32

ByteRadix == 256
Byte == 0..ByteRadix - 1
Digit == 0..Radix - 1

ASSUME Base85Assumption ==
  /\ {Radix, GroupChars, GroupBytes} \subseteq Nat \ {0}
  /\ Radix ^ GroupChars >= ByteRadix ^ GroupBytes
  /\ Radix ^ (GroupChars - 1) <= ByteRadix ^ GroupBytes

(* chunks_exact *)
Chunks(s, n) == [i \in 1..Len(s) \div n |-> SubSeq(s, (i - 1) * n + 1, i * n)]

ValueOf(digits, radix) == FoldLeft(LAMBDA acc, d : acc * radix + d, 0, digits)
DigitsOf(value, radix, n) == [i \in 1..n |-> (value \div radix ^ (n - i)) % radix]

(* TABLE: is the character none of the alphabet? *)
InvalidCharacter(chars) == \E i \in DOMAIN chars : chars[i] \notin Digit
InvalidLength(chars) == Len(chars) % GroupChars # 0

(* `value * 85 + digit` leaves the u32: a panic where the build checks for *)
(* overflow, otherwise the value wraps.  Groups before an invalid one are  *)
(* decoded first.                                                          *)
Overflows(chars) ==
  LET group == Chunks(chars, GroupChars)
  IN  /\ ~InvalidLength(chars)
      /\ \E i \in DOMAIN group :
           /\ \A j \in 1..i : ~InvalidCharacter(group[j])
           /\ ValueOf(group[i], Radix) >= ByteRadix ^ GroupBytes

(* Mutated DecodeInto. *)
DecodeLittleEndian(chars) ==
  LET bytes(group) ==
        Reverse(DigitsOf(ValueOf(group, Radix) % ByteRadix ^ GroupBytes, ByteRadix, GroupBytes))
      groups == Chunks(chars, GroupChars)
  IN  FlattenSeq([i \in DOMAIN groups |-> bytes(groups[i])])

(* decode_into, of valid characters *)
DecodeInto(chars) ==
  LET bytes(group) ==
        DigitsOf(ValueOf(group, Radix) % ByteRadix ^ GroupBytes, ByteRadix, GroupBytes)
      groups == Chunks(chars, GroupChars)
  IN  FlattenSeq([i \in DOMAIN groups |-> bytes(groups[i])])

(* encode_into, of whole groups of bytes *)
EncodeInto(bytes) ==
  LET chars(group) == DigitsOf(ValueOf(group, ByteRadix), Radix, GroupChars)
      groups == Chunks(bytes, GroupBytes)
  IN  FlattenSeq([i \in DOMAIN groups |-> chars(groups[i])])

=============================================================================
