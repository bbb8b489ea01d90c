----------------------------- MODULE FileNames -----------------------------
(***************************************************************************)
(* How file names are written in a patch and read back: byte_needs_quoting *)
(* write_escaped_byte, fmt_escaped_byte and escaped_filename of utils.rs,  *)
(* and Filename of patch/mod.rs.  A name is a sequence of bytes.  Pure     *)
(* operators.                                                              *)
(***************************************************************************)
EXTENDS Integers, SequencesExt

Byte == 0..255
Tab == 9
Quote == 34
Backslash == 92

NeedsQuoting(b) == b < 32 \/ b \in {127, Quote, Backslash}

(* The named escapes: the byte and the letter that stands for it. *)
Letters ==
  [b \in 7..13 \cup {Quote, Backslash} |->
     IF b \in 7..13 THEN <<97, 98, 116, 110, 118, 102, 114>>[b - 6] ELSE b]

(* Mutated EscapedByte. *)
EscapedByteShort(b) ==
  IF b \in DOMAIN Letters THEN <<Backslash, Letters[b]>>
  ELSE IF NeedsQuoting(b) THEN <<Backslash, 48 + ((b \div 8) % 8), 48 + (b % 8)>>
  ELSE <<b>>

EscapedByte(b) ==
  IF b \in DOMAIN Letters THEN <<Backslash, Letters[b]>>
  ELSE IF NeedsQuoting(b) THEN <<Backslash, 48 + (b \div 64), 48 + ((b \div 8) % 8), 48 + (b % 8)>>
  ELSE <<b>>

Quoted(name) ==
  <<Quote>> \o FlattenSeq([i \in DOMAIN name |-> EscapedByte(name[i])]) \o <<Quote>>

HasToBeQuoted(name) == \E i \in DOMAIN name : NeedsQuoting(name[i])

(* Filename::write_into: into a sink of bytes. *)
WrittenName(name) == IF HasToBeQuoted(name) THEN Quoted(name) ELSE name

(* fmt_escaped_byte: into a string, where a byte stands for the character  *)
(* of its number, and from 128 on that character takes two bytes.          *)
ShownByte(b) == IF b < 128 THEN EscapedByte(b) ELSE <<192 + (b \div 64), 128 + (b % 64)>>

(* Filename<str>::fmt *)
ShownName(name) ==
  IF HasToBeQuoted(name)
  THEN <<Quote>> \o FlattenSeq([i \in DOMAIN name |-> ShownByte(name[i])]) \o <<Quote>>
  ELSE name

-----------------------------------------------------------------------------
(* decode_escaped: the token that starts at s[i], a byte as it is, a named *)
(* escape or an octal one.                                                 *)

NamedAt(s, i) == s[i] = Backslash /\ i < Len(s) /\ \E b \in DOMAIN Letters : Letters[b] = s[i + 1]
OctalAt(s, i) ==
  /\ s[i] = Backslash /\ i + 3 <= Len(s)
  /\ s[i + 1] \in 48..51 /\ s[i + 2] \in 48..55 /\ s[i + 3] \in 48..55

TokenError(s, i) ==
  CASE s[i] # Backslash -> IF NeedsQuoting(s[i]) THEN "InvalidUnescapedChar" ELSE "none"
    [] s[i] = Backslash /\ i = Len(s) -> "ExpectedEscapedChar"
    [] OTHER -> IF NamedAt(s, i) \/ OctalAt(s, i) THEN "none" ELSE "InvalidEscapedChar"
TokenLen(s, i) == IF NamedAt(s, i) THEN 2 ELSE IF OctalAt(s, i) THEN 4 ELSE 1
TokenByte(s, i) ==
  IF NamedAt(s, i) THEN CHOOSE b \in DOMAIN Letters : Letters[b] = s[i + 1]
  ELSE IF OctalAt(s, i) THEN 64 * (s[i + 1] - 48) + 8 * (s[i + 2] - 48) + s[i + 3] - 48
  ELSE s[i]

NameRead(name) == [error |-> "none", name |-> name]
NameRefused(kind) == [error |-> kind, name |-> <<>>]

(* The first error from the left is the one reported. *)
DecodeEscaped(s) ==
  LET error[i \in 1..Len(s) + 1] ==
        IF i > Len(s) THEN "none"
        ELSE IF TokenError(s, i) # "none" THEN TokenError(s, i) ELSE error[i + TokenLen(s, i)]
      name[i \in 1..Len(s) + 1] ==
        IF i > Len(s) THEN <<>> ELSE <<TokenByte(s, i)>> \o name[i + TokenLen(s, i)]
  IN  IF error[1] # "none" THEN NameRefused(error[1]) ELSE NameRead(name[1])

EscapedFilename(s) ==
  IF Len(s) >= 2 /\ s[1] = Quote /\ Last(s) = Quote THEN DecodeEscaped(SubSeq(s, 2, Len(s) - 1))
  ELSE IF HasToBeQuoted(s) THEN NameRefused("InvalidCharInUnquotedFilename")
  ELSE NameRead(s)

=============================================================================
