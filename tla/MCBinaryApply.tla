---------------------------- MODULE MCBinaryApply ----------------------------
(***************************************************************************)
(* BinaryApply on patches as git writes them, whole or damaged, for short  *)
(* contents.  The numbers are scaled: groups of 3 characters over 41       *)
(* digits for 2 bytes (41^3 is just above 256^2, as 85^5 is above 256^4),  *)
(* sizes of up to 3 digits below 4 of which the last may lose a bit, and   *)
(* offsets and lengths with digits below 2, so that a copy of length 0     *)
(* stands for 4 bytes.                                                     *)
(***************************************************************************)
EXTENDS BinaryApply

CONSTANTS AddLens, MaxInstructions, MaxDamaged, Damages

-----------------------------------------------------------------------------
(* A delta's instructions, what they mean, and how they can be written *)

Add(bytes) == [copy |-> FALSE, bytes |-> bytes, offset |-> 0, len |-> 0, padded |-> FALSE]
Copy(offset, len, padded) ==
  [copy |-> TRUE, bytes |-> <<>>, offset |-> offset, len |-> len, padded |-> padded]

Instructions(old) ==
  {Add([i \in 1..n |-> 200 + i]) : n \in AddLens}
  \cup {Copy(r[1], r[2], p) :
          r \in {x \in (0..Len(old)) \X (1..Len(old)) : x[1] + x[2] <= Len(old)},
          p \in BOOLEAN}

Meaning(old, i) == IF i.copy THEN SubSeq(old, i.offset + 1, i.offset + i.len) ELSE i.bytes
Result(old, is) == FlattenSeq([k \in DOMAIN is |-> Meaning(old, is[k])])

DigitAt(value, radix, i) == (value \div radix ^ i) % radix

(* Zero bytes are left out, unless padded; so is the length CopyRadix^2. *)
WrittenCopy(i) ==
  LET digit(b) == IF b < 4 THEN DigitAt(i.offset, CopyRadix, b)
                  ELSE IF i.len = CopyRadix ^ 2 THEN 0
                  ELSE DigitAt(i.len, CopyRadix, b - 4)
      bits == {b \in 0..6 : digit(b) # 0 \/ i.padded}
  IN  <<Flag + MapThenSumSet(LAMBDA b : 2 ^ b, bits)>>
      \o [k \in 1..Cardinality(bits) |->
            digit(CHOOSE b \in bits : Cardinality({c \in bits : c <= b}) = k)]

Written(i) == IF i.copy THEN WrittenCopy(i) ELSE <<Len(i.bytes)>> \o i.bytes

WrittenSize(size, digits) ==
  [i \in 1..digits |-> DigitAt(size, SizeRadix, i - 1) + (IF i < digits THEN Flag ELSE 0)]
DigitsNeeded(size) == Min({n \in 1..SizeDigits : size < SizeRadix ^ n})

DeltaOf(old, is, digits) ==
  WrittenSize(Len(old), Max({digits, DigitsNeeded(Len(old))}))
  \o WrittenSize(Len(Result(old, is)), DigitsNeeded(Len(Result(old, is))))
  \o FlattenSeq([k \in DOMAIN is |-> Written(is[k])])

-----------------------------------------------------------------------------
(* Blocks *)

Padded(bytes) ==
  bytes \o [i \in 1..(GroupBytes - (Len(bytes) % GroupBytes)) % GroupBytes |-> 0]

LinesOf(bytes) ==
  [i \in 1..(Len(bytes) + MaxLineBytes - 1) \div MaxLineBytes |->
     LET part == SubSeq(bytes, (i - 1) * MaxLineBytes + 1, Min({i * MaxLineBytes, Len(bytes)}))
     IN  [len |-> Len(part), chars |-> EncodeInto(Padded(part))]]

MkBlock(kind, bytes) ==
  [kind |-> kind, size |-> Len(bytes), lines |-> LinesOf(Deflated(bytes))]

Literal(bytes) == MkBlock("literal", bytes)

(* The first group of a line with the same value modulo 2^(8*GroupBytes). *)
Overlong(line) ==
  LET value == ValueOf(SubSeq(line.chars, 1, GroupChars), Radix) + ByteRadix ^ GroupBytes
  IN  [line EXCEPT !.chars = <<value \div Radix ^ (GroupChars - 1)>>
                             \o Tail(DigitsOf(value, Radix, GroupChars))
                             \o SubSeq(@, GroupChars + 1, Len(@))]

(* The ways one thing can be wrong with a block. *)
Damaged(block, damage) ==
  LET onLine(i, line) == [block EXCEPT !.lines[i] = line]
      ls == block.lines
  IN  CASE damage = "longer" -> {onLine(i, [ls[i] EXCEPT !.len = @ + 1]) : i \in DOMAIN ls}
        [] damage = "shorter" -> {onLine(i, [ls[i] EXCEPT !.len = @ - 1]) : i \in DOMAIN ls}
        [] damage = "dropped" -> {[block EXCEPT !.lines = SubSeq(@, 1, n)] : n \in 0..Len(ls) - 1}
        [] damage = "count" -> {onLine(1, [ls[1] EXCEPT !.chars = Tail(@)])}
        [] damage = "char" -> {onLine(1, [ls[1] EXCEPT !.chars[1] = Radix])}
        [] damage = "overlong" -> {onLine(i, Overlong(ls[i])) : i \in DOMAIN ls}
        [] damage = "size" -> {[block EXCEPT !.size = @ + 1], [block EXCEPT !.size = 1000]}
        [] OTHER -> {block}

(* ... and with a delta, before it is compressed or in what it is given. *)
DeltaDamages == {"opcode", "cut", "far", "digits", "base"}
DamagedDelta(delta, damage) ==
  CASE damage = "opcode" -> Append(delta, 0)
    [] damage = "cut" -> Front(delta)
    [] damage = "far" -> delta \o <<Flag + 1 + 2 + 4 + 16, 1, 1, 1, 1>>
    [] damage = "digits" -> [i \in 1..SizeDigits + 1 |-> Flag] \o delta
    [] OTHER -> delta

MkInput(forward, back, old, new, damage) ==
  [full |-> damage # "marker", forward |-> forward, reverse |-> back,
   old |-> old, new |-> new,
   base |-> IF damage = "base" THEN Append(old, 0) ELSE old, damage |-> damage]

DeltaBlock(old, is, digits, damage) ==
  MkBlock("delta", DamagedDelta(DeltaOf(old, is, digits), damage))

(* A delta forward and a literal back, and the other way round. *)
InputsOf(old, is, digits, damage) ==
  {MkInput(block, Literal(old), old, Result(old, is), damage) :
     block \in Damaged(DeltaBlock(old, is, digits, damage), damage)}
  \cup
  {MkInput(block, DeltaBlock(old, is, digits, "none"), Result(old, is), old, damage) :
     block \in IF damage \in DeltaDamages THEN {} ELSE Damaged(Literal(old), damage)}

Contents == {<<>>, <<7>>, <<7, 8, 9, 7>>}

MCInputs ==
  UNION {UNION {InputsOf(old, is, digits, damage) :
                  is \in BoundedSeq(Instructions(old),
                                    IF damage = "none" THEN MaxInstructions ELSE MaxDamaged)} :
         old \in Contents, digits \in 1..2, damage \in Damages}

=============================================================================
