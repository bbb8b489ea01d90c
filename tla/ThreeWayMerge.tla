--------------------------- MODULE ThreeWayMerge ---------------------------
(***************************************************************************)
(* The textbook three-way merge (diff3), stated on matched lines instead   *)
(* of ranges: a reference definition that models no code.  The ancestor    *)
(* lines which both sides keep are stable.  Between two stable lines (or   *)
(* the ends) lies one chunk of each text, and a chunk is settled as a      *)
(* whole.                                                                  *)
(***************************************************************************)
EXTENDS Alignments, SequencesExt

(* The <<old position, new position>> pairs that a diff matches. *)
Matches(ds) ==
  UNION {{<<ds[n].old.offset + x, ds[n].new.offset + x>> : x \in 1..ds[n].old.len} :
           n \in {m \in DOMAIN ds : ds[m].kind = "Equal"}}

(* The places of the stable lines in the three texts, with a line before    *)
(* the first one of the texts and one after the last.                       *)
StableLines(texts, ourDiff, theirDiff) ==
  {<<m[1][1], m[1][2], m[2][2]>> :
     m \in {x \in Matches(ourDiff) \X Matches(theirDiff) : x[1][1] = x[2][1]}}
  \cup {<<0, 0, 0>>, <<Len(texts[1]) + 1, Len(texts[2]) + 1, Len(texts[3]) + 1>>}

(* The last of the stable lines that come before the ancestor's line a. *)
LastBefore(lines, a) ==
  CHOOSE last \in lines :
    last[1] < a /\ \A line \in lines : line[1] < a => line[1] <= last[1]

(* The stable line that has the ancestor's line a. *)
StableAt(lines, a) == CHOOSE line \in lines : line[1] = a

(* How the chunk a, o, t of the three texts is settled. *)
Clean(lines) == [conflict |-> FALSE, lines |-> lines]
Settle(a, o, t) ==
  IF o = t THEN Clean(o)
  ELSE IF a = o THEN Clean(t)
  ELSE IF a = t THEN Clean(o)
  ELSE [conflict |-> TRUE, original |-> a, ours |-> o, theirs |-> t]

ChunkBefore(texts, lines, line) ==
  LET last == LastBefore(lines, line[1])
      chunk(side) == SubSeq(texts[side], last[side] + 1, line[side] - 1)
  IN  Settle(chunk(1), chunk(2), chunk(3))

(* Line by line of the ancestor, the end included, what it adds to the      *)
(* merged text: a stable line the settled chunk before it and itself.       *)
ThreeWay(texts, ourDiff, theirDiff) ==
  LET lines == StableLines(texts, ourDiff, theirDiff)
  IN  [a \in 1..Len(texts[1]) + 1 |->
         IF \E line \in lines : line[1] = a
         THEN [chunk |-> ChunkBefore(texts, lines, StableAt(lines, a)),
               line |-> IF a <= Len(texts[1]) THEN <<texts[1][a]>> ELSE <<>>]
         ELSE [chunk |-> Clean(<<>>), line |-> <<>>]]

=============================================================================
