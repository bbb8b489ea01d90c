------------------------------ MODULE RoundTrip ------------------------------
(***************************************************************************)
(* create_patch and apply together: the hunks that to_hunks makes of a     *)
(* solution are applied to the text they were made from, or, reversed      *)
(* (Patch::reverse), to the text they lead to.  Composes Hunks and         *)
(* ApplyPatch; apply() may also be called on any patch and a text it was   *)
(* not made from, as it is when the text has changed since: what           *)
(* ApplyPatch promises (AppliesAll, KeepsPatchedLines) is for both.        *)
(***************************************************************************)
EXTENDS Hunks, ApplyPatch

CONSTANT
  Directions   \* which of FALSE (as made) and TRUE (reversed) to apply

ASSUME DirectionsAssumption == Directions \subseteq BOOLEAN

VARIABLE
  reversed   \* is the patch reversed before it is applied?

rvars == <<hvars, reversed, avars>>

MadePatch ==
  /\ Init
  /\ reversed \in Directions
  /\ patch = <<>> /\ base = <<>> /\ image = <<>> /\ next = 1 /\ result = "idle"

GivenPatch ==
  /\ old = <<>> /\ new = <<>> /\ contextLen = 0
  /\ solution = <<>> /\ step = "done" /\ script = <<>> /\ idx = 1 /\ hunk = NoHunk
  /\ hunks = <<>> /\ reversed = FALSE
  /\ ApplyInit

RTInit == MadePatch \/ GivenPatch

MakePatch ==
  /\ Next
  /\ UNCHANGED <<reversed, avars>>

StartApply ==
  /\ step = "done" /\ result = "idle"
  /\ patch' = IF reversed THEN ReversePatch(hunks) ELSE hunks
  /\ base' = IF reversed THEN new ELSE old
  /\ image' = Unpatched(base')
  /\ result' = "applying"
  /\ UNCHANGED <<hvars, reversed, next>>

ApplyStep ==
  /\ ApplyNext
  /\ UNCHANGED <<hvars, reversed>>

RTNext == MakePatch \/ StartApply \/ ApplyStep

RTSpec == RTInit /\ [][RTNext]_rvars /\ WF_rvars(RTNext)

-----------------------------------------------------------------------------
(* Properties *)

(* The types of both parts; until the patch is made apply() is idle. *)
RTTypeOK == TypeOK /\ (result # "idle" => ApplyTypeOK)

(***************************************************************************)
(* lib.rs on patches: "you can apply it to a base image in order to        *)
(* recover the new text".  An exact patch never fails on its own base and  *)
(* never settles on another place where its lines also happen to match;    *)
(* reversed, it recovers the original text from the new one.               *)
(***************************************************************************)
Recovers ==
  /\ result # "error"
  /\ result = "ok" => Text(image) = (IF reversed THEN old ELSE new)

(***************************************************************************)
(* With at least one line of context, that is, and then it is never a      *)
(* matter of searching: the line the hunk names is where its lines stand,  *)
(* however much the hunks before it have moved.                            *)
(***************************************************************************)
AppliesInPlace ==
  result = "applying" /\ next <= Len(patch) =>
    Matches(image, patch[next].lines, StartPos(image, patch[next]))
RecoversWithContext == contextLen > 0 => Recovers /\ AppliesInPlace

=============================================================================
