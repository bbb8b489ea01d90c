-------------------------------- MODULE Texts --------------------------------
(***************************************************************************)
(* The two texts that diff() and compact() both work on.                   *)
(***************************************************************************)
EXTENDS Alignments

CONSTANTS
  Symbol,   \* the elements that are compared (line ids)
  Inputs    \* the <<old, new>> pairs of texts that are diffed

ASSUME InputsAssumption == Inputs \subseteq Seq(Symbol) \X Seq(Symbol)

VARIABLES old, new

texts == <<old, new>>

=============================================================================
