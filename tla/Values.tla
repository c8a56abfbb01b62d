-------------------------------- MODULE Values --------------------------------
(***************************************************************************)
(* What the modules of the conversions share.  A text is a sequence of     *)
(* characters, most of them one-letter strings; the two that a TLA+ string *)
(* would have to escape have names.                                        *)
(***************************************************************************)
EXTENDS Integers, SequencesExt, FiniteSetsExt, Functions, TLC

CONSTANT None  \* Python's None: no value

Quote == "quote"
Backslash == "backslash"
=============================================================================
