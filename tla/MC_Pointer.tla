----------------------------- MODULE MC_Pointer ------------------------------
(***************************************************************************)
(* Small instances of Pointer for TLC.                                     *)
(***************************************************************************)
EXTENDS Pointer

\* One that looks like a header (8), one that does not, and the least a byte holds.
SomeMoves == {8, -127, -128}
=============================================================================
