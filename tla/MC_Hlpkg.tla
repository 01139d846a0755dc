------------------------------ MODULE MC_Hlpkg ------------------------------
(***************************************************************************)
(* Small instances of Hlpkg for TLC.                                       *)
(***************************************************************************)
EXTENDS Hlpkg, Signature

\* A loader whose signature test passes at every uptime.
AlwaysValid(t) == TRUE
=============================================================================
