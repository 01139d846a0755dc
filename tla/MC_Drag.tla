------------------------------ MODULE MC_Drag --------------------------------
(***************************************************************************)
(* A small instance of Drag for TLC: two columns of grip, then one column  *)
(* for each box.                                                           *)
(***************************************************************************)
EXTENDS Drag

OnePixel == {-1, 0, 1}
Third == {3}
Second == {2}
First == {1}
=============================================================================
