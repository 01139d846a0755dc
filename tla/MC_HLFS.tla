------------------------------ MODULE MC_HLFS ------------------------------
(***************************************************************************)
(* Small instances of HLFS for TLC.                                        *)
(***************************************************************************)
EXTENDS HLFSRefinement

\* Two directories, one below the other, and a file: the shape of
\* /hlfs/src/kernel.cpp, with the components shortened to two.
SmallTree == <<
    [path |-> <<>>, name |-> <<>>, type |-> "FILE_DIRECTORY",
     data |-> Empty, parent |-> -1],
    [path |-> <<"a">>, name |-> <<"a">>, type |-> "FILE_DIRECTORY",
     data |-> Empty, parent |-> 0],
    [path |-> <<"a", "b">>, name |-> <<"b">>, type |-> "FILE_SOURCE",
     data |-> Empty, parent |-> 1]>>

SmallComp == {"a", "b", "c"}

\* A plain name, and one with a slash in it.
SmallNames == {<<"a">>, <<"b", "a">>}

\* Every path of at most two components.
SmallPaths == UNION {[1..n -> {"a", "b"}] : n \in 0..2}
=============================================================================
