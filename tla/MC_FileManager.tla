--------------------------- MODULE MC_FileManager ---------------------------
(***************************************************************************)
(* Small instances of FileManager for TLC.                                 *)
(***************************************************************************)
EXTENDS FileManager

\* A folder with a file in it, beside nothing: the shape of /home.
SmallTree == <<
    [path |-> <<>>, name |-> <<>>, type |-> "FILE_DIRECTORY",
     data |-> Empty, parent |-> -1],
    [path |-> <<"a">>, name |-> <<"a">>, type |-> "FILE_DIRECTORY",
     data |-> Empty, parent |-> 0],
    [path |-> <<"a", "b">>, name |-> <<"b">>, type |-> "FILE_REGULAR",
     data |-> Empty, parent |-> 1]>>

SmallComp == {"a", "b"}
SmallNames == {<<"b">>, <<"a", "b">>}
NoPaths == {}
=============================================================================
