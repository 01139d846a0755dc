----------------------------- MODULE MC_HLFSBoot -----------------------------
(***************************************************************************)
(* HLFS on the tree that init_hlfs really builds.  Calls are limited to    *)
(* the corner where a node's path and its parent index disagree from the   *)
(* start.                                                                  *)
(***************************************************************************)
EXTENDS HLFS

Boot == INSTANCE HLFSBoot WITH Text <- NewFile

RealTree == Boot!Tree

RealComp == UNION {{p[k] : k \in 1..Len(p)} :
                       p \in {RealTree[i].path : i \in 1..Len(RealTree)}}

CornerPaths == {<<"hlfs", "src">>,
                <<"hlfs", "src", "system">>,
                <<"hlfs", "src", "hlfs">>,
                <<"hlfs", "src", "hlfs", "fs.cpp">>}

CornerNames == {<<"hlfs">>, <<"src">>}
=============================================================================
