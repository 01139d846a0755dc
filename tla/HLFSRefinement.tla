--------------------------- MODULE HLFSRefinement ---------------------------
(***************************************************************************)
(* The slot table of HLFS implements the map of NameSpace: slots, indices  *)
(* and buffers are hidden, and a path maps to the first slot in use that   *)
(* holds it.                                                               *)
(***************************************************************************)
EXTENDS HLFS

NoData == "no data"

FilesView ==
    [p \in {filesystem[i].path : i \in InUse} |->
        LET i == find_node_by_path(p)
        IN  [type |-> filesystem[i].type,
             data |-> IF filesystem[i].content THEN content_storage_data[i] ELSE NoData]]

NS == INSTANCE NameSpace WITH files <- FilesView

\* Every create, rename, write and delete of the slot table is the same call on
\* a plain map from paths to files, and every refused call is no step at all:
\* a call never shows through at another path, a renamed file keeps its text,
\* a new file never shows what an earlier one left in the buffer.
ImplementsNameSpace == NS!NSSpec
=============================================================================
