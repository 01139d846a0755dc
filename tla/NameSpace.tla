------------------------------ MODULE NameSpace ------------------------------
(***************************************************************************)
(* What the file system promises its callers, with no slots, indices or    *)
(* buffers: a map from paths to files.  Each call touches the one path it  *)
(* was given, a call that fails touches nothing, and a file holds the last *)
(* text written to it under any of the names it had since.                 *)
(***************************************************************************)
EXTENDS Sequences, Functions

CONSTANTS Names, Paths, Contents, NewFile, NoData

VARIABLE files   \* a function from paths to [type, data]

Kind(p) == files[p].type

File(type, data) == [type |-> type, data |-> data]

Put(p, f) == [q \in DOMAIN files \cup {p} |-> IF q = p THEN f ELSE files[q]]

NSCreate(p, n) ==
    /\ p \in DOMAIN files
    /\ Kind(p) = "FILE_DIRECTORY"
    /\ p \o n \notin DOMAIN files
    /\ \/ files' = Put(p \o n, File("FILE_REGULAR", NewFile))
       \/ files' = Put(p \o n, File("FILE_DIRECTORY", NoData))

NSDelete(p) == /\ p \in DOMAIN files
               /\ p # <<>>
               /\ files' = Restrict(files, DOMAIN files \ {p})

NSWrite(p, c) ==
    /\ p \in DOMAIN files
    /\ Kind(p) \in {"FILE_REGULAR", "FILE_SOURCE"}
    /\ files' = [files EXCEPT ![p].data = c]

\* The file moves; everything else stays where it is.
NSRename(p, q) ==
    /\ p \in DOMAIN files
    /\ p # <<>>
    /\ q \notin DOMAIN files
    /\ files' = [r \in (DOMAIN files \ {p}) \cup {q} |->
                     IF r = q THEN files[p] ELSE files[r]]

NSNext == \E p \in Paths :
             \/ \E n \in Names :
                   \/ NSCreate(p, n)
                   \/ NSRename(p, SubSeq(p, 1, Len(p) - 1) \o n)
             \/ NSDelete(p)
             \/ \E c \in Contents : NSWrite(p, c)

NSInit == /\ <<>> \in DOMAIN files
          /\ Kind(<<>>) = "FILE_DIRECTORY"

NSSpec == NSInit /\ [][NSNext]_files
=============================================================================
