-------------------------------- MODULE HLFS --------------------------------
(***************************************************************************)
(* The Halden File System (hlfs/fs.cpp): a table of MAX_FILES node slots   *)
(* in memory.  A node is named by its absolute path, its parent is a slot  *)
(* index, and the two are kept independently of each other.                *)
(*                                                                         *)
(* A path is the sequence of its components: "/" is <<>>, "/etc/motd" is   *)
(* <<"etc", "motd">>.  A typed name is a sequence too, because the dialogs *)
(* that produce it accept '/' like any other character; a component is     *)
(* never empty (no leading, trailing or doubled slash is typed).           *)
(***************************************************************************)
EXTENDS Integers, Sequences

CONSTANTS MaxFiles,   \* MAX_FILES
          Comp,       \* the components of a path
          Names,      \* the names a caller passes: non-empty sequences
          Paths,      \* the paths a caller passes
          Contents,   \* what a file can hold
          Empty,      \* the buffer as memset leaves it, and the empty text
          NewFile,    \* "New file\n"
          NewSource,  \* "// New source file\n"
          BootTree    \* the nodes init_hlfs creates, in order

FileType == {"FILE_REGULAR", "FILE_DIRECTORY", "FILE_DEVICE", "FILE_SOURCE"}

\* The types that own a content buffer.
HasContent(type) == type \in {"FILE_REGULAR", "FILE_SOURCE"}

BootNode == [path : Seq(Comp), name : Seq(Comp), type : FileType,
             data : Contents, parent : Int]

ASSUME MaxFilesAssumption == MaxFiles \in Nat \ {0}

ASSUME InputAssumption ==
    /\ Names \subseteq Seq(Comp)
    /\ \A n \in Names : n # <<>>
    /\ Paths \subseteq Seq(Comp)
    /\ {Empty, NewFile, NewSource} \subseteq Contents

\* What init_hlfs guarantees of the tree it builds.  That a node's path lies
\* below its parent's path is not part of it: /hlfs/src/hlfs/fs.cpp is created
\* with /hlfs/src/system for a parent.
ASSUME BootAssumption ==
    /\ BootTree \in Seq(BootNode)
    /\ Len(BootTree) \in 1..MaxFiles
    /\ BootTree[1].path = <<>>
    /\ BootTree[1].type = "FILE_DIRECTORY"
    /\ \A i \in 2..Len(BootTree) :
          /\ BootTree[i].path # <<>>
          /\ BootTree[i].name = <<BootTree[i].path[Len(BootTree[i].path)]>>
          /\ BootTree[i].parent \in 0..(i - 2)
          /\ BootTree[BootTree[i].parent + 1].type = "FILE_DIRECTORY"
    /\ \A i, j \in 1..Len(BootTree) :
          BootTree[i].path = BootTree[j].path => i = j

VARIABLES filesystem,           \* the slots
          fs_node_count,        \* slots handed out so far
          content_storage_used, \* which content buffers are taken
          content_storage_data  \* what they hold

fsvars == <<filesystem, fs_node_count, content_storage_used,
            content_storage_data>>

Slots == 0..(MaxFiles - 1)

\* "content" tells whether the node's pointer is set; when it is, it points
\* at the content buffer of its own slot.
FSNode == [in_use : BOOLEAN, name : Seq(Comp), path : Seq(Comp),
           type : FileType, content : BOOLEAN, parent_index : Int]

Node(path, name, type, parent) ==
    [in_use |-> TRUE, name |-> name, path |-> path, type |-> type,
     content |-> HasContent(type), parent_index |-> parent]

\* A slot as memset leaves it.
ZeroNode == [in_use |-> FALSE, name |-> <<>>, path |-> <<>>,
             type |-> "FILE_REGULAR", content |-> FALSE, parent_index |-> 0]

\* The path strcpy and strcat build from a directory and a name.
Join(path, name) == path \o name

\* The path with everything from its last slash on cut away.
ParentPath(path) == SubSeq(path, 1, Len(path) - 1)

Holds(i, path) == /\ i < fs_node_count
                  /\ filesystem[i].in_use
                  /\ filesystem[i].path = path

Exists(path) == \E i \in Slots : Holds(i, path)

\* The first slot in use that holds the path, or -1.
find_node_by_path(path) ==
    IF Exists(path)
    THEN CHOOSE i \in Slots : /\ Holds(i, path)
                              /\ \A j \in Slots : Holds(j, path) => i <= j
    ELSE -1

IsDirectory(path) == /\ Exists(path)
                     /\ filesystem[find_node_by_path(path)].type = "FILE_DIRECTORY"

IsFile(path) == /\ Exists(path)
                /\ HasContent(filesystem[find_node_by_path(path)].type)

\* The slots one component below path.
Below(path) == {i \in Slots : /\ i < fs_node_count
                              /\ filesystem[i].in_use
                              /\ filesystem[i].path # <<>>
                              /\ ParentPath(filesystem[i].path) = path}

\* The loop of get_directory_contents: slot n - 1 is looked at in round n.
Collected(S) ==
    LET indices[n \in 0..MaxFiles] ==
          IF n = 0 THEN <<>>
          ELSE IF n - 1 \in S THEN Append(indices[n - 1], n - 1)
                              ELSE indices[n - 1]
    IN  indices[MaxFiles]

DirectoryContents(path) == Collected(Below(path))

Readable(path) == /\ IsFile(path)
                  /\ filesystem[find_node_by_path(path)].content

read_file_content(path) == content_storage_data[find_node_by_path(path)]
-----------------------------------------------------------------------------
Init ==
    /\ fs_node_count = Len(BootTree)
    /\ filesystem = [i \in Slots |->
            IF i < Len(BootTree)
            THEN Node(BootTree[i + 1].path, BootTree[i + 1].name,
                      BootTree[i + 1].type, BootTree[i + 1].parent)
            ELSE ZeroNode]
    /\ content_storage_used = [i \in Slots |->
            i < Len(BootTree) /\ HasContent(BootTree[i + 1].type)]
    /\ content_storage_data = [i \in Slots |->
            IF i < Len(BootTree) THEN BootTree[i + 1].data ELSE Empty]

DefaultContent(type) == IF type = "FILE_SOURCE" THEN NewSource ELSE NewFile

\* Mutant: the limit is tested one too late.
HasRoomOffByOne == fs_node_count <= MaxFiles

HasRoom == fs_node_count < MaxFiles

\* Mutant: a freed slot is handed out again.
ReusedSlot == IF \E i \in Slots : i < fs_node_count /\ ~filesystem[i].in_use
              THEN CHOOSE i \in Slots : i < fs_node_count /\ ~filesystem[i].in_use
              ELSE fs_node_count

\* The slot create_node hands out.
NextSlot == fs_node_count

create_node(path, name, type, data, parent) ==
    /\ HasRoom
    /\ fs_node_count' = fs_node_count + 1
    /\ filesystem' =
          [filesystem EXCEPT ![NextSlot] = Node(path, name, type, parent)]
    /\ content_storage_used' =
          [content_storage_used EXCEPT ![NextSlot] = HasContent(type)]
    /\ content_storage_data' =
          [content_storage_data EXCEPT
              ![NextSlot] = IF HasContent(type) THEN data ELSE @]

CanCreate(parent_path, name) == /\ IsDirectory(parent_path)
                                /\ ~Exists(Join(parent_path, name))
                                /\ HasRoom

create_file_in_fs(parent_path, name, type) ==
    /\ CanCreate(parent_path, name)
    /\ create_node(Join(parent_path, name), name, type, DefaultContent(type),
                   find_node_by_path(parent_path))

\* Mutant: a directory is deleted whatever it holds.
CanDeleteFull(path) == Exists(path) /\ find_node_by_path(path) # 0

\* A directory is kept while a slot in use names it as its parent.
CanDelete(path) ==
    LET idx == find_node_by_path(path)
    IN  /\ Exists(path)
        /\ idx # 0
        /\ filesystem[idx].type = "FILE_DIRECTORY" =>
             \A i \in Slots : ~ (/\ i < fs_node_count
                                 /\ filesystem[i].in_use
                                 /\ filesystem[i].parent_index = idx)

\* Mutant: the deleted node's buffer stays marked as taken.
BufferLeaked(idx) == content_storage_used

BufferReleased(idx) ==
    [content_storage_used EXCEPT ![idx] = IF filesystem[idx].content THEN FALSE ELSE @]

delete_file_from_fs(path) ==
    LET idx == find_node_by_path(path)
    IN  /\ CanDelete(path)
        /\ filesystem' = [filesystem EXCEPT ![idx].in_use = FALSE,
                                            ![idx].content = FALSE]
        /\ content_storage_used' = BufferReleased(idx)
        /\ UNCHANGED <<fs_node_count, content_storage_data>>

\* Mutant: the new path is built below the old one.
RenamedBelow(old_path, new_name) == Join(old_path, new_name)

RenamedPath(old_path, new_name) == Join(ParentPath(old_path), new_name)

\* Mutant: the new path is not looked up first.
CanRenameUnchecked(old_path, new_name) ==
    Exists(old_path) /\ find_node_by_path(old_path) # 0

CanRename(old_path, new_name) ==
    /\ Exists(old_path)
    /\ find_node_by_path(old_path) # 0
    /\ ~Exists(RenamedPath(old_path, new_name))

\* Only the node itself gets the new path; what lies below keeps the old one.
rename_file_in_fs(old_path, new_name) ==
    LET idx == find_node_by_path(old_path)
    IN  /\ CanRename(old_path, new_name)
        /\ filesystem' = [filesystem EXCEPT
                ![idx].name = new_name,
                ![idx].path = RenamedPath(old_path, new_name)]
        /\ UNCHANGED <<fs_node_count, content_storage_used, content_storage_data>>

write_file_content(path, text) ==
    LET idx == find_node_by_path(path)
    IN  /\ IsFile(path)
        /\ filesystem' = [filesystem EXCEPT ![idx].content = TRUE]
        /\ content_storage_used' =
              [content_storage_used EXCEPT
                  ![idx] = IF filesystem[idx].content THEN @ ELSE TRUE]
        /\ content_storage_data' = [content_storage_data EXCEPT ![idx] = text]
        /\ UNCHANGED fs_node_count

\* A call that returns false (or -1) and leaves everything as it was.
Refused == /\ ~ \A p \in Paths :
                   /\ CanDelete(p)
                   /\ IsFile(p)
                   /\ \A n \in Names : CanCreate(p, n) /\ CanRename(p, n)
           /\ UNCHANGED fsvars

\* The types the callers of create_file_in_fs pass.
CreateTypes == {"FILE_REGULAR", "FILE_DIRECTORY"}

Next == \/ \E p \in Paths, n \in Names, t \in CreateTypes : create_file_in_fs(p, n, t)
        \/ \E p \in Paths : delete_file_from_fs(p)
        \/ \E p \in Paths, n \in Names : rename_file_in_fs(p, n)
        \/ \E p \in Paths, c \in Contents : write_file_content(p, c)
        \/ Refused

Spec == Init /\ [][Next]_fsvars
-----------------------------------------------------------------------------
(***************************************************************************)
(* Properties.                                                             *)
(***************************************************************************)
InUse == {i \in Slots : filesystem[i].in_use}

\* Every variable has its type.
TypeOK == /\ filesystem \in [Slots -> FSNode]
          /\ fs_node_count \in 1..MaxFiles
          /\ content_storage_used \in [Slots -> BOOLEAN]
          /\ content_storage_data \in [Slots -> Contents]

\* find_node_by_path returns the first match, so a second node with the same
\* path could never be read, renamed or deleted: no create and no rename
\* brings two nodes in use to one path.
PathUnique == \A i, j \in InUse : filesystem[i].path = filesystem[j].path => i = j

\* The parent index of a node in use is an older slot that is still in use and
\* still a directory: delete_file_from_fs never leaves a child with a freed
\* parent, whatever renames happened before, and the root is never lost.
ParentAlive ==
    /\ 0 \in InUse
    /\ filesystem[0].path = <<>>
    /\ filesystem[0].type = "FILE_DIRECTORY"
    /\ \A i \in InUse \ {0} :
          /\ filesystem[i].parent_index \in InUse
          /\ filesystem[i].parent_index < i
          /\ filesystem[filesystem[i].parent_index].type = "FILE_DIRECTORY"

\* content_storage_used says exactly which buffers a live node points at, a
\* live file always has its buffer (so reading a file that is found never
\* fails), and nothing above the high-water mark is in use.
StorageExact ==
    \A i \in Slots :
       /\ content_storage_used[i] <=> (i \in InUse /\ filesystem[i].content)
       /\ i \in InUse => /\ i < fs_node_count
                         /\ filesystem[i].content <=> HasContent(filesystem[i].type)

\* A slot index names one file for ever: once its node is deleted the slot is
\* never handed out again, so an index a caller kept (the file manager keeps a
\* table of them) is dead or names the node it was taken for, and the table is
\* used up by creations even when the files are deleted.
SlotNamesOneNode ==
    [][/\ fs_node_count' >= fs_node_count
       /\ \A i \in 0..(fs_node_count - 1) :
             /\ filesystem'[i].in_use => filesystem[i].in_use
             /\ filesystem'[i].type = filesystem[i].type
             /\ filesystem'[i].parent_index = filesystem[i].parent_index]_fsvars

\* The path of the node lies directly below its parent's.
Attached(i) ==
    ParentPath(filesystem[i].path) = filesystem[filesystem[i].parent_index].path

\* Paths and parent indices drift apart in two ways only: the parent was
\* renamed, or the node was just given a name with a slash in it.  Deleting,
\* writing and every other create or rename keeps the two trees together.
DetachedByRenameOnly ==
    [][\A i \in InUse' \ {0} :
          \/ Attached(i)'
          \/ i \in InUse /\ ~Attached(i)
          \/ Len(filesystem'[i].name) > 1
          \/ LET parent == filesystem[i].parent_index
             IN  i \in InUse /\ filesystem'[parent].path # filesystem[parent].path
      ]_fsvars

\* The directory tree a path promises: whatever lies below "/" lies in a
\* directory that exists ("Unix-like directory structure", hlfs/fs.cpp:246).
UnixTree ==
    \A i \in InUse \ {0} : IsDirectory(ParentPath(filesystem[i].path))
=============================================================================
