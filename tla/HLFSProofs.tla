----------------------------- MODULE HLFSProofs -----------------------------
(***************************************************************************)
(* Proofs about HLFS for every size of the table, every boot tree that     *)
(* satisfies BootAssumption and every set of names, paths and texts: its   *)
(* invariants, the listing of a directory, and that the slot table         *)
(* implements the map of NameSpace.                                        *)
(***************************************************************************)
EXTENDS HLFSRefinement, TLAPS, WellFoundedInduction

\* The inductive invariant.  No conjunct is inductive alone: a lookup finds the
\* one node of its path because paths are unique, the child test of a delete
\* covers every child because parents are directories, and a created node lands
\* on a free slot because nothing above the high-water mark is in use.
HLFSInv == TypeOK /\ PathUnique /\ ParentAlive /\ StorageExact

\* A call with any path and any name, whichever of them the callers of an instance
\* pass.
Typed == Seq(Comp) \ {<<>>}

Call == \/ \E p \in Seq(Comp), n \in Typed, t \in CreateTypes : create_file_in_fs(p, n, t)
        \/ \E p \in Seq(Comp) : delete_file_from_fs(p)
        \/ \E p \in Seq(Comp), n \in Typed : rename_file_in_fs(p, n)
        \/ \E p \in Seq(Comp), c \in Contents : write_file_content(p, c)

LEMMA InputsTyped == Paths \subseteq Seq(Comp) /\ Names \subseteq Typed
  BY InputAssumption DEF Typed

LEMMA NextCalls == [Next]_fsvars => [Call]_fsvars
  BY InputsTyped DEF Next, Call, Refused

-----------------------------------------------------------------------------
\* Joining a name to a path gives a path.
LEMMA JoinType ==
    ASSUME NEW p \in Seq(Comp), NEW n \in Seq(Comp)
    PROVE  Join(p, n) \in Seq(Comp)
  BY DEF Join

\* A joined path is never the root's: find_node_by_path("/") keeps meaning
\* slot 0 whatever is typed.
LEMMA JoinNotRoot ==
    ASSUME NEW p \in Seq(Comp), NEW n \in Seq(Comp), n # <<>>
    PROVE  Join(p, n) # <<>>
  <1>1. Len(Join(p, n)) = Len(p) + Len(n)
    BY DEF Join
  <1>2. Len(n) > 0 /\ Len(p) \in Nat
    BY SMT
  <1>3. QED
    BY <1>1, <1>2, SMT

\* Cutting the last component off a path leaves a path.
LEMMA ParentPathType ==
    ASSUME NEW p \in Seq(Comp), p # <<>>
    PROVE  ParentPath(p) \in Seq(Comp)
  <1>1. Len(p) \in Nat /\ Len(p) > 0
    BY SMT
  <1>2. \A i \in 1..(Len(p) - 1) : p[i] \in Comp
    BY <1>1, SMT
  <1>3. QED
    BY <1>1, <1>2 DEF ParentPath

\* find_node_by_path returns the slot in use that holds the path, if there is
\* one.
LEMMA FindNode ==
    ASSUME TypeOK, PathUnique, NEW p, Exists(p)
    PROVE  /\ find_node_by_path(p) \in Slots
           /\ Holds(find_node_by_path(p), p)
  <1>1. PICK i \in Slots : Holds(i, p)
    BY DEF Exists
  <1>2. \A j \in Slots : Holds(j, p) => i = j
    BY <1>1 DEF PathUnique, InUse, Holds
  <1>3. \A j \in Slots : Holds(j, p) => i <= j
    BY <1>2, MaxFilesAssumption DEF Slots
  <1>4. QED
    BY <1>1, <1>3 DEF find_node_by_path

\* What the callers of a lookup need: the slot is live and has the path.
COROLLARY FindNodeFacts ==
    ASSUME HLFSInv, NEW p, Exists(p)
    PROVE  LET idx == find_node_by_path(p)
           IN  /\ idx \in InUse
               /\ idx < fs_node_count
               /\ filesystem[idx].path = p
  BY FindNode DEF HLFSInv, Holds, InUse

\* A path no lookup finds is held by no node in use.
LEMMA NotFound ==
    ASSUME HLFSInv, NEW p, ~Exists(p)
    PROVE  \A i \in InUse : filesystem[i].path # p
  BY DEF HLFSInv, StorageExact, Exists, Holds, InUse

\* A fresh node is a node.
LEMMA NodeType ==
    ASSUME NEW p \in Seq(Comp), NEW n \in Seq(Comp), NEW t \in FileType, NEW q \in Int
    PROVE  Node(p, n, t, q) \in FSNode
  BY DEF Node, FSNode, HasContent

-----------------------------------------------------------------------------
\* The tree init_hlfs builds satisfies the invariant.
LEMMA InitInv == Init => HLFSInv
  <1> SUFFICES ASSUME Init PROVE HLFSInv
    OBVIOUS
  <1> DEFINE n == Len(BootTree)
  <1>1. n \in 1..MaxFiles /\ MaxFiles \in Nat \ {0}
    BY BootAssumption, MaxFilesAssumption
  <1>2. \A k \in 1..n : BootTree[k] \in BootNode
    BY BootAssumption
  <1>3. \A i \in Slots : i < n => i + 1 \in 1..n
    BY <1>1 DEF Slots
  <1>4. \A i \in Slots : i < n =>
           /\ filesystem[i] \in FSNode
           /\ filesystem[i].in_use = TRUE
           /\ filesystem[i].path = BootTree[i + 1].path
           /\ filesystem[i].type = BootTree[i + 1].type
           /\ filesystem[i].content = HasContent(BootTree[i + 1].type)
           /\ filesystem[i].parent_index = BootTree[i + 1].parent
    <2> SUFFICES ASSUME NEW i \in Slots, i < n
                 PROVE  /\ filesystem[i] \in FSNode
                        /\ filesystem[i].in_use = TRUE
                        /\ filesystem[i].path = BootTree[i + 1].path
                        /\ filesystem[i].type = BootTree[i + 1].type
                        /\ filesystem[i].content = HasContent(BootTree[i + 1].type)
                        /\ filesystem[i].parent_index = BootTree[i + 1].parent
      OBVIOUS
    <2> DEFINE b == BootTree[i + 1]
    <2>1. filesystem[i] = Node(b.path, b.name, b.type, b.parent)
      BY DEF Init
    <2>2. /\ b.path \in Seq(Comp)
          /\ b.name \in Seq(Comp)
          /\ b.type \in FileType
          /\ b.parent \in Int
      BY <1>2, <1>3 DEF BootNode
    <2> HIDE DEF b
    <2>3. Node(b.path, b.name, b.type, b.parent) \in FSNode
      BY <2>2, NodeType
    <2>4. filesystem[i] \in FSNode
      BY <2>1, <2>3
    <2>5. /\ filesystem[i].in_use = TRUE
          /\ filesystem[i].path = b.path
          /\ filesystem[i].type = b.type
          /\ filesystem[i].content = HasContent(b.type)
          /\ filesystem[i].parent_index = b.parent
      BY <2>1 DEF Node, HasContent
    <2>6. QED
      BY <2>4, <2>5 DEF b
  <1>5. \A i \in Slots : ~(i < n) => filesystem[i] = ZeroNode
    BY DEF Init
  <1>6. \A i \in Slots : i \in InUse <=> i < n
    <2>1. \A i \in Slots : ~(i < n) => filesystem[i].in_use = FALSE
      BY <1>5 DEF ZeroNode
    <2>2. QED
      BY <2>1, <1>4 DEF InUse
  <1>7. TypeOK
    <2>1. ZeroNode \in FSNode
      BY DEF ZeroNode, FSNode, FileType
    <2>2. filesystem \in [Slots -> FSNode]
      BY <2>1, <1>4, <1>5 DEF Init
    <2>3. content_storage_used \in [Slots -> BOOLEAN]
      BY DEF Init, HasContent
    <2>4. content_storage_data \in [Slots -> Contents]
      <3>1. \A i \in Slots : i < n => BootTree[i + 1].data \in Contents
        BY <1>2, <1>3 DEF BootNode
      <3>2. QED
        BY <3>1, InputAssumption DEF Init
    <2>5. QED
      BY <1>1, <2>2, <2>3, <2>4 DEF Init, TypeOK
  <1>8. PathUnique
    <2> SUFFICES ASSUME NEW i \in InUse, NEW j \in InUse,
                        filesystem[i].path = filesystem[j].path
                 PROVE  i = j
      BY DEF PathUnique
    <2>1. i \in Slots /\ j \in Slots /\ i < n /\ j < n
      BY <1>6 DEF InUse
    <2>2. BootTree[i + 1].path = BootTree[j + 1].path
      BY <2>1, <1>4
    <2>3. i + 1 = j + 1
      BY <2>1, <2>2, <1>3, BootAssumption
    <2>4. QED
      BY <2>1, <2>3, <1>1 DEF Slots
  <1>9. ParentAlive
    <2>1. 0 \in Slots /\ 0 < n /\ 0 + 1 = 1
      BY <1>1 DEF Slots
    <2>2. /\ 0 \in InUse
          /\ filesystem[0].path = <<>>
          /\ filesystem[0].type = "FILE_DIRECTORY"
      BY <2>1, <1>4, <1>6, BootAssumption
    <2>3. ASSUME NEW i \in InUse \ {0}
          PROVE  /\ filesystem[i].parent_index \in InUse
                 /\ filesystem[i].parent_index < i
                 /\ filesystem[filesystem[i].parent_index].type = "FILE_DIRECTORY"
      <3> DEFINE parent == BootTree[i + 1].parent
      <3>1. i \in Slots /\ i < n /\ i + 1 \in 2..n
        BY <1>1, <1>6 DEF InUse, Slots
      <3>2. /\ parent \in 0..(i - 1)
            /\ BootTree[parent + 1].type = "FILE_DIRECTORY"
        BY <3>1, <1>1, BootAssumption DEF Slots
      <3>3. parent \in Slots /\ parent < n /\ parent < i
        BY <3>1, <3>2, <1>1 DEF Slots
      <3>4. filesystem[i].parent_index = parent
        BY <3>1, <1>4
      <3>5. filesystem[parent].type = "FILE_DIRECTORY" /\ parent \in InUse
        BY <3>2, <3>3, <1>4, <1>6
      <3>6. QED
        BY <3>3, <3>4, <3>5
    <2>4. QED
      BY <2>2, <2>3 DEF ParentAlive
  <1>10. StorageExact
    <2> SUFFICES ASSUME NEW i \in Slots
                 PROVE  /\ content_storage_used[i] <=> (i \in InUse /\ filesystem[i].content)
                        /\ i \in InUse =>
                              /\ i < fs_node_count
                              /\ filesystem[i].content <=> HasContent(filesystem[i].type)
      BY DEF StorageExact
    <2>1. content_storage_used[i] <=> (i < n /\ HasContent(BootTree[i + 1].type))
      BY DEF Init
    <2>2. fs_node_count = n
      BY DEF Init
    <2>3. CASE i < n
      <3>1. /\ filesystem[i].content = HasContent(BootTree[i + 1].type)
            /\ filesystem[i].type = BootTree[i + 1].type
        BY <2>3, <1>4
      <3>2. QED
        BY <2>1, <2>2, <2>3, <3>1, <1>6
    <2>4. CASE ~(i < n)
      BY <2>1, <2>4, <1>6
    <2>5. QED
      BY <2>3, <2>4
  <1>11. QED
    BY <1>7, <1>8, <1>9, <1>10 DEF HLFSInv

-----------------------------------------------------------------------------
\* Creating a file takes the slot at the high-water mark, which is free.
LEMMA CreateInv ==
    ASSUME HLFSInv, NEW p \in Seq(Comp), NEW n \in Typed, NEW t \in CreateTypes,
           create_file_in_fs(p, n, t)
    PROVE  HLFSInv'
  <1> DEFINE idx == fs_node_count
             path == Join(p, n)
             parent == find_node_by_path(p)
             new == Node(path, n, t, parent)
  <1>1. /\ idx \in Slots
        /\ idx \in Nat
        /\ MaxFiles \in Nat
        /\ fs_node_count' = idx + 1
        /\ fs_node_count' \in 1..MaxFiles
    BY MaxFilesAssumption
    DEF HLFSInv, TypeOK, create_file_in_fs, create_node, HasRoom, Slots
  <1>2. \A i \in InUse : i \in Slots /\ i < idx /\ i # idx
    BY <1>1 DEF HLFSInv, StorageExact, InUse, Slots
  <1>3. /\ parent \in InUse
        /\ parent < idx
        /\ parent \in Int
        /\ filesystem[parent].type = "FILE_DIRECTORY"
    BY FindNodeFacts DEF create_file_in_fs, CanCreate, IsDirectory, InUse, Slots
  <1>4. p \in Seq(Comp) /\ n \in Seq(Comp) /\ n # <<>> /\ t \in FileType
    BY DEF Typed, CreateTypes, FileType
  <1>5. path \in Seq(Comp) /\ path # <<>>
    BY <1>4, JoinType, JoinNotRoot
  <1>6. \A i \in InUse : filesystem[i].path # path
    BY NotFound DEF create_file_in_fs, CanCreate
  <1>7. /\ new \in FSNode
        /\ new.in_use = TRUE
        /\ new.path = path
        /\ new.type = t
        /\ new.content = HasContent(t)
        /\ new.parent_index = parent
    <2>1. new \in FSNode
      BY <1>3, <1>4, <1>5, NodeType
    <2>2. QED
      BY <2>1 DEF Node, HasContent
  <1>8. /\ filesystem' = [filesystem EXCEPT ![idx] = new]
        /\ content_storage_used' = [content_storage_used EXCEPT ![idx] = HasContent(t)]
        /\ content_storage_data' =
              [content_storage_data EXCEPT
                  ![idx] = IF HasContent(t) THEN DefaultContent(t) ELSE @]
    BY DEF create_file_in_fs, create_node, NextSlot
  <1> HIDE DEF new, path, parent
  <1>9. /\ filesystem'[idx] = new
        /\ \A i \in Slots : i # idx => filesystem'[i] = filesystem[i]
    BY <1>1, <1>8 DEF HLFSInv, TypeOK
  <1>10. /\ \A i \in Slots : i \in InUse' <=> i \in InUse \/ i = idx
         /\ \A i \in InUse' : i \in Slots
    BY <1>1, <1>7, <1>9 DEF InUse
  <1>11. TypeOK'
    <2>1. filesystem' \in [Slots -> FSNode]
      BY <1>7, <1>8 DEF HLFSInv, TypeOK
    <2>2. content_storage_used' \in [Slots -> BOOLEAN]
      <3>1. HasContent(t) \in BOOLEAN
        BY DEF HasContent
      <3>2. QED
        BY <3>1, <1>8 DEF HLFSInv, TypeOK
    <2>3. content_storage_data' \in [Slots -> Contents]
      BY <1>8, InputAssumption DEF HLFSInv, TypeOK, DefaultContent
    <2>4. QED
      BY <1>1, <2>1, <2>2, <2>3 DEF TypeOK
  <1>12. PathUnique'
    <2> SUFFICES ASSUME NEW i \in InUse', NEW j \in InUse',
                        filesystem'[i].path = filesystem'[j].path
                 PROVE  i = j
      BY DEF PathUnique
    <2>1. CASE i # idx /\ j # idx
      BY <2>1, <1>9, <1>10 DEF HLFSInv, PathUnique
    <2>2. CASE i = idx \/ j = idx
      BY <2>2, <1>6, <1>7, <1>9, <1>10
    <2>3. QED
      BY <2>1, <2>2
  <1>13. ParentAlive'
    <2>1. /\ 0 \in InUse'
          /\ filesystem'[0].path = <<>>
          /\ filesystem'[0].type = "FILE_DIRECTORY"
      BY <1>2, <1>9, <1>10 DEF HLFSInv, ParentAlive
    <2>2. ASSUME NEW i \in InUse' \ {0}
          PROVE  /\ filesystem'[i].parent_index \in InUse'
                 /\ filesystem'[i].parent_index < i
                 /\ filesystem'[filesystem'[i].parent_index].type = "FILE_DIRECTORY"
      <3>1. CASE i = idx
        BY <3>1, <1>2, <1>3, <1>7, <1>9, <1>10
      <3>2. CASE i # idx
        <4> DEFINE q == filesystem[i].parent_index
        <4>1. i \in InUse \ {0} /\ filesystem'[i] = filesystem[i]
          BY <3>2, <1>9, <1>10
        <4>2. q \in InUse /\ q < i /\ filesystem[q].type = "FILE_DIRECTORY"
          BY <4>1 DEF HLFSInv, ParentAlive
        <4>3. QED
          BY <4>1, <4>2, <1>2, <1>9, <1>10
      <3>3. QED
        BY <3>1, <3>2
    <2>3. QED
      BY <2>1, <2>2 DEF ParentAlive
  <1>14. StorageExact'
    <2> SUFFICES ASSUME NEW i \in Slots
                 PROVE  /\ content_storage_used'[i] <=> (i \in InUse' /\ filesystem'[i].content)
                        /\ i \in InUse' =>
                              /\ i < fs_node_count'
                              /\ filesystem'[i].content <=> HasContent(filesystem'[i].type)
      BY DEF StorageExact
    <2>1. CASE i = idx
      <3>1. content_storage_used'[idx] = HasContent(t)
        BY <1>1, <1>8 DEF HLFSInv, TypeOK
      <3>2. filesystem'[idx].content = HasContent(t) /\ filesystem'[idx].type = t
        BY <1>7, <1>9
      <3>3. idx \in InUse' /\ idx < fs_node_count'
        BY <1>1, <1>10
      <3>4. QED
        BY <2>1, <3>1, <3>2, <3>3
    <2>2. CASE i # idx
      <3>1. /\ content_storage_used'[i] = content_storage_used[i]
            /\ filesystem'[i] = filesystem[i]
            /\ i \in InUse' <=> i \in InUse
        BY <2>2, <1>8, <1>9, <1>10 DEF HLFSInv, TypeOK
      <3>2. /\ content_storage_used[i] <=> (i \in InUse /\ filesystem[i].content)
            /\ i \in InUse => filesystem[i].content <=> HasContent(filesystem[i].type)
        BY DEF HLFSInv, StorageExact
      <3>3. i \in InUse => i < fs_node_count'
        BY <1>1, <1>2 DEF Slots
      <3>4. QED
        BY <3>1, <3>2, <3>3
    <2>3. QED
      BY <2>1, <2>2
  <1>15. QED
    BY <1>11, <1>12, <1>13, <1>14 DEF HLFSInv

-----------------------------------------------------------------------------
\* Deleting a node leaves no child behind: a directory with a child is refused,
\* and nothing but a directory ever has one.
LEMMA DeleteInv ==
    ASSUME HLFSInv, NEW p \in Seq(Comp), delete_file_from_fs(p)
    PROVE  HLFSInv'
  <1> DEFINE idx == find_node_by_path(p)
  <1>1. /\ idx \in InUse
        /\ idx \in Slots
        /\ idx # 0
    BY FindNodeFacts DEF delete_file_from_fs, CanDelete, InUse
  <1>2. filesystem[idx].type = "FILE_DIRECTORY" =>
           \A i \in InUse : filesystem[i].parent_index # idx
    BY DEF delete_file_from_fs, CanDelete, HLFSInv, StorageExact, InUse
  <1>3. \A i \in InUse \ {0} : filesystem[i].parent_index # idx
    BY <1>2 DEF HLFSInv, ParentAlive
  <1>4. /\ filesystem' = [filesystem EXCEPT ![idx].in_use = FALSE, ![idx].content = FALSE]
        /\ content_storage_used' =
              [content_storage_used EXCEPT ![idx] = IF filesystem[idx].content THEN FALSE ELSE @]
        /\ fs_node_count' = fs_node_count
        /\ content_storage_data' = content_storage_data
    BY DEF delete_file_from_fs, BufferReleased
  <1> HIDE DEF idx
  <1>5. TypeOK'
    BY <1>1, <1>4 DEF HLFSInv, TypeOK, FSNode
  <1>6. /\ \A i \in Slots : i # idx => filesystem'[i] = filesystem[i]
        /\ filesystem'[idx].in_use = FALSE
        /\ filesystem'[idx].content = FALSE
    BY <1>1, <1>4 DEF HLFSInv, TypeOK, FSNode
  <1>7. /\ \A i : i \in InUse' <=> i \in InUse /\ i # idx
        /\ \A i \in InUse : i \in Slots
    BY <1>1, <1>6 DEF InUse
  <1>8. PathUnique'
    BY <1>6, <1>7 DEF HLFSInv, PathUnique
  <1>9. ParentAlive'
    <2>1. /\ 0 \in InUse'
          /\ filesystem'[0].path = <<>>
          /\ filesystem'[0].type = "FILE_DIRECTORY"
      BY <1>1, <1>6, <1>7 DEF HLFSInv, ParentAlive
    <2>2. ASSUME NEW i \in InUse' \ {0}
          PROVE  /\ filesystem'[i].parent_index \in InUse'
                 /\ filesystem'[i].parent_index < i
                 /\ filesystem'[filesystem'[i].parent_index].type = "FILE_DIRECTORY"
      <3> DEFINE q == filesystem[i].parent_index
      <3>1. i \in InUse \ {0} /\ filesystem'[i] = filesystem[i]
        BY <1>6, <1>7
      <3>2. q \in InUse /\ q < i /\ filesystem[q].type = "FILE_DIRECTORY" /\ q # idx
        BY <3>1, <1>3 DEF HLFSInv, ParentAlive
      <3>3. QED
        BY <3>1, <3>2, <1>6, <1>7
    <2>3. QED
      BY <2>1, <2>2 DEF ParentAlive
  <1>10. StorageExact'
    <2> SUFFICES ASSUME NEW i \in Slots
                 PROVE  /\ content_storage_used'[i] <=> (i \in InUse' /\ filesystem'[i].content)
                        /\ i \in InUse' =>
                              /\ i < fs_node_count'
                              /\ filesystem'[i].content <=> HasContent(filesystem'[i].type)
      BY DEF StorageExact
    <2>1. /\ content_storage_used[i] <=> (i \in InUse /\ filesystem[i].content)
          /\ i \in InUse =>
                /\ i < fs_node_count
                /\ filesystem[i].content <=> HasContent(filesystem[i].type)
      BY DEF HLFSInv, StorageExact
    <2>2. CASE i = idx
      <3>1. content_storage_used'[idx] = IF filesystem[idx].content THEN FALSE
                                         ELSE content_storage_used[idx]
        BY <1>1, <1>4 DEF HLFSInv, TypeOK
      <3>2. ~content_storage_used'[idx]
        BY <2>1, <2>2, <3>1
      <3>3. QED
        BY <2>2, <3>2, <1>7
    <2>3. CASE i # idx
      <3>1. content_storage_used'[i] = content_storage_used[i]
        BY <2>3, <1>4 DEF HLFSInv, TypeOK
      <3>2. QED
        BY <2>1, <2>3, <3>1, <1>4, <1>6, <1>7
    <2>4. QED
      BY <2>2, <2>3
  <1>11. QED
    BY <1>5, <1>8, <1>9, <1>10 DEF HLFSInv

-----------------------------------------------------------------------------
\* Renaming moves one node to a path nobody holds.
LEMMA RenameInv ==
    ASSUME HLFSInv, NEW p \in Seq(Comp), NEW n \in Typed, rename_file_in_fs(p, n)
    PROVE  HLFSInv'
  <1> DEFINE idx == find_node_by_path(p)
             path == RenamedPath(p, n)
  <1>1. /\ idx \in InUse
        /\ idx \in Slots
        /\ idx # 0
        /\ filesystem[idx].path = p
    BY FindNodeFacts DEF rename_file_in_fs, CanRename, InUse
  <1>2. n \in Seq(Comp) /\ p \in Seq(Comp)
    BY DEF Typed
  <1>3. p # <<>>
    BY <1>1 DEF HLFSInv, ParentAlive, PathUnique
  <1>4. path \in Seq(Comp)
    BY <1>2, <1>3, ParentPathType, JoinType DEF RenamedPath
  <1>5. \A i \in InUse : filesystem[i].path # path
    BY NotFound DEF rename_file_in_fs, CanRename
  <1>6. /\ filesystem' = [filesystem EXCEPT ![idx].name = n, ![idx].path = path]
        /\ content_storage_used' = content_storage_used
        /\ fs_node_count' = fs_node_count
        /\ content_storage_data' = content_storage_data
    BY DEF rename_file_in_fs
  <1> HIDE DEF idx, path
  <1>7. TypeOK'
    BY <1>1, <1>2, <1>4, <1>6 DEF HLFSInv, TypeOK, FSNode
  <1>8. /\ \A i \in Slots :
              /\ i # idx => filesystem'[i].path = filesystem[i].path
              /\ filesystem'[i].in_use = filesystem[i].in_use
              /\ filesystem'[i].type = filesystem[i].type
              /\ filesystem'[i].content = filesystem[i].content
              /\ filesystem'[i].parent_index = filesystem[i].parent_index
        /\ filesystem'[idx].path = path
    BY <1>1, <1>6 DEF HLFSInv, TypeOK, FSNode
  <1>9. InUse' = InUse /\ \A i \in InUse : i \in Slots
    BY <1>8 DEF InUse
  <1>10. PathUnique'
    BY <1>1, <1>5, <1>8, <1>9 DEF HLFSInv, PathUnique
  <1>11. ParentAlive'
    BY <1>1, <1>8, <1>9 DEF HLFSInv, ParentAlive
  <1>12. StorageExact'
    BY <1>6, <1>8, <1>9 DEF HLFSInv, StorageExact
  <1>13. QED
    BY <1>7, <1>10, <1>11, <1>12 DEF HLFSInv

-----------------------------------------------------------------------------
\* Writing changes a buffer that the file already owns.
LEMMA WriteInv ==
    ASSUME HLFSInv, NEW p \in Seq(Comp), NEW c \in Contents, write_file_content(p, c)
    PROVE  HLFSInv'
  <1> DEFINE idx == find_node_by_path(p)
  <1>1. /\ idx \in InUse
        /\ idx \in Slots
        /\ HasContent(filesystem[idx].type)
    BY FindNodeFacts DEF write_file_content, IsFile, InUse
  <1>2. filesystem[idx].content = TRUE /\ content_storage_used[idx] = TRUE
    BY <1>1 DEF HLFSInv, StorageExact, TypeOK, FSNode
  <1>3. /\ filesystem' = [filesystem EXCEPT ![idx].content = TRUE]
        /\ content_storage_used' =
              [content_storage_used EXCEPT ![idx] = IF filesystem[idx].content THEN @ ELSE TRUE]
        /\ content_storage_data' = [content_storage_data EXCEPT ![idx] = c]
        /\ fs_node_count' = fs_node_count
    BY DEF write_file_content
  <1> HIDE DEF idx
  <1>4. filesystem' = filesystem
    BY <1>1, <1>2, <1>3 DEF HLFSInv, TypeOK, FSNode
  <1>5. content_storage_used' = content_storage_used
    BY <1>1, <1>2, <1>3 DEF HLFSInv, TypeOK
  <1>6. content_storage_data' \in [Slots -> Contents]
    BY <1>3 DEF HLFSInv, TypeOK
  <1>7. InUse' = InUse
    BY <1>4 DEF InUse
  <1>8. TypeOK'
    BY <1>3, <1>4, <1>5, <1>6 DEF HLFSInv, TypeOK
  <1>9. PathUnique' /\ ParentAlive'
    BY <1>4, <1>7 DEF HLFSInv, PathUnique, ParentAlive
  <1>10. StorageExact'
    BY <1>3, <1>4, <1>5, <1>7 DEF HLFSInv, StorageExact
  <1>11. QED
    BY <1>8, <1>9, <1>10 DEF HLFSInv

-----------------------------------------------------------------------------
\* Every call keeps the invariant.
LEMMA CallInv == HLFSInv /\ [Call]_fsvars => HLFSInv'
  <1> SUFFICES ASSUME HLFSInv, [Call]_fsvars PROVE HLFSInv'
    OBVIOUS
  <1>1. CASE UNCHANGED fsvars
    BY <1>1 DEF fsvars, HLFSInv, TypeOK, PathUnique, ParentAlive, StorageExact, InUse
  <1>2. QED
    BY <1>1, CreateInv, DeleteInv, RenameInv, WriteInv DEF Call

LEMMA StepInv == HLFSInv /\ [Next]_fsvars => HLFSInv'
  BY NextCalls, CallInv

\* The invariant holds in every reachable state.
THEOREM Inductive == Spec => []HLFSInv
  BY InitInv, StepInv, PTL DEF Spec

-----------------------------------------------------------------------------
(***************************************************************************)
(* The theorems.                                                           *)
(***************************************************************************)

\* The variables keep their types.
THEOREM TypeCorrect == Spec => []TypeOK
  BY Inductive, PTL DEF HLFSInv

\* No create and no rename ever brings two live nodes to one path, so the
\* first match find_node_by_path returns is the only one.
THEOREM PathsStayUnique == Spec => []PathUnique
  BY Inductive, PTL DEF HLFSInv

\* delete_file_from_fs never frees the parent of a live node, nor the root, for
\* every sequence of creates, renames and deletes.
THEOREM ParentsStayAlive == Spec => []ParentAlive
  BY Inductive, PTL DEF HLFSInv

\* A content buffer is marked as taken exactly while a live file points at it,
\* and every live file points at its own.
THEOREM StorageStaysExact == Spec => []StorageExact
  BY Inductive, PTL DEF HLFSInv

\* What SlotNamesOneNode asks of a step.
SlotsKept == /\ fs_node_count' >= fs_node_count
             /\ \A i \in 0..(fs_node_count - 1) :
                   /\ filesystem'[i].in_use => filesystem[i].in_use
                   /\ filesystem'[i].type = filesystem[i].type
                   /\ filesystem'[i].parent_index = filesystem[i].parent_index

LEMMA CallKeepsSlots == HLFSInv /\ [Call]_fsvars => [SlotsKept]_fsvars
  <1> SUFFICES ASSUME HLFSInv, Call PROVE SlotsKept
    OBVIOUS
  <1> USE DEF SlotsKept, HLFSInv, TypeOK, FSNode, Slots
  <1>1. CASE \E p \in Seq(Comp), n \in Typed, t \in CreateTypes : create_file_in_fs(p, n, t)
    BY <1>1, MaxFilesAssumption
    DEF create_file_in_fs, create_node, NextSlot, HasRoom
  <1>2. CASE \E p \in Seq(Comp) : delete_file_from_fs(p)
    <2> PICK p \in Seq(Comp) : delete_file_from_fs(p)
      BY <1>2
    <2> DEFINE idx == find_node_by_path(p)
    <2>1. idx \in Slots
      BY FindNodeFacts DEF delete_file_from_fs, CanDelete, InUse
    <2>2. /\ fs_node_count' = fs_node_count
          /\ filesystem' = [filesystem EXCEPT ![idx].in_use = FALSE, ![idx].content = FALSE]
      BY DEF delete_file_from_fs
    <2> HIDE DEF idx
    <2>3. QED
      BY <2>1, <2>2, MaxFilesAssumption
  <1>3. CASE \E p \in Seq(Comp), n \in Typed : rename_file_in_fs(p, n)
    <2> PICK p \in Seq(Comp), n \in Typed : rename_file_in_fs(p, n)
      BY <1>3
    <2> DEFINE idx == find_node_by_path(p)
    <2>1. idx \in Slots
      BY FindNodeFacts DEF rename_file_in_fs, CanRename, InUse
    <2>2. /\ fs_node_count' = fs_node_count
          /\ filesystem' = [filesystem EXCEPT ![idx].name = n, ![idx].path = RenamedPath(p, n)]
      BY DEF rename_file_in_fs
    <2> HIDE DEF idx
    <2>3. QED
      BY <2>1, <2>2, MaxFilesAssumption
  <1>4. CASE \E p \in Seq(Comp), c \in Contents : write_file_content(p, c)
    <2> PICK p \in Seq(Comp), c \in Contents : write_file_content(p, c)
      BY <1>4
    <2>1. find_node_by_path(p) \in Slots
      BY FindNodeFacts DEF write_file_content, IsFile, InUse
    <2>2. QED
      BY <2>1 DEF write_file_content
  <1>5. QED
    BY <1>1, <1>2, <1>3, <1>4 DEF Call

LEMMA SlotsAction == SlotNamesOneNode <=> [][SlotsKept]_fsvars
  BY PTL DEF SlotNamesOneNode, SlotsKept

\* A slot is handed out once: an index never comes to name another file.
THEOREM SlotsAreNeverReused == Spec => SlotNamesOneNode
  BY Inductive, NextCalls, CallKeepsSlots, SlotsAction, PTL DEF Spec
-----------------------------------------------------------------------------
(***************************************************************************)
(* Paths against parent indices.                                           *)
(***************************************************************************)
\* What DetachedByRenameOnly asks of one node.
Explained(i) ==
    \/ Attached(i)'
    \/ i \in InUse /\ ~Attached(i)
    \/ Len(filesystem'[i].name) > 1
    \/ LET parent == filesystem[i].parent_index
       IN  i \in InUse /\ filesystem'[parent].path # filesystem[parent].path

\* A node that keeps its place can only lose its parent's path.
LEMMA PlaceKept ==
    ASSUME NEW i \in InUse,
           ParentPath(filesystem'[i].path) = ParentPath(filesystem[i].path),
           filesystem'[i].parent_index = filesystem[i].parent_index
    PROVE  Explained(i)
  BY DEF Explained, Attached

LEMMA JoinLength ==
    ASSUME NEW p \in Seq(Comp), NEW n \in Seq(Comp)
    PROVE  Len(p \o n) = Len(p) + Len(n)
  OBVIOUS

\* A name of one component lands directly below the directory it is joined to.
LEMMA ParentOfJoin ==
    ASSUME NEW p \in Seq(Comp), NEW n \in Seq(Comp), Len(n) = 1
    PROVE  ParentPath(Join(p, n)) = p
  <1>1. p \o n \in Seq(Comp) /\ Len(p \o n) = Len(p) + 1 /\ Len(p) \in Nat
    <2>1. Len(p \o n) = Len(p) + Len(n)
      BY JoinLength
    <2>2. p \o n \in Seq(Comp) /\ Len(p) \in Nat
      BY SMT
    <2> QED
      BY <2>1, <2>2
  <1>2. SubSeq(p \o n, 1, Len(p)) = p
    <2> DEFINE r == SubSeq(p \o n, 1, Len(p))
    <2>1. r \in Seq(Comp) /\ Len(r) = Len(p)
      BY <1>1
    <2>2. \A k \in 1..Len(p) : r[k] = p[k]
      OBVIOUS
    <2> HIDE DEF r
    <2> QED
      BY <2>1, <2>2
  <1>3. QED
    BY <1>1, <1>2 DEF ParentPath, Join

LEMMA NameLength ==
    ASSUME NEW n \in Typed
    PROVE  Len(n) = 1 \/ Len(n) > 1
  <1>1. n \in Seq(Comp) /\ n # <<>>
    BY DEF Typed
  <1>2. Len(n) \in Nat /\ Len(n) > 0
    BY <1>1, SMT
  <1>3. PICK k \in Nat : k = Len(n)
    BY <1>2
  <1>4. k > 0
    BY <1>2, <1>3
  <1>5. k = 1 \/ k > 1
    BY <1>4
  <1>6. QED
    BY <1>3, <1>5

\* A node is created below the directory whose index it gets.
LEMMA CreateExplained ==
    ASSUME HLFSInv, NEW p \in Seq(Comp), NEW n \in Typed, NEW t \in CreateTypes,
           create_file_in_fs(p, n, t), NEW i \in InUse'
    PROVE  Explained(i)
  <1> DEFINE par == find_node_by_path(p)
             node == Node(Join(p, n), n, t, par)
  <1>1. Exists(p)
    BY DEF create_file_in_fs, CanCreate, IsDirectory
  <1>2. par \in InUse /\ par \in Slots /\ filesystem[par].path = p
    BY <1>1, FindNodeFacts DEF HLFSInv, InUse
  <1>3. fs_node_count \in Slots /\ fs_node_count \notin InUse
    BY MaxFilesAssumption
    DEF create_file_in_fs, create_node, HasRoom, HLFSInv, TypeOK, StorageExact, Slots, InUse
  <1>4. filesystem' = [filesystem EXCEPT ![fs_node_count] = node]
    BY DEF create_file_in_fs, create_node, NextSlot
  <1>5. node.path = Join(p, n) /\ node.name = n /\ node.parent_index = par
    BY DEF Node
  <1> HIDE DEF node, par
  <1>6. \A j \in Slots : filesystem'[j] = IF j = fs_node_count THEN node ELSE filesystem[j]
    BY <1>4 DEF HLFSInv, TypeOK
  <1>7. i \in Slots /\ filesystem'[i].in_use
    BY DEF InUse
  <1>8. CASE i # fs_node_count
    <2>1. filesystem'[i] = filesystem[i] /\ i \in InUse
      BY <1>6, <1>7, <1>8 DEF InUse
    <2> QED
      BY <2>1, PlaceKept
  <1>9. CASE i = fs_node_count /\ Len(n) = 1
    <2>1. ParentPath(Join(p, n)) = p
      BY <1>9, ParentOfJoin DEF Typed
    <2>2. filesystem'[i] = node /\ filesystem'[par] = filesystem[par]
      BY <1>2, <1>3, <1>6, <1>9
    <2> QED
      BY <1>2, <1>5, <2>1, <2>2 DEF Explained, Attached
  <1>10. CASE i = fs_node_count /\ Len(n) > 1
    BY <1>3, <1>5, <1>6, <1>10 DEF Explained
  <1>11. Len(n) = 1 \/ Len(n) > 1
    BY NameLength
  <1> QED
    BY <1>8, <1>9, <1>10, <1>11

\* A renamed node stays in its directory, and only its children lose it.
LEMMA RenameExplained ==
    ASSUME HLFSInv, NEW p \in Seq(Comp), NEW n \in Typed,
           rename_file_in_fs(p, n), NEW i \in InUse'
    PROVE  Explained(i)
  <1> DEFINE idx == find_node_by_path(p)
             q == RenamedPath(p, n)
  <1>1. Exists(p) /\ idx # 0
    BY DEF rename_file_in_fs, CanRename
  <1>2. idx \in InUse /\ idx \in Slots /\ filesystem[idx].path = p
    BY <1>1, FindNodeFacts DEF HLFSInv, InUse
  <1>3. filesystem' = [filesystem EXCEPT ![idx].name = n, ![idx].path = q]
    BY DEF rename_file_in_fs
  <1> HIDE DEF idx, q
  <1>4. /\ \A j \in Slots : /\ j # idx => filesystem'[j] = filesystem[j]
                            /\ filesystem'[j].parent_index = filesystem[j].parent_index
                            /\ filesystem'[j].in_use = filesystem[j].in_use
        /\ filesystem'[idx].name = n /\ filesystem'[idx].path = q
    BY <1>2, <1>3 DEF HLFSInv, TypeOK, FSNode
  <1>5. i \in InUse
    BY <1>4 DEF InUse
  <1>6. CASE i # idx
    <2>1. filesystem'[i] = filesystem[i]
      BY <1>4, <1>5, <1>6 DEF InUse
    <2> QED
      BY <1>5, <2>1, PlaceKept
  <1>7. CASE i = idx /\ Len(n) = 1
    <2>1. ParentPath(p) \in Seq(Comp)
      <3>1. p # <<>>
        BY <1>1, <1>2 DEF HLFSInv, PathUnique, ParentAlive
      <3> QED
        BY <3>1, ParentPathType
    <2>2. ParentPath(q) = ParentPath(p)
      BY <1>7, <2>1, ParentOfJoin DEF q, RenamedPath, Typed
    <2> QED
      BY <1>2, <1>4, <1>7, <2>2, PlaceKept
  <1>8. CASE i = idx /\ Len(n) > 1
    BY <1>4, <1>8 DEF Explained
  <1>9. Len(n) = 1 \/ Len(n) > 1
    BY NameLength
  <1> QED
    BY <1>6, <1>7, <1>8, <1>9

\* Deleting and writing touch no path and no parent index, and add no node.
LEMMA OthersExplained ==
    ASSUME HLFSInv,
           \/ \E p \in Seq(Comp) : delete_file_from_fs(p)
           \/ \E p \in Seq(Comp), c \in Contents : write_file_content(p, c),
           NEW i \in InUse'
    PROVE  Explained(i)
  <1> DEFINE Kept == \A j \in Slots : /\ filesystem'[j].path = filesystem[j].path
                                      /\ filesystem'[j].parent_index = filesystem[j].parent_index
                                      /\ filesystem'[j].in_use => filesystem[j].in_use
  <1>1. ASSUME NEW p \in Seq(Comp), delete_file_from_fs(p) PROVE Kept
    <2> DEFINE idx == find_node_by_path(p)
    <2>1. idx \in Slots
      BY <1>1, FindNodeFacts DEF HLFSInv, delete_file_from_fs, CanDelete, InUse
    <2>2. filesystem' = [filesystem EXCEPT ![idx].in_use = FALSE, ![idx].content = FALSE]
      BY <1>1 DEF delete_file_from_fs
    <2> HIDE DEF idx
    <2> QED
      BY <2>1, <2>2 DEF HLFSInv, TypeOK, FSNode
  <1>2. ASSUME NEW p \in Seq(Comp), NEW c \in Contents, write_file_content(p, c) PROVE Kept
    <2> DEFINE idx == find_node_by_path(p)
    <2>1. idx \in Slots /\ filesystem[idx].in_use
      BY <1>2, FindNodeFacts DEF HLFSInv, write_file_content, IsFile, InUse
    <2>2. filesystem' = [filesystem EXCEPT ![idx].content = TRUE]
      BY <1>2 DEF write_file_content
    <2> HIDE DEF idx
    <2> QED
      BY <2>1, <2>2 DEF HLFSInv, TypeOK, FSNode
  <1>3. ASSUME Kept PROVE Explained(i)
    <2>1. i \in InUse
      BY <1>3 DEF InUse
    <2> QED
      BY <1>3, <2>1, PlaceKept DEF InUse
  <1> QED
    BY <1>1, <1>2, <1>3

\* What DetachedByRenameOnly asks of a step.
AllExplained == \A i \in InUse' \ {0} : Explained(i)

LEMMA CallExplained == HLFSInv /\ [Call]_fsvars => [AllExplained]_fsvars
  BY CreateExplained, RenameExplained, OthersExplained DEF Call, AllExplained

LEMMA DriftAction == DetachedByRenameOnly <=> [][AllExplained]_fsvars
  BY PTL DEF DetachedByRenameOnly, AllExplained, Explained

\* Paths and parent indices drift apart only by the renaming of a parent, or by a name
\* with a slash in it.
THEOREM DriftIsExplained == Spec => DetachedByRenameOnly
  BY Inductive, NextCalls, CallExplained, DriftAction, PTL DEF Spec
-----------------------------------------------------------------------------
(***************************************************************************)
(* The listing of a directory.                                             *)
(***************************************************************************)
\* A set of naturals that holds 0 and every successor of a member holds them all.
LEMMA Climb ==
    ASSUME NEW T, 0 \in T, \A n \in Nat : n \in T => n + 1 \in T
    PROVE  \A n \in Nat : n \in T
<1> DEFINE Left == Nat \ T
<1> SUFFICES ASSUME Left # {} PROVE FALSE
  OBVIOUS
<1>1. PICK k \in Left : \A n \in Left : ~(<<n, k>> \in OpToRel(<, Nat))
  BY NatLessThanWellFounded, WFMin
<1>2. \A n \in Left : ~(n < k)
  BY <1>1 DEF OpToRel
<1>3. k \in Nat /\ k # 0
  OBVIOUS
<1>4. k - 1 \in Nat /\ k - 1 < k /\ (k - 1) + 1 = k
  BY <1>3
<1>5. k - 1 \in T
  BY <1>2, <1>4
<1> QED
  BY <1>4, <1>5

\* One round of the loop of get_directory_contents.
Round(S, found, n) == IF n = 0 THEN <<>>
                      ELSE IF n - 1 \in S THEN Append(found[n - 1], n - 1)
                                          ELSE found[n - 1]

\* The rounds define a function, however many there are.
LEMMA RoundsExist ==
    ASSUME NEW S
    PROVE  \A m \in Nat : \E g : g = [n \in 0..m |-> Round(S, g, n)]
<1> DEFINE T == {m \in Nat : \E g : g = [n \in 0..m |-> Round(S, g, n)]}
<1>1. 0 \in T
  <2> DEFINE g == [n \in 0..0 |-> <<>>]
  <2>1. g = [n \in 0..0 |-> Round(S, g, n)]
    BY DEF Round
  <2> QED
    BY <2>1
<1>2. ASSUME NEW m \in Nat, m \in T PROVE m + 1 \in T
  <2>1. PICK g : g = [n \in 0..m |-> Round(S, g, n)]
    BY <1>2
  <2> DEFINE h == [n \in 0..(m + 1) |-> IF n <= m THEN g[n] ELSE Round(S, g, n)]
  <2>2. \A n \in 0..m : h[n] = g[n]
    OBVIOUS
  <2>3. ASSUME NEW n \in 0..(m + 1) PROVE Round(S, g, n) = Round(S, h, n)
    <3>1. n # 0 => n - 1 \in 0..m
      OBVIOUS
    <3>2. n # 0 => h[n - 1] = g[n - 1]
      BY <2>2, <3>1
    <3> HIDE DEF h
    <3> QED
      BY <3>2 DEF Round
  <2>4. \A n \in 0..m : g[n] = Round(S, g, n)
    BY <2>1
  <2>5. \A n \in 0..(m + 1) : h[n] = Round(S, g, n)
    BY <2>4
  <2>6. h = [n \in 0..(m + 1) |-> h[n]]
    OBVIOUS
  <2> HIDE DEF h
  <2>7. h = [n \in 0..(m + 1) |-> Round(S, h, n)]
    BY <2>3, <2>5, <2>6
  <2> QED
    BY <2>7
<1> HIDE DEF T
<1>3. \A m \in Nat : m \in T
  BY <1>1, <1>2, Climb
<1> QED
  BY <1>3 DEF T

\* The indices are the members of the set, each once, in increasing order.
Ascending(s, S) ==
    /\ s \in Seq(S)
    /\ \A i \in S : \E k \in 1..Len(s) : s[k] = i
    /\ \A j, k \in 1..Len(s) : j < k => s[j] < s[k]

LEMMA AppendFacts ==
    ASSUME NEW S, NEW T, S \subseteq T, NEW s \in Seq(S), NEW e \in T
    PROVE  /\ Append(s, e) \in Seq(T)
           /\ Len(s) \in Nat
           /\ Len(Append(s, e)) = Len(s) + 1
           /\ \A k \in 1..Len(s) : Append(s, e)[k] = s[k]
           /\ Append(s, e)[Len(s) + 1] = e
OBVIOUS

LEMMA AscendingGrows ==
    ASSUME NEW S, S \subseteq Nat, NEW s, Ascending(s, S), NEW e \in Nat,
           \A i \in S : i < e
    PROVE  Ascending(Append(s, e), S \cup {e})
<1>1. s \in Seq(S)
  BY DEF Ascending
<1>2. PICK l \in Nat : l = Len(s)
  BY <1>1
<1>3. /\ Append(s, e) \in Seq(S \cup {e})
      /\ Len(Append(s, e)) = l + 1
      /\ \A k \in 1..l : Append(s, e)[k] = s[k]
      /\ Append(s, e)[l + 1] = e
  BY <1>1, <1>2, AppendFacts
<1>4. PICK t : t = Append(s, e)
  OBVIOUS
<1>5. /\ \A i \in S : \E k \in 1..l : s[k] = i
      /\ \A j, k \in 1..l : j < k => s[j] < s[k]
      /\ \A k \in 1..l : s[k] \in S
  BY <1>1, <1>2 DEF Ascending
<1>6. \A i \in S \cup {e} : \E k \in 1..(l + 1) : t[k] = i
  <2>1. \A i \in S : \E k \in 1..l : t[k] = i
    BY <1>3, <1>4, <1>5
  <2>2. l + 1 \in 1..(l + 1) /\ \A k \in 1..l : k \in 1..(l + 1)
    BY <1>2
  <2>3. t[l + 1] = e
    BY <1>3, <1>4
  <2> QED
    BY <2>1, <2>2, <2>3
<1>7. \A j, k \in 1..(l + 1) : j < k => t[j] < t[k]
  <2> SUFFICES ASSUME NEW j \in 1..(l + 1), NEW k \in 1..(l + 1), j < k
               PROVE  t[j] < t[k]
    OBVIOUS
  <2>1. j \in 1..l /\ t[j] = s[j] /\ s[j] \in S
    BY <1>2, <1>3, <1>4, <1>5
  <2>2. CASE k \in 1..l
    BY <2>1, <2>2, <1>3, <1>4, <1>5
  <2>3. CASE k = l + 1
    BY <2>1, <2>3, <1>3, <1>4
  <2> QED
    BY <2>2, <2>3, <1>2
<1> QED
  BY <1>3, <1>4, <1>6, <1>7 DEF Ascending

\* get_directory_contents lists the slots of the set, each once, in slot order.
LEMMA CollectedAscending ==
    ASSUME NEW S \in SUBSET Slots
    PROVE  Ascending(Collected(S), S)
<1> DEFINE found == CHOOSE g : g = [n \in 0..MaxFiles |-> Round(S, g, n)]
<1>1. MaxFiles \in Nat /\ \A i \in S : i \in Nat /\ i < MaxFiles
  <2>1. MaxFiles \in Nat
    BY MaxFilesAssumption
  <2>2. \A i \in S : i \in Slots
    OBVIOUS
  <2> QED
    BY <2>1, <2>2 DEF Slots
<1>2. found = [n \in 0..MaxFiles |-> Round(S, found, n)]
  BY <1>1, RoundsExist
<1>3. Collected(S) = found[MaxFiles]
  BY DEF Collected, Round
<1> HIDE DEF found
<1>4. \A n \in 0..MaxFiles : found[n] = Round(S, found, n)
  BY <1>2
<1> DEFINE Upto(n) == {i \in S : i < n}
           T == {n \in Nat : n <= MaxFiles => Ascending(found[n], Upto(n))}
<1>5. 0 \in T
  <2>1. found[0] = <<>>
    BY <1>1, <1>4 DEF Round
  <2>2. Upto(0) = {}
    BY <1>1
  <2>3. Ascending(<<>>, {})
    BY DEF Ascending
  <2> QED
    BY <2>1, <2>2, <2>3
<1>6. ASSUME NEW n \in Nat, n \in T PROVE n + 1 \in T
  <2> SUFFICES ASSUME n + 1 <= MaxFiles
               PROVE  Ascending(found[n + 1], Upto(n + 1))
    OBVIOUS
  <2>1. Ascending(found[n], Upto(n))
    BY <1>1, <1>6
  <2>2. n + 1 \in 0..MaxFiles /\ n + 1 # 0 /\ (n + 1) - 1 = n
    BY <1>1
  <2>3. found[n + 1] = IF n \in S THEN Append(found[n], n) ELSE found[n]
    <3>1. found[n + 1] = Round(S, found, n + 1)
      BY <1>4, <2>2
    <3> QED
      BY <3>1, <2>2, Zenon DEF Round
  <2>4. Upto(n) \subseteq Nat /\ \A i \in Upto(n) : i < n
    BY <1>1
  <2>5. CASE n \in S
    <3>1. Upto(n + 1) = Upto(n) \cup {n}
      <4>1. \A i \in S : i < n + 1 <=> i < n \/ i = n
        BY <1>1
      <4> QED
        BY <2>5, <4>1
    <3> HIDE DEF Upto
    <3>2. Ascending(Append(found[n], n), Upto(n) \cup {n})
      BY <2>1, <2>4, AscendingGrows
    <3> QED
      BY <2>3, <2>5, <3>1, <3>2
  <2>6. CASE n \notin S
    <3>1. Upto(n + 1) = Upto(n)
      BY <2>6, <1>1
    <3> HIDE DEF Upto
    <3> QED
      BY <2>1, <2>3, <2>6, <3>1
  <2> QED
    BY <2>5, <2>6
<1> HIDE DEF T
<1>7. MaxFiles \in T
  BY <1>1, <1>5, <1>6, Climb
<1>8. Upto(MaxFiles) = S
  BY <1>1
<1> QED
  BY <1>1, <1>3, <1>7, <1>8 DEF T
-----------------------------------------------------------------------------
(***************************************************************************)
(* The slot table implements the map of NameSpace.                         *)
(***************************************************************************)
\* The paths that are held, and the file that the view shows of a slot.
Held == {filesystem[i].path : i \in InUse}

Entry(i) == [type |-> filesystem[i].type,
             data |-> IF filesystem[i].content THEN content_storage_data[i] ELSE NoData]

\* The view is a function on the paths held, and shows at each of them the one
\* slot in use that holds it.
ViewShown == /\ FilesView = [p \in Held |-> FilesView[p]]
             /\ DOMAIN FilesView = Held
             /\ \A i \in InUse : FilesView[filesystem[i].path] = Entry(i)

LEMMA ViewOfSlots == HLFSInv => ViewShown
<1> SUFFICES ASSUME HLFSInv PROVE ViewShown
  OBVIOUS
<1>1. FilesView = [p \in Held |-> Entry(find_node_by_path(p))]
  BY DEF FilesView, Held, Entry
<1>2. ASSUME NEW i \in InUse
      PROVE  find_node_by_path(filesystem[i].path) = i
  <2>1. i \in Slots /\ Holds(i, filesystem[i].path)
    BY DEF HLFSInv, StorageExact, InUse, Holds
  <2>2. Exists(filesystem[i].path)
    BY <2>1 DEF Exists
  <2> QED
    BY <2>2, FindNodeFacts DEF HLFSInv, PathUnique
<1>3. ASSUME NEW i \in InUse
      PROVE  FilesView[filesystem[i].path] = Entry(i)
  BY <1>1, <1>2 DEF Held
<1> QED
  BY <1>1, <1>3 DEF ViewShown

\* What a lookup finds is held, and the view shows the slot it finds.
LEMMA ViewOfPath ==
    ASSUME HLFSInv, NEW p
    PROVE  /\ p \in DOMAIN FilesView <=> Exists(p)
           /\ Exists(p) => FilesView[p] = Entry(find_node_by_path(p))
<1>1. Exists(p) => p \in Held
  BY FindNodeFacts DEF Held
<1>2. ~Exists(p) => p \notin Held
  BY NotFound DEF Held
<1>3. Exists(p) => FilesView[p] = Entry(find_node_by_path(p))
  BY FindNodeFacts, ViewOfSlots DEF ViewShown
<1> QED
  BY <1>1, <1>2, <1>3, ViewOfSlots DEF ViewShown

\* The root is a directory from the start and stays one.
LEMMA RootHeld ==
    ASSUME HLFSInv
    PROVE  <<>> \in DOMAIN FilesView /\ FilesView[<<>>].type = "FILE_DIRECTORY"
<1>1. 0 \in InUse /\ filesystem[0].path = <<>> /\ filesystem[0].type = "FILE_DIRECTORY"
  BY DEF HLFSInv, ParentAlive
<1>2. <<>> \in Held /\ FilesView[<<>>] = Entry(0)
  BY <1>1, ViewOfSlots DEF Held, ViewShown
<1> QED
  BY <1>1, <1>2, ViewOfSlots DEF Entry, ViewShown
-----------------------------------------------------------------------------
(***************************************************************************)
(* Each call is the same call on the map.                                  *)
(***************************************************************************)
LEMMA CreateRefines ==
    ASSUME HLFSInv, HLFSInv', NEW p \in Seq(Comp), NEW n \in Typed, NEW t \in CreateTypes,
           create_file_in_fs(p, n, t)
    PROVE  NS!NSCreate(p, n)
<1> DEFINE q == Join(p, n)
           f == [type |-> t, data |-> IF HasContent(t) THEN NewFile ELSE NoData]
<1>1. /\ Exists(p) /\ filesystem[find_node_by_path(p)].type = "FILE_DIRECTORY"
      /\ ~Exists(q)
  BY DEF create_file_in_fs, CanCreate, IsDirectory
<1>2. /\ p \in DOMAIN FilesView /\ FilesView[p].type = "FILE_DIRECTORY"
      /\ q \notin DOMAIN FilesView
  <2>1. Entry(find_node_by_path(p)).type = filesystem[find_node_by_path(p)].type
    BY DEF Entry
  <2> QED
    BY <1>1, <2>1, ViewOfPath
<1> PICK idx \in Nat : idx = fs_node_count
  BY DEF HLFSInv, TypeOK
<1>3. /\ filesystem' = [filesystem EXCEPT ![idx] = Node(q, n, t, find_node_by_path(p))]
      /\ content_storage_data' =
            [content_storage_data EXCEPT ![idx] = IF HasContent(t) THEN DefaultContent(t) ELSE @]
      /\ idx \in Slots /\ idx \notin InUse
  BY MaxFilesAssumption
  DEF create_file_in_fs, create_node, NextSlot, HasRoom, HLFSInv, TypeOK, StorageExact, Slots, InUse
<1>4. /\ filesystem'[idx].in_use = TRUE /\ filesystem'[idx].path = q
      /\ filesystem'[idx].type = t /\ filesystem'[idx].content = HasContent(t)
  BY <1>3 DEF HLFSInv, TypeOK, Node
<1>5. \A i \in Slots : i # idx => /\ filesystem'[i] = filesystem[i]
                                  /\ content_storage_data'[i] = content_storage_data[i]
  BY <1>3 DEF HLFSInv, TypeOK
<1>6. \A i \in Slots : i \in InUse' <=> i \in InUse \/ i = idx
  BY <1>3, <1>4, <1>5 DEF InUse
<1>7. \A i \in InUse : i \in Slots /\ i # idx
  BY <1>3 DEF InUse
<1>8. Entry(idx)' = f
  <2>1. t \in {"FILE_REGULAR", "FILE_DIRECTORY"}
    BY DEF CreateTypes
  <2>2. HasContent(t) => content_storage_data'[idx] = NewFile
    BY <1>3, <2>1 DEF HLFSInv, TypeOK, HasContent, DefaultContent
  <2> QED
    BY <1>4, <2>2 DEF Entry
<1>9. \A i \in InUse : Entry(i)' = Entry(i)
  BY <1>5, <1>7 DEF Entry
<1>10. /\ FilesView' = [x \in Held' |-> FilesView'[x]]
       /\ \A i \in InUse' : FilesView'[filesystem'[i].path] = Entry(i)'
  <2>1. HLFSInv' => ViewShown'
    BY ViewOfSlots, PTL
  <2> QED
    BY <2>1 DEF ViewShown
<1>11. /\ DOMAIN FilesView = Held
       /\ \A i \in InUse : FilesView[filesystem[i].path] = Entry(i)
  BY ViewOfSlots DEF ViewShown
<1>12. Held' = DOMAIN FilesView \cup {q}
  <2>1. ASSUME NEW x \in Held'
        PROVE  x \in Held \cup {q}
    <3>1. PICK i \in InUse' : x = filesystem'[i].path
      BY DEF Held
    <3>2. i \in Slots
      BY DEF InUse
    <3> QED
      BY <1>4, <1>5, <1>6, <3>1, <3>2 DEF Held
  <2>2. ASSUME NEW i \in InUse
        PROVE  filesystem[i].path \in Held'
    <3>1. i \in InUse' /\ filesystem'[i].path = filesystem[i].path
      BY <1>5, <1>6, <1>7
    <3> QED
      BY <3>1 DEF Held
  <2>3. q \in Held'
    <3>1. idx \in InUse'
      BY <1>3, <1>6
    <3> QED
      BY <1>4, <3>1 DEF Held
  <2> QED
    BY <1>11, <2>1, <2>2, <2>3 DEF Held
<1>13. FilesView' = [x \in DOMAIN FilesView \cup {q} |-> IF x = q THEN f ELSE FilesView[x]]
  <2>1. FilesView'[q] = f
    BY <1>3, <1>4, <1>6, <1>8, <1>10
  <2>2. ASSUME NEW x \in DOMAIN FilesView
        PROVE  FilesView'[x] = FilesView[x]
    <3>1. PICK i \in InUse : x = filesystem[i].path
      BY <1>11 DEF Held
    <3> QED
      BY <1>5, <1>6, <1>7, <1>9, <1>10, <1>11, <3>1
  <2> QED
    BY <1>2, <1>10, <1>12, <2>1, <2>2
<1>14. f \in {[type |-> "FILE_REGULAR", data |-> NewFile], [type |-> "FILE_DIRECTORY", data |-> NoData]}
  BY DEF CreateTypes, HasContent
<1> HIDE DEF f
<1> QED
  BY <1>2, <1>13, <1>14 DEF NS!NSCreate, NS!Kind, NS!Put, NS!File, Join

LEMMA DeleteRefines ==
    ASSUME HLFSInv, HLFSInv', NEW p \in Seq(Comp), delete_file_from_fs(p)
    PROVE  NS!NSDelete(p)
<1>1. PICK idx \in Slots : idx = find_node_by_path(p)
  BY FindNodeFacts DEF delete_file_from_fs, CanDelete, InUse
<1>2. /\ Exists(p) /\ idx \in InUse /\ filesystem[idx].path = p /\ idx # 0
  BY <1>1, FindNodeFacts DEF delete_file_from_fs, CanDelete
<1>3. p # <<>>
  BY <1>2 DEF HLFSInv, ParentAlive, PathUnique
<1>4. /\ filesystem' = [filesystem EXCEPT ![idx].in_use = FALSE, ![idx].content = FALSE]
      /\ content_storage_data' = content_storage_data
  BY <1>1 DEF delete_file_from_fs
<1>5. /\ \A i \in Slots : i # idx => filesystem'[i] = filesystem[i]
      /\ filesystem'[idx].in_use = FALSE
  BY <1>4 DEF HLFSInv, TypeOK, FSNode
<1>6. /\ \A i : i \in InUse' <=> i \in InUse /\ i # idx
      /\ \A i \in InUse : i \in Slots
  BY <1>5 DEF InUse
<1>7. \A i \in InUse' : Entry(i)' = Entry(i) /\ filesystem'[i].path = filesystem[i].path
  BY <1>4, <1>5, <1>6 DEF Entry
<1>8. /\ FilesView' = [x \in Held' |-> FilesView'[x]]
      /\ \A i \in InUse' : FilesView'[filesystem'[i].path] = Entry(i)'
  <2>1. HLFSInv' => ViewShown'
    BY ViewOfSlots, PTL
  <2> QED
    BY <2>1 DEF ViewShown
<1>9. /\ DOMAIN FilesView = Held
      /\ \A i \in InUse : FilesView[filesystem[i].path] = Entry(i)
  BY ViewOfSlots DEF ViewShown
<1>10. \A i \in InUse : filesystem[i].path = p <=> i = idx
  BY <1>2 DEF HLFSInv, PathUnique
<1>11. Held' = Held \ {p}
  <2>1. ASSUME NEW x \in Held'
        PROVE  x \in Held \ {p}
    <3>1. PICK i \in InUse' : x = filesystem'[i].path
      BY DEF Held
    <3> QED
      BY <1>6, <1>7, <1>10, <3>1 DEF Held
  <2>2. ASSUME NEW x \in Held \ {p}
        PROVE  x \in Held'
    <3>1. PICK i \in InUse : x = filesystem[i].path
      BY DEF Held
    <3>2. i \in InUse' /\ x = filesystem'[i].path
      BY <1>2, <1>6, <1>7, <3>1
    <3> QED
      BY <3>2 DEF Held
  <2> QED
    BY <2>1, <2>2
<1>12. ASSUME NEW x \in Held'
       PROVE  FilesView'[x] = FilesView[x]
  <2>1. PICK i \in InUse' : x = filesystem'[i].path
    BY DEF Held
  <2> QED
    BY <1>6, <1>7, <1>8, <1>9, <2>1
<1>13. FilesView' = [x \in DOMAIN FilesView \ {p} |-> FilesView[x]]
  BY <1>8, <1>9, <1>11, <1>12
<1>14. p \in DOMAIN FilesView
  BY <1>2, ViewOfPath
<1> QED
  BY <1>3, <1>13, <1>14 DEF NS!NSDelete, NS!Restrict

LEMMA RenameRefines ==
    ASSUME HLFSInv, HLFSInv', NEW p \in Seq(Comp), NEW n \in Typed, rename_file_in_fs(p, n)
    PROVE  NS!NSRename(p, SubSeq(p, 1, Len(p) - 1) \o n)
<1> DEFINE q == RenamedPath(p, n)
<1>1. PICK idx \in Slots : idx = find_node_by_path(p)
  BY FindNodeFacts DEF rename_file_in_fs, CanRename, InUse
<1>2. /\ Exists(p) /\ idx \in InUse /\ filesystem[idx].path = p /\ idx # 0 /\ ~Exists(q)
  BY <1>1, FindNodeFacts DEF rename_file_in_fs, CanRename
<1>3. p # <<>>
  BY <1>2 DEF HLFSInv, ParentAlive, PathUnique
<1>4. /\ filesystem' = [filesystem EXCEPT ![idx].name = n, ![idx].path = q]
      /\ content_storage_data' = content_storage_data
  BY <1>1 DEF rename_file_in_fs
<1> HIDE DEF q
<1>5. /\ \A i \in Slots : /\ i # idx => filesystem'[i].path = filesystem[i].path
                          /\ filesystem'[i].in_use = filesystem[i].in_use
                          /\ filesystem'[i].type = filesystem[i].type
                          /\ filesystem'[i].content = filesystem[i].content
      /\ filesystem'[idx].path = q
  BY <1>4 DEF HLFSInv, TypeOK, FSNode
<1>6. InUse' = InUse /\ \A i \in InUse : i \in Slots
  BY <1>5 DEF InUse
<1>7. \A i \in InUse : Entry(i)' = Entry(i)
  BY <1>4, <1>5, <1>6 DEF Entry
<1>8. /\ FilesView' = [x \in Held' |-> FilesView'[x]]
      /\ \A i \in InUse' : FilesView'[filesystem'[i].path] = Entry(i)'
  <2>1. HLFSInv' => ViewShown'
    BY ViewOfSlots, PTL
  <2> QED
    BY <2>1 DEF ViewShown
<1>9. /\ DOMAIN FilesView = Held
      /\ \A i \in InUse : FilesView[filesystem[i].path] = Entry(i)
  BY ViewOfSlots DEF ViewShown
<1>10. \A i \in InUse : filesystem[i].path = p <=> i = idx
  BY <1>2 DEF HLFSInv, PathUnique
<1>11. p \in DOMAIN FilesView /\ q \notin DOMAIN FilesView
  BY <1>2, ViewOfPath
<1>12. Held' = (Held \ {p}) \cup {q}
  <2>1. ASSUME NEW x \in Held'
        PROVE  x \in (Held \ {p}) \cup {q}
    <3>1. PICK i \in InUse : x = filesystem'[i].path
      BY <1>6 DEF Held
    <3> QED
      BY <1>5, <1>6, <1>10, <3>1 DEF Held
  <2>2. ASSUME NEW x \in (Held \ {p}) \cup {q}
        PROVE  x \in Held'
    <3>1. CASE x = q
      BY <1>2, <1>5, <1>6, <3>1 DEF Held
    <3>2. CASE x # q
      <4>1. PICK i \in InUse : x = filesystem[i].path
        BY <3>2 DEF Held
      <4>2. i \in InUse' /\ x = filesystem'[i].path
        BY <1>2, <1>5, <1>6, <3>2, <4>1
      <4> QED
        BY <4>2 DEF Held
    <3> QED
      BY <3>1, <3>2
  <2> QED
    BY <2>1, <2>2
<1>13. ASSUME NEW x \in Held'
       PROVE  FilesView'[x] = IF x = q THEN FilesView[p] ELSE FilesView[x]
  <2>1. PICK i \in InUse : x = filesystem'[i].path
    BY <1>6 DEF Held
  <2>2. FilesView'[x] = Entry(i)
    BY <1>6, <1>7, <1>8, <2>1
  <2>3. CASE i = idx
    BY <1>2, <1>5, <1>9, <2>1, <2>2, <2>3
  <2>4. CASE i # idx
    <3>1. x = filesystem[i].path /\ x # q
      BY <1>5, <1>6, <1>9, <1>11, <2>1, <2>4 DEF Held
    <3> QED
      BY <1>9, <2>2, <3>1
  <2> QED
    BY <2>3, <2>4
<1>14. FilesView' = [x \in (DOMAIN FilesView \ {p}) \cup {q} |->
                        IF x = q THEN FilesView[p] ELSE FilesView[x]]
  BY <1>8, <1>9, <1>12, <1>13
<1>15. q = SubSeq(p, 1, Len(p) - 1) \o n
  BY DEF q, RenamedPath, Join, ParentPath
<1> QED
  BY <1>3, <1>11, <1>14, <1>15 DEF NS!NSRename

LEMMA WriteRefines ==
    ASSUME HLFSInv, HLFSInv', NEW p \in Seq(Comp), NEW c \in Contents, write_file_content(p, c)
    PROVE  NS!NSWrite(p, c)
<1>1. PICK idx \in Slots : idx = find_node_by_path(p)
  BY FindNodeFacts DEF write_file_content, IsFile, InUse
<1>2. /\ Exists(p) /\ idx \in InUse /\ filesystem[idx].path = p
      /\ HasContent(filesystem[idx].type)
  BY <1>1, FindNodeFacts DEF write_file_content, IsFile
<1>3. filesystem[idx].content = TRUE
  BY <1>2 DEF HLFSInv, StorageExact, TypeOK, FSNode
<1>4. /\ filesystem' = filesystem
      /\ content_storage_data' = [content_storage_data EXCEPT ![idx] = c]
  BY <1>1, <1>3 DEF write_file_content, HLFSInv, TypeOK, FSNode
<1>5. InUse' = InUse /\ Held' = Held /\ \A i \in InUse : i \in Slots
  BY <1>4 DEF InUse, Held
<1>6. /\ \A i \in InUse : i # idx => Entry(i)' = Entry(i)
      /\ Entry(idx)' = [Entry(idx) EXCEPT !.data = c]
  BY <1>3, <1>4, <1>5 DEF Entry, HLFSInv, TypeOK
<1>7. /\ FilesView' = [x \in Held' |-> FilesView'[x]]
      /\ \A i \in InUse' : FilesView'[filesystem'[i].path] = Entry(i)'
  <2>1. HLFSInv' => ViewShown'
    BY ViewOfSlots, PTL
  <2> QED
    BY <2>1 DEF ViewShown
<1>8. /\ DOMAIN FilesView = Held
      /\ FilesView = [x \in Held |-> FilesView[x]]
      /\ \A i \in InUse : FilesView[filesystem[i].path] = Entry(i)
  BY ViewOfSlots DEF ViewShown
<1>9. ASSUME NEW x \in Held
      PROVE  FilesView'[x] = IF x = p THEN [FilesView[p] EXCEPT !.data = c] ELSE FilesView[x]
  <2>1. PICK i \in InUse : x = filesystem[i].path
    BY DEF Held
  <2>2. x = p <=> i = idx
    BY <1>2, <2>1 DEF HLFSInv, PathUnique
  <2>3. FilesView'[x] = Entry(i)' /\ FilesView[x] = Entry(i)
    BY <1>4, <1>5, <1>7, <1>8, <2>1
  <2>4. CASE i = idx
    BY <1>6, <2>2, <2>3, <2>4
  <2>5. CASE i # idx
    BY <1>6, <2>2, <2>3, <2>5
  <2> QED
    BY <2>4, <2>5
<1>10. FilesView' = [FilesView EXCEPT ![p].data = c]
  BY <1>5, <1>7, <1>8, <1>9
<1>11. p \in DOMAIN FilesView /\ FilesView[p].type \in {"FILE_REGULAR", "FILE_SOURCE"}
  <2>1. Entry(idx).type = filesystem[idx].type
    BY DEF Entry
  <2> QED
    BY <1>1, <1>2, <2>1, ViewOfPath DEF HasContent
<1> QED
  BY <1>10, <1>11 DEF NS!NSWrite, NS!Kind
-----------------------------------------------------------------------------
LEMMA StepRefines == HLFSInv /\ HLFSInv' /\ [Next]_fsvars => [NS!NSNext]_FilesView
<1> SUFFICES ASSUME HLFSInv, HLFSInv', [Next]_fsvars PROVE [NS!NSNext]_FilesView
  OBVIOUS
<1>1. CASE \E p \in Paths, n \in Names, t \in CreateTypes : create_file_in_fs(p, n, t)
  BY <1>1, InputsTyped, CreateRefines DEF NS!NSNext
<1>2. CASE \E p \in Paths : delete_file_from_fs(p)
  BY <1>2, InputsTyped, DeleteRefines DEF NS!NSNext
<1>3. CASE \E p \in Paths, n \in Names : rename_file_in_fs(p, n)
  BY <1>3, InputsTyped, RenameRefines DEF NS!NSNext
<1>4. CASE \E p \in Paths, c \in Contents : write_file_content(p, c)
  BY <1>4, InputsTyped, WriteRefines DEF NS!NSNext
<1>5. CASE UNCHANGED fsvars
  BY <1>5 DEF fsvars, FilesView, InUse, find_node_by_path, Exists, Holds
<1>6. CASE Refused
  BY <1>5, <1>6 DEF Refused
<1> QED
  BY <1>1, <1>2, <1>3, <1>4, <1>5, <1>6 DEF Next

-----------------------------------------------------------------------------
\* The map with every path and name allowed, for callers other than an instance's.
AnyCall == INSTANCE NameSpace WITH files <- FilesView, Paths <- Seq(Comp), Names <- Typed

\* Which paths and names are allowed is all the two maps differ in.
LEMMA SameOperations ==
    /\ \A p, n : NS!NSCreate(p, n) <=> AnyCall!NSCreate(p, n)
    /\ \A p : NS!NSDelete(p) <=> AnyCall!NSDelete(p)
    /\ \A p, c : NS!NSWrite(p, c) <=> AnyCall!NSWrite(p, c)
    /\ \A p, q : NS!NSRename(p, q) <=> AnyCall!NSRename(p, q)
<1>1. \A p, n : NS!NSCreate(p, n) <=> AnyCall!NSCreate(p, n)
  BY DEF NS!NSCreate, AnyCall!NSCreate, NS!Kind, AnyCall!Kind, NS!Put, AnyCall!Put,
         NS!File, AnyCall!File
<1>2. \A p : NS!NSDelete(p) <=> AnyCall!NSDelete(p)
  BY DEF NS!NSDelete, AnyCall!NSDelete, NS!Restrict, AnyCall!Restrict
<1>3. \A p, c : NS!NSWrite(p, c) <=> AnyCall!NSWrite(p, c)
  BY DEF NS!NSWrite, AnyCall!NSWrite, NS!Kind, AnyCall!Kind
<1>4. \A p, q : NS!NSRename(p, q) <=> AnyCall!NSRename(p, q)
  BY DEF NS!NSRename, AnyCall!NSRename
<1> QED
  BY <1>1, <1>2, <1>3, <1>4

LEMMA CallRefines == HLFSInv /\ HLFSInv' /\ [Call]_fsvars => [AnyCall!NSNext]_FilesView
<1> SUFFICES ASSUME HLFSInv, HLFSInv', [Call]_fsvars PROVE [AnyCall!NSNext]_FilesView
  OBVIOUS
<1>1. CASE \E p \in Seq(Comp), n \in Typed, t \in CreateTypes : create_file_in_fs(p, n, t)
  BY <1>1, CreateRefines, SameOperations DEF AnyCall!NSNext
<1>2. CASE \E p \in Seq(Comp) : delete_file_from_fs(p)
  BY <1>2, DeleteRefines, SameOperations DEF AnyCall!NSNext
<1>3. CASE \E p \in Seq(Comp), n \in Typed : rename_file_in_fs(p, n)
  BY <1>3, RenameRefines, SameOperations DEF AnyCall!NSNext
<1>4. CASE \E p \in Seq(Comp), c \in Contents : write_file_content(p, c)
  BY <1>4, WriteRefines, SameOperations DEF AnyCall!NSNext
<1>5. CASE UNCHANGED fsvars
  BY <1>5 DEF fsvars, FilesView, InUse, find_node_by_path, Exists, Holds
<1> QED
  BY <1>1, <1>2, <1>3, <1>4, <1>5 DEF Call

(***************************************************************************)
(* The theorem.                                                            *)
(***************************************************************************)
\* Every call on the slot table is the same call on a plain map from paths to
\* files, or, refused, no step of it.
THEOREM ImplementsTheMap == Spec => ImplementsNameSpace
<1>1. Init => NS!NSInit
  BY InitInv, RootHeld DEF NS!NSInit, NS!Kind
<1> QED
  BY <1>1, StepRefines, Inductive, PTL DEF Spec, ImplementsNameSpace, NS!NSSpec
=============================================================================
