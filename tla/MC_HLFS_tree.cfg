\* Three boot nodes and room for two more, two texts: every shape of the tree, and
\* every call against the abstract map.
CONSTANTS
    MaxFiles = 5
    Comp <- SmallComp
    Names <- SmallNames
    Paths <- SmallPaths
    Contents = {"old", "new"}
    Empty = "old"
    NewFile = "new"
    NewSource = "new"
    BootTree <- SmallTree
SPECIFICATION Spec
INVARIANTS TypeOK PathUnique ParentAlive StorageExact
PROPERTIES SlotNamesOneNode DetachedByRenameOnly ImplementsNameSpace
