\* Is the tree of init_hlfs a tree?
CONSTANTS
    MaxFiles = 97
    Comp <- RealComp
    Names <- CornerNames
    Paths <- CornerPaths
    Contents = {"text"}
    Empty = "text"
    NewFile = "text"
    NewSource = "text"
    BootTree <- RealTree
SPECIFICATION Spec
INVARIANT UnixTree
