\* Three boot nodes and room for one more, paths of two components, two texts.
CONSTANTS
    MaxFiles = 4
    Comp <- SmallComp
    Names <- SmallNames
    Paths <- NoPaths
    Contents = {"old", "new"}
    Empty = "old"
    NewFile = "old"
    NewSource = "old"
    BootTree <- SmallTree
    HistoryLimit = 2
    MaxDepth = 2
SPECIFICATION FMSpec
INVARIANTS FMTypeOK OneModal ListingFresh TargetAlive MenuAgrees
PROPERTIES EnterLeadsToNode ViewerKeepsItsFile
