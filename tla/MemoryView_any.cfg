SPECIFICATION Spec
CONSTANTS
    board = board
    overlay = overlay
    readme = readme
    Null = Null
    Files <- AllFiles
    DTFiles <- TwoTrees
    ExternalFiles <- NoFiles
    NameOf <- SameNames
    Closable <- AllFiles
    ReadsMayFail = TRUE
    MaxVersion = 2
    Unmappable <- FirstSaveUnmappable
INVARIANTS TypeOK NeverAnotherMap
PROPERTIES ActivationFresh
