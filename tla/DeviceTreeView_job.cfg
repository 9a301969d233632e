SPECIFICATION Spec
CONSTANTS
    board = board
    overlay = overlay
    outside = outside
    readme = readme
    Null = Null
    Files <- TwoTrees
    DTFiles <- TwoTrees
    ExternalFiles <- NoFiles
    NameOf <- OwnNames
    Closable <- NoFiles
    ReadsMayFail = FALSE
    BackgroundChanges = TRUE
    MaxVersion = 2
    Malformed <- NothingMalformed
INVARIANTS NeverAnotherFile
