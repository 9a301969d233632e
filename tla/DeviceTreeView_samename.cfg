SPECIFICATION Spec
CONSTANTS
    board = board
    overlay = overlay
    outside = outside
    readme = readme
    Null = Null
    Files <- TwoTrees
    DTFiles <- TwoTrees
    ExternalFiles <- NoFiles
    NameOf <- SameNames
    Closable <- NoFiles
    ReadsMayFail = FALSE
    BackgroundChanges = FALSE
    MaxVersion = 2
    Malformed <- NothingMalformed
INVARIANTS RightFile
