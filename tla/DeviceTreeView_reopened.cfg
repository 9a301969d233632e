SPECIFICATION Spec
CONSTANTS
    board = board
    overlay = overlay
    outside = outside
    readme = readme
    Null = Null
    Files <- BoardOnly
    DTFiles <- BoardOnly
    ExternalFiles <- NoFiles
    NameOf <- OwnNames
    Closable <- BoardOnly
    ReadsMayFail = FALSE
    BackgroundChanges = FALSE
    MaxVersion = 2
    Malformed <- NothingMalformed
INVARIANTS RightFile
