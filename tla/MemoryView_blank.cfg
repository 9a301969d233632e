SPECIFICATION Spec
CONSTANTS
    board = board
    overlay = overlay
    readme = readme
    Null = Null
    Files <- BoardOnly
    DTFiles <- BoardOnly
    ExternalFiles <- NoFiles
    NameOf <- OwnNames
    Closable <- BoardOnly
    ReadsMayFail = FALSE
    MaxVersion = 2
    Unmappable <- NothingUnmappable
INVARIANTS RefreshShowsMap
