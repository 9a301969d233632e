SPECIFICATION FairSpec
CONSTANTS
    board = board
    overlay = overlay
    outside = outside
    readme = readme
    Null = Null
    Files <- AllFiles
    DTFiles <- TwoTrees
    ExternalFiles <- NoFiles
    NameOf <- SameNames
    Closable <- AllFiles
    ReadsMayFail = TRUE
    BackgroundChanges = TRUE
    MaxVersion = 1
    Malformed <- FirstSaveMalformed
INVARIANTS TypeOK ProviderCurrent
PROPERTIES ActivationRepairs NoticeApplied
