SPECIFICATION Spec
CONSTANTS
    board = board
    overlay = overlay
    outside = outside
    readme = readme
    Null = Null
    Files <- AllTrees
    DTFiles <- AllTrees
    ExternalFiles <- Outside
    NameOf <- OwnNames
    Closable <- NoFiles
    ReadsMayFail = TRUE
    BackgroundChanges = FALSE
    MaxVersion = 2
    Malformed <- FirstSaveMalformed
INVARIANTS WidgetCurrent RightFile
PROPERTIES RevealsOwnText FollowsEditor
