CONSTANTS
    Sizes = {1, 2, 3}
    Limits <- SomeLimits
    Delays = {0, 1, 2}
    Tries = {0, 1, 2}
    MaxEvents = 4
    Texts <- SomeTexts
    LineRooms = {2, 3}
    BufSize = 3
    Items <- SomeItems
    MaxNodes = 3
SPECIFICATION MCSpec
INVARIANTS ResultsAreTrue InTime LinesAsSent ListsHold
INVARIANTS SplitInvisible UploadIsNetText ListingReadBack DatesReadBack DecompressionFits
CHECK_DEADLOCK FALSE
