CONSTANTS
    Sizes <- TheSizes
    ScrollbackLines = 1
    MaxOutput = 3
    MaxConfigures = 3
    Length = 6
    Widths = {2, 4, 6}
    Links = {"a", "b"}
    Ring = 4
    Heights = {1, 2}
    Cols = 2
    MaxImages = 2
    MaxChanges = 1
    Admitted = {}
SPECIFICATION MCSpec
CHECK_DEADLOCK FALSE
INVARIANT CellsAreAsDrawn
PROPERTY ResizeKeepsText
