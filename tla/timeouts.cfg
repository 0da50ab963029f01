CONSTANTS
    Chars = {"nl", "cr", "c0", "bs", "text"}
    MaxText = 4
    MaxRead = 4
    Lower = 1
    Upper = 2
    SyncTime = 3
    Throttle = 1
    Overlays = {"csd", "urls"}
    MaxSyncs = 2
SPECIFICATION MCSpec
INVARIANTS PasteIsFiltered DelayIsBounded
PROPERTIES PasteEndsAtLast OutputIsDrawn
CHECK_DEADLOCK FALSE
