CONSTANTS
    MaxKeys = 2
    MaxPastes = 2
    MaxChunks = 2
    DrainsUnpolled = TRUE
    DropDuringPaste = FALSE
    ModeSwitches = FALSE
    ClosesDuringPaste = TRUE
SPECIFICATION FairSpec
INVARIANTS DataInOrder BracketsMatch
PROPERTIES KeysAreDelivered
CHECK_DEADLOCK FALSE
