CONSTANTS
    MaxParams = 2
    MaxSubs = 1
    MaxPrivate = 2
    Wrap = 100
    MaxSeq = 5
    StringBytes = {"lead2"}
    Sizes <- TheSizes
    Counts = {1, 2, 3}
    Slots = {"g0", "g1", "g2"}
    Shifts = {"g2"}
    Flag = {"wrap"}
    Used = {"click", "drag", "sgr", "alt47", "alt1049"}
    MaxList = 2
    Levels = 3
    Bits = {1}
    MaxPop = 4
    Defects = {}
SPECIFICATION MCSpec
INVARIANTS SequencesAsWritten PrinterFits StateIsKept
