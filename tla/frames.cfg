CONSTANTS
    t1 = t1
    t2 = t2
    t3 = t3
    Terminals = {t1, t2, t3}
    NoTerm = NoTerm
    SplitsDuringFrame = FALSE
SPECIFICATION FramesSpec
INVARIANTS StaleIsDriven FrameHasTerminal
PROPERTIES ShownIsDrawn
