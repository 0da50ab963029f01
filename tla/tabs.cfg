CONSTANTS
    t1 = t1
    t2 = t2
    t3 = t3
    t4 = t4
    Terms = {t1, t2, t3, t4}
    MaxWidth = 5
    tabA = tabA
    tabB = tabB
    Tabs = {tabA, tabB}
    MinRun = 1
    Quiet = 2
    Flash = 1
    Reflash = 1
    Repeat = 2
    MaxTime = 5
    Admitted = {}
SPECIFICATION MCSpec
CHECK_DEADLOCK FALSE
SYMMETRY Symmetry
INVARIANTS HoverIsPane MarksAreTrue
