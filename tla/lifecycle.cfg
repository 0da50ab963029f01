CONSTANTS
    t1 = t1
    t2 = t2
    t3 = t3
    w1 = w1
    w2 = w2
    Terms = {t1, t2, t3}
    Windows = {w1, w2}
    NoTerm = NoTerm
    NoWin = NoWin
    ServerMode = TRUE
    Holding = {t3}
    NoChild = {t1}
    TabsOntoDying = FALSE
    DestroyEarly = FALSE
    TabsOntoUnconfigured = FALSE
SPECIFICATION FairSpec
INVARIANTS CallbacksHaveTerminal WindowsAndTabsAgree FocusIsActiveTab
    ShutdownIsDriven
PROPERTIES ImplementsTerminalLife ShutdownCompletes
CHECK_DEADLOCK FALSE
