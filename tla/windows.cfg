CONSTANTS
    t1 = t1
    t2 = t2
    t3 = t3
    w1 = w1
    Terms = {t1, t2, t3}
    Windows = {w1}
    NoTerm = NoTerm
    NoWin = NoWin
    ServerMode = FALSE
    Holding = {t3}
    NoChild = {t2}
    TabsOntoDying = FALSE
    DestroyEarly = FALSE
    TabsOntoUnconfigured = FALSE
    Tabs = {"A", "B"}
    Admitted = {}
    Buttons = {"left", "right"}
    Keys = {"dead", "x", "y"}
    Screens <- TheScreens
    Letters <- TheLetters
    Launchers = {"open"}
    Cells = {2}
    MaxTokens = 1
    Selections = {"clipboard", "primary"}
    Offered <- TheOffered
    MaxMade = 2
    MaxPastes = 2
    MaxQueue = 2
SPECIFICATION MCSpec
CHECK_DEADLOCK FALSE
INVARIANTS TabsArePolled HeldInputIsLetGo UrlsAreOpenedAsShown ClipboardPastesWhatWasCopied
