CONSTANTS
    t1 = t1
    t2 = t2
    w1 = w1
    w2 = w2
    c1 = c1
    c2 = c2
    Terms = {t1, t2}
    Windows = {w1, w2}
    Clients = {c1, c2}
    NoTerm = NoTerm
    NoWin = NoWin
    NoClient = NoClient
    ServerMode = TRUE
    Holding = {}
    NoChild = {}
    TabsOntoDying = FALSE
    DestroyEarly = FALSE
    TabsOntoUnconfigured = FALSE
    UserTabs = FALSE
    SwitchDuringSetup = FALSE
    SwitchUnmapped = FALSE
    dark = dark
    light = light
    Themes = {dark, light}
    Helpers = {1, 2}
    Ids = {"n"}
    Requests <- TheRequests
    Icons = {"i", "j"}
    MaxIcons = 1
    Lines = {"id", "button", "token"}
    MaxLines = 3
    MaxRead = 2
    Admitted = {}
SPECIFICATION MCSpec
SYMMETRY Symmetry
CONSTRAINT Settled
INVARIANTS WaitingClientsHaveTerminals ThemeIsAsAsked NotificationsAreReported
PROPERTIES AnsweredWhenDestroyed
CHECK_DEADLOCK FALSE
