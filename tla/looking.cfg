CONSTANTS
  NumRows = 8
  ScreenRows = 2
  Selects = FALSE
  Modes = {"normal"}
  Laps = 1
  ShownRows = 2
  Texts <- TheTexts
  Grids <- TheGrids
  AltGrid <- TheAltGrid
  NewRows <- TheNewRows
  Typed = {"x"}
  Delimiters = {"."}
  MaxScroll = 2
  MaxLen = 2
  MaxExtended = 3
  MaxLast = 1
  Admitted = {}
SPECIFICATION MCSpec
CONSTRAINT Settled
INVARIANT SelectionIsAsDragged
PROPERTIES PromptKeysMoveTheView SearchFindsTheText
CHECK_DEADLOCK FALSE
