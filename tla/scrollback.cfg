SPECIFICATION Spec
CONSTANTS
  NumRows = 4
  ScreenRows = 3
  Selects = TRUE
  Modes = {"normal", "search", "urls"}
  Laps = 2
  Admitted = {}
INVARIANT RowsAllocated
PROPERTIES ImplementsScreenLog SelectionStays
