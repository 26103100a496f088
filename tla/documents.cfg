SPECIFICATION Spec
CONSTANTS
  d1 = d1
  d2 = d2
  d3 = d3
  x = x
  y = y
  Ids = {d1, d2, d3}
  Properties = {"a", "b"}
  Values = {"", x, y}
  Empty = ""
  NoDocument = NoDocument
  DocumentTypes <- MCDocumentTypes
  MaxTime = 2
  MaxCarried = 1
SYMMETRY MCSymmetry
CHECK_DEADLOCK FALSE
INVARIANTS IndicesAgree RefusedExactly
PROPERTIES TableSpec HistoryKept
