SPECIFICATION Spec
CONSTANTS
  d1 = d1
  d2 = d2
  d3 = d3
  x = x
  y = y
  Ids = {d1, d2}
  Properties = {"a", "b"}
  Values = {"", x}
  Empty = ""
  NoDocument = NoDocument
  DocumentTypes <- MCDocumentTypes
  MaxTime = 1
  MaxCarried = 0
CHECK_DEADLOCK FALSE
INVARIANT Erasable
