SPECIFICATION QuerySpec
CONSTANTS
  Ids <- MCIds
  Properties = {"a", "b"}
  Values <- MCValues
  Empty <- MCEmpty
  NoDocument = NoDocument
  DocumentTypes <- MCDocumentTypes
  MaxTime = 2
  MaxCarried = 3
  StoredData <- MCStoredData
  MaxItems = 3
  MaxPages = 4
  SqlQueries <- MCSqlQueries
  Queries <- MCQueries
  NoClause = NoClause
  NoStart = NoStart
  NoTime = NoTime
  NoSession = NoSession
  MaxLimit = 100
  MaxInValues = 100
  MaxIndexDifference = 2
CHECK_DEADLOCK FALSE
INVARIANTS
  AnswersRight
  PagesComplete
