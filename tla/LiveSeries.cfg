SPECIFICATION LiveSpec
CONSTANTS
  SeriesCap = 2
  PointCap = 2
  NameLists <- Models
  MaxRows = 5
  InOrderIpc = TRUE
INVARIANTS RowsAreKept ColumnsFaithful
PROPERTIES MissesOnlyAtTheStart PlotCatchesUp
