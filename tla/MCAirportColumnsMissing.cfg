\* A table function that lacks a column in the middle.
CONSTANTS
  col_a = col_a
  col_b = col_b
  col_c = col_c
  col_d = col_d
  upper_a = upper_a
  int = int
  text = text
  param = param
  RowColumns <- MCTableColumns
  Other = other
  Defaults <- MCDefaults
  NotNull <- MCNotNull
  Answers <- MCAnswers
  Types <- MCTypes
  FlightSchemas <- MCFlightSchemas
  EndpointData <- MCEndpointData
  Parameters <- MCParameters
  MaxArg = 2
  ServerNames <- MCNames
  Lower <- MCLower
  Empty = empty
  CreateStatements <- MCCreateStatements
  ServerSchemas <- MCServerSchemas
  Functions <- MCFunctions
  AnyTypes <- MCTypes
  Unused = Unused
  RowId = rowid
  MaxVersion = 3
  MaxRuns = 2
  None = none
  Tables <- MCTables
SPECIFICATION PartsSpec
CHECK_DEADLOCK FALSE
INVARIANTS
  OutputMappingCorrect
