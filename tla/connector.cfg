CONSTANTS
    fixtures = fixtures
    feeds = feeds
    Source = {fixtures, feeds}
    RefOf <- OwnRef
    System <- Plain
    TableName <- PlainTables
    Part <- MCPart
    ColumnName = {"weight", "lenght"}
    Uri = {"overview"}
    Rows <- MCRows
    Absent = Absent
    Version = {"1.0", "0.9"}
    IR_SCHEMA_VERSION = "1.0"
    Parsers <- MCParsers
    FirstContent <- OneTable
    MaxChanges = 1
    MaxFailures = 1
SPECIFICATION FairSpec
INVARIANTS
    TypeOK
    SkippedIsHeld
    ColumnsWereSeen
PROPERTY EventuallyIngested
