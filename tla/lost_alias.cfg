CONSTANTS
    weight = weight
    length = length
    extra = extra
    colW = colW
    colL = colL
    colX = colX
    parts = parts
    bins = bins
    overview = overview
    tolerance = tolerance
    widget = widget
    gadget = gadget
    supplies = supplies
    holds = holds
    rows = rows
    feed = feed
    core = core
    side = side
    broken = broken
    NoRole = NoRole
    NoMetric = NoMetric
    NoColumn = NoColumn
    NoEntity = NoEntity
    Document = {overview}
    Column = {colL, colX}
    Metric = {length}
    Entity = {parts, bins}
    Benchmark = {tolerance}
    Subtype = {widget, gadget}
    RelationType = {supplies}
    Role = {holds}
    Name <- MCName
    Namespace <- MCNamespace
    NamespaceOf <- MCNamespaceOf
    PackDef <- MCPackDef
    NameOf <- MCNameOf
    LocalPart <- MCLocalPart
    Score <- MCScore
    KeyRank <- MCKeyRank
    Threshold = 60
    Item = {rows, feed}
    Bundle <- BareBundle
    Discovered <- BothItems
    Backend = "Neo4j"
    Client = {c1, c2}
    c1 = c1
    c2 = c2
    Pack = {}
    Ledger = "process"
    MaxFailures = 0
    MaxAnswers = 2
SPECIFICATION Spec
INVARIANT ConfirmedStays
CHECK_DEADLOCK FALSE
