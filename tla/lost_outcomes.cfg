CONSTANTS
    weight = weight
    length = length
    extra = extra
    colW = colW
    colL = colL
    colX = colX
    parts = parts
    bins = bins
    overview = overview
    tolerance = tolerance
    widget = widget
    gadget = gadget
    supplies = supplies
    holds = holds
    rows = rows
    feed = feed
    core = core
    side = side
    broken = broken
    NoRole = NoRole
    NoMetric = NoMetric
    NoColumn = NoColumn
    NoEntity = NoEntity
    Document = {overview}
    Column = {colW, colL, colX}
    Metric = {weight, length, extra}
    Entity = {parts, bins}
    Benchmark = {tolerance}
    Subtype = {widget, gadget}
    RelationType = {supplies}
    Role = {holds}
    Name <- MCName
    Namespace <- MCNamespace
    NamespaceOf <- MCNamespaceOf
    PackDef <- LeanPackDef
    NameOf <- MCNameOf
    LocalPart <- MCLocalPart
    Score <- MCScore
    KeyRank <- MCKeyRank
    Threshold = 60
    Item = {rows, feed}
    Bundle <- LeanBundle
    Discovered <- BothItems
    Backend = "InMemory"
    Client = {c1}
    c1 = c1
    c2 = c2
    Pack = {core}
    Ledger = "process"
    MaxFailures = 1
    MaxAnswers = 0
SPECIFICATION Spec
INVARIANT OutcomesDelivered
CHECK_DEADLOCK FALSE
