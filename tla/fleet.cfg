CONSTANTS
    weight = weight
    length = length
    extra = extra
    colW = colW
    colL = colL
    colX = colX
    parts = parts
    bins = bins
    overview = overview
    tolerance = tolerance
    widget = widget
    gadget = gadget
    supplies = supplies
    holds = holds
    rows = rows
    feed = feed
    core = core
    side = side
    broken = broken
    NoRole = NoRole
    NoMetric = NoMetric
    NoColumn = NoColumn
    NoEntity = NoEntity
    Document = {overview}
    Column = {colW, colL}
    Metric = {weight, length}
    Entity = {parts, bins}
    Benchmark = {tolerance}
    Subtype = {widget, gadget}
    RelationType = {supplies}
    Role = {holds}
    Name <- MCName
    Namespace <- MCNamespace
    NamespaceOf <- MCNamespaceOf
    PackDef <- LeanPackDef
    NameOf <- MCNameOf
    LocalPart <- MCLocalPart
    Score <- MCScore
    KeyRank <- MCKeyRank
    Threshold = 60
    Item = {rows, feed}
    Bundle <- LeanBundle
    Discovered <- BothItems
    Backend = "Neo4j"
    Client = {c1, c2}
    c1 = c1
    c2 = c2
    Pack = {core}
    Ledger = "shared"
    MaxFailures = 1
    MaxAnswers = 1
SPECIFICATION Spec
SYMMETRY Symmetry
INVARIANTS
    TypeOK
    DoneMeansLoaded
    LoadKeepsAll
    LinkedAsReported
    LinksJustified
    ResolvedOnce
    EscalatedIsQueued
PROPERTIES
    RunReturnsComplete
    OnlyAllowListed
    LinkedOnlyAsReported
    AbstractSpec
