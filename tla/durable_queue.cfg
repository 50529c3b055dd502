CONSTANTS
    tables = tables
    feeds = feeds
    colX = colX
    colY = colY
    Resolver = {tables, feeds}
    Column = {colX, colY}
    Earlier <- NewOrUsed
    MaxEscalations = 3
SPECIFICATION Spec
INVARIANT DurableQueueGetsAll
