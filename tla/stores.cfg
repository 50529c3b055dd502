CONSTANTS
    Unset = Unset
    NoRole = NoRole
    Uid = {parts, bins}
    MetricKey = {"widgets.weight"}
    Triple = {"warehouse/parts/weight"}
    DocumentUri = {"overview"}
    BenchmarkKey = {"tolerance"}
    Note = {"old"}
    Attributes <- KeysAlone
    EntitySubtype = {"Widget"}
    PackEdgeType = {"FEEDS"}
    Role = {holds, supplies}
    MaxCalls = 4
SYMMETRY Interchangeable
SPECIFICATION Spec
INVARIANTS
    TypeOK
    SameNodes
    SameNeighbors
    SchemaCanCome
PROPERTY RerunIsNoOp
CHECK_DEADLOCK FALSE
