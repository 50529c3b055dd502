CONSTANTS
    Token = 1
    Rate = 2
    CapacityGiven = 3
    NoCapacity = NoCapacity
    Requests = {1, 2, 3, 4}
    MaxTime = 5
SPECIFICATION FairSpec
INVARIANTS
    TypeOK
    WindowBounded
    SleepExact
PROPERTY AcquireReturns
