CONSTANTS
    Token = 2
    Rate = 1
    CapacityGiven = NoCapacity
    NoCapacity = NoCapacity
    Requests = {2}
    MaxTime = 4
SPECIFICATION Spec
INVARIANT OneTokenAcquirable
