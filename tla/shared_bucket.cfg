CONSTANTS
    Thread = {worker, feeder}
    Rate = 1
    Capacity = 2
    Requests = {1, 2}
    MaxTime = 2
SPECIFICATION Spec
INVARIANT IssueBounded
