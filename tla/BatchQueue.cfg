\* One server, two jobs, one retry, two faults.
CONSTANTS
    NoEnvelope = NoEnvelope
    Jobs = {j1, j2}
    Workers = {w1}
    Stamps = {0}
    RetryLimit = 1
    MaxFaults = 2
SPECIFICATION FairSpec
INVARIANTS
    JobsKept
    StatusTellsOutcome
PROPERTIES
    EventuallySettled
    ImplementsDelivery
CHECK_DEADLOCK FALSE
