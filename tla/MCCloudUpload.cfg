\* Two records in batches of one or two, two faults and a rollback; two requests
\* under way, an abandoned one and its successor.
CONSTANTS
    Requests = {r1, r2}
    Limits = {1, 2}
    Setups <- MCSetups
    MaxRecords = 2
    MaxUndos = 1
    MaxFaults = 2
SPECIFICATION FairSpec
INVARIANTS
    UploadsAreComplete
    DuplicatesCostAFault
PROPERTIES
    RecordsAreUploaded
