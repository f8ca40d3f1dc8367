\* Two clients, three records that may go stale; one slot may be lost.
CONSTANTS
    Clients = {c1, c2}
    MaxConnections = 2
    Stale = 2
    Keepalive = 3
    MaxRecords = 3
    MaxBlocked = 1
    MaxLeaks = 1
SPECIFICATION FairSpec
INVARIANTS
    SlotsAreCounted
    ShownIsRecent
    NoticesAnswerOutages
    SilenceIsBroken
    RecordIsDelivered
PROPERTIES
    RecordsAdvance
    OutageIsTold
