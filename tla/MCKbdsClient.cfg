SPECIFICATION Spec
CONSTANTS
    Words <- SomeWords
    Users = {"hub", "central"}
    Peers = {"notifying", "silent", "bare"}
    MaxPolls = 2
    NullWord <- StackPointer
INVARIANTS
    TypeOK
    OneRead
    HubReports
    PollingGoesOn
PROPERTIES
    PollingStops
    PollingWinds
