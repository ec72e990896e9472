SPECIFICATION Spec
CONSTANTS
    LeftWords <- SomeWords
    MaxAir = 2
    NullWord <- StackPointer
INVARIANTS
    TypeOK
    HubHasWord
PROPERTIES
    HubLearns
    NewsArrives
    ImplementsFeed
