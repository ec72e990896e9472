SPECIFICATION Spec
CONSTANTS
    Words <- SomeWords
    Users = {"hub", "central"}
    Peers = {"notifying", "silent", "bare"}
    MaxPolls = 2
    NullWord <- StackPointer
INVARIANT NotificationsReported
