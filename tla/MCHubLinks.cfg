SPECIFICATION Spec
CONSTANTS
    c1 = c1
    c2 = c2
    Conns <- MCConns
    MaxClients = 2
    NULL = NULL
INVARIANTS
    TypeOK
    OneHost
    OneLeft
    QueueSound
    RefsBalanced
    MainKeepsIt
    ObjectForLeft
    SearchGoesOn
    PairingModeKept
PROPERTIES
    ObjectsComeBack
    ImplementsSession
    ImplementsHostFeed
CHECK_DEADLOCK FALSE
