SPECIFICATION Spec
CONSTANTS
    c1 = c1
    c2 = c2
    Conns <- MCConns
    MaxClients = 2
    NULL = NULL
INVARIANT ConfirmAnswerable
