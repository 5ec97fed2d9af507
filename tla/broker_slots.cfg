SPECIFICATION Spec
CONSTANTS
    NULL = NULL
    a = a
    b = b
    a1 = a1
    a2 = a2
    b1 = b1
    Svc = {a, b}
    Proc = {a1, b1}
    SvcOf <- SvcOfAB
    PortOf <- PortsAB
    MAX_SVC_NUM = 2
    TMCHK_NORESP = 0
INVARIANTS
    TypeOK
    PortsUnique
    ReleaseFindsOpenSlot
    NodeOwnsSlot
