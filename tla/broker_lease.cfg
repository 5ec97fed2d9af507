SPECIFICATION FairSpec
CONSTANTS
    NULL = NULL
    a = a
    b = b
    a1 = a1
    a2 = a2
    b1 = b1
    Svc = {a, b}
    Proc = {a1, a2, b1}
    SvcOf <- SvcOfAAB
    PortOf <- PortsAAB
    MAX_SVC_NUM = 1
    TMCHK_NORESP = 1
INVARIANTS
    LeasesNested
PROPERTIES
    LeaseSpec
    SilentForgotten
