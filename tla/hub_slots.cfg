SPECIFICATION Spec
CONSTANTS
    NULL = NULL
    x = x
    y = y
    h1 = h1
    h2 = h2
    a = a
    b = b
    px = px
    px2 = px2
    py = py
    Broker = {x, y}
    HostOf <- SameHosts
    Svc = {a}
    Proc = {px, py}
    BrokerOf <- PerBroker
    SvcOf <- OneSvc
    MAX_BROKER_NUM = 2
    TMCHK_NORESP = 0
    CreateFails = TRUE
    Prompt = FALSE
SYMMETRY Swap
INVARIANTS
    TypeOK
    HostsUnique
    ReleaseOnLiveLoop
    OneThreadPerSlot
