SPECIFICATION Spec
CONSTANTS
    NULL = NULL
    x = x
    y = y
    h1 = h1
    h2 = h2
    a = a
    b = b
    px = px
    px2 = px2
    py = py
    Broker = {x}
    HostOf <- OneHost
    Svc = {a, b}
    Proc = {px, px2}
    BrokerOf <- OneBroker
    SvcOf <- TwoSvc
    MAX_BROKER_NUM = 1
    TMCHK_NORESP = 2
    CreateFails = FALSE
    Prompt = FALSE
PROPERTIES
    LeaseSpec
