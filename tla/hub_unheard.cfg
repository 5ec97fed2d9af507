SPECIFICATION Spec
CONSTANTS
    NULL = NULL
    x = x
    y = y
    s = s
    m1 = m1
    m2 = m2
    Broker = {x, y}
    Svc = {s}
    Offers <- OffersTwo
    Request = {m1, m2}
    SrcOf <- Src
    DstOf <- Dst
    TMCHK_BROKER_SVC = 0
    QueueBound = 0
PROPERTIES
    RegistrationTaken
