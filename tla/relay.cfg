SPECIFICATION FairSpec
CONSTANTS
    NULL = NULL
    s = s
    t = t
    a = a
    b = b
    c = c
    m1 = m1
    m2 = m2
    Svc = {s, t}
    Proc = {a, b, c}
    SvcOf <- SvcOfABC
    PortOf <- Ports
    Ipc = {c}
    SvcBegins <- SvcNames
    ProcBegins <- ProcNames
    Request = {m1, m2}
    From <- Senders
    To <- Receivers
    Mortal = {c}
    MaxReleases = 1
    RELAY_MAX = 3
    HWM = 1
INVARIANTS
    TypeOK
    TakenWhole
    TakenOnce
    FailedNotTaken
    AnswersRight
PROPERTIES
    NothingStuck
