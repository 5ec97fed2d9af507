SPECIFICATION Spec
CONSTANTS
    HUB = HUB
    PUB = PUB
    s = s
    t = t
    m1 = m1
    m2 = m2
    m3 = m3
    m4 = m4
    m5 = m5
    m6 = m6
    Svc = {s, t}
    Message = {m1, m2, m3, m4, m5, m6}
    KindOf <- Kinds
    SrcOf <- Srcs
    DstOf <- Dsts
INVARIANTS
    TypeOK
    SentWhole
    SentOnce
    NoHubLoop
    SwallowBound
    AloneNothingSwallowed
