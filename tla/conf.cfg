SPECIFICATION FairSpec
CONSTANTS
    NULL = NULL
    s = s
    t = t
    b = b
    c1 = c1
    c2 = c2
    edited = edited
    twin = twin
    synced = synced
    readme = readme
    dotless = dotless
    Svc = {s, t}
    Proc = {b}
    SvcOf <- SvcOfB
    SvcBegins <- SvcNames
    File = {edited, twin, synced, readme, dotless}
    Conf = {c1, c2}
    FileSvc <- FileNames
    ConfOf <- ConfNames
    Dotless = {dotless}
    Moved = {twin, synced, readme, dotless}
    LinesOf <- Versions
    CHUNK = 2
    MaxReleases = 1
INVARIANTS
    TypeOK
    WholeVersion
    OwnConf
    FinalConf
PROPERTIES
    ConfReaches
