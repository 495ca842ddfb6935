SPECIFICATION FairSidesSpec
CONSTANTS
    b1 = b1
    m1 = m1
    m2 = m2
    p1 = p1
    p2 = p2
    g1 = g1
    g2 = g2
    Blob = {b1}
    Manifest = {m1, m2}
    Refs <- MCRefs
    Repo = {r1}
    Client = {c1}
    Proc = {p1, p2}
    Report = {g1, g2}
    GraceWindow = 1
    ReportTTL = 1
    DeleteEnabled = TRUE
    GCDeleteEnabled = TRUE
    Faults = FALSE
    MaxTime = 3
    NoBlob = NoBlob
    NoReport = NoReport
    NoManifest = NoManifest
    NoRepo = NoRepo
INVARIANT
    AuditTrailComplete
