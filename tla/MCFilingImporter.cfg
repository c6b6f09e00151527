CONSTANTS
    f1 = f1
    i1 = i1
    u1 = u1
    u2 = u2
    c1 = c1
    c2 = c2
    r1 = r1
    r2 = r2
    w1 = w1
    w2 = w2
    Null = Null
    NoWorker = NoWorker
    Filing = {f1}
    Worker = {w1, w2}
    Issuer = {i1}
    Url = {u1, u2}
    Checksum = {c1, c2}
    Concept = {"flow"}
    Instant = {}
    Reported <- MCReported
    Run = {r1, r2}
    IssuerOf <- MCIssuerOf
    RunOf <- MCRunOf
    Manifests <- OverlapManifests
    ManifestOf <- OverlapManifestOf
    Shard <- OverlapShard
    RetryErrors <- MCRetryErrors
    QuarantineErrors <- MCQuarantineErrors
    MaxAttempts = 2
    LeaseTerm = 1
    MaxClock = 2
    MaxMishaps = 2
SPECIFICATION FairImporterSpec
INVARIANTS
    ImporterTypeOK
    ReportIsTrue
    OneLiveWorker
PROPERTIES
    UsesLedger
    ImportingGetsDone
