CONSTANTS
    f0 = f0
    f1 = f1
    f2 = f2
    i1 = i1
    u1 = u1
    u2 = u2
    c1 = c1
    c2 = c2
    r1 = r1
    r2 = r2
    Null = Null
    Filing = {f0, f1, f2}
    Issuer = {i1}
    Url = {u1, u2}
    Checksum = {c1, c2}
    Concept = {"flow", "balance"}
    Instant = {"balance"}
    Reported <- MCReported
    Run = {r1, r2}
    IssuerOf <- MCIssuerOf
    Manifests <- MCManifests
    RetryErrors <- MCRetryErrors
    QuarantineErrors <- MCQuarantineErrors
    MaxAttempts = 2
    LeaseTerm = 1
    MaxClock = 2
SPECIFICATION Spec
INVARIANTS
    TypeOK
    EvidenceIsSound
    LedgerAddsUp
PROPERTIES
    GuardsNeverTrip
    SettledForever
    ImplementsDecision
