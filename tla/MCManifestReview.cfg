CONSTANTS
    Issuer = {"BBCA"}
    Quarters = {1}
    Annual = 9
    Provenance = {"first", "second"}
    Canonical = "BBCA"
    HandRow <- MCHandRow
    SourceRow <- MCSourceRow
    Null = Null
    MaxReleases = 2
    MaxEdits = 2
SPECIFICATION Spec
INVARIANTS
    TypeOK
    MergePassesReview
    BranchStaysMergeable
