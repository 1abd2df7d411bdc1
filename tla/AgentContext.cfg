SPECIFICATION Spec
CHECK_DEADLOCK FALSE
CONSTANTS
    None = None
    Refused = Refused
    Requests <- MCRequests
    Correlating <- MCCorrelating
    MaxTargets = 2
    MaxEvidence = 2
    MaxOmissions = 3
    MaxTruncations = 2
    MaxRecords = 2
    MaxCandidates = 2
    MaxMismatches = 2
    MaxProtected = 1
INVARIANTS
    LossIsVisible
    RequiredFirst
    CorrelationTold
PROPERTIES
    NeverBetter
