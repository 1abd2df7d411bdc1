SPECIFICATION Spec
CONSTANTS
    Unavailable = Unavailable
    GeometryTolerance = 1
    NotConfigured = NotConfigured
    None = None
    Baselines <- MCBaselines
    Candidates <- MCCandidates
    Acceptances <- MCAcceptances
    Lower <- MCLower
    MaxRegions = 2
    MaxRequirements = 3
INVARIANTS
    JudgedByGeometry
    PassMeansHeld
    PassKeepsOrder
    ChangesAreAuthored
    ConflictsAreMutual
    SupersessionRemoves
    MirroredComparison
    FidelityByGeometry
    ReferencePassMeansFaithful
    StatusFollowsEvidence
    ReviewAgreesWithCheck
CHECK_DEADLOCK FALSE
