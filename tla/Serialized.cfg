SPECIFICATION Spec
CONSTANTS
    b1 = b1
    c1 = c1
    c2 = c2
    r1 = r1
    r2 = r2
    None = None
    ProjectBindings = ProjectBindings
    h1 = h1
    h2 = h2
    Baseline = {b1}
    Contract = {c1, c2}
    Reference = {r1}
    Approved = {r1}
    Scope <- BothModes
    MaxAttempts = 2
    Client = {h1}
    Alias = {baseline, current}
    baseline = baseline
    current = current
    DefaultBaseline = baseline
    Current = current
    Ops = {"create", "activate", "restore", "check", "review", "govern", "promote", "edit-reference"}
    Faults = {"config-write", "persist"}
    Verdicts = {"PASS", "FAIL"}
    StaleRequests = FALSE
    MaxRevisions = 7
    MaxWorkflows = 2
    MaxCaptures = 3
    MaxEdits = 1
INVARIANTS
    FinalDecisionStands
    AttemptsJudgeFrozenScope
    NoOrphanActivation
    RestoreSelectsBefore
    ReviewDiscipline
PROPERTIES
    RecordedSelectionInEffect
CHECK_DEADLOCK FALSE
