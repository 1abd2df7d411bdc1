SPECIFICATION Spec
CONSTANTS
    b1 = b1
    c1 = c1
    c2 = c2
    r1 = r1
    r2 = r2
    None = None
    ProjectBindings = ProjectBindings
    h1 = h1
    h2 = h2
    Baseline = {b1}
    Contract = {c1, c2}
    Reference = {r1}
    Approved = {r1}
    Scope <- ReferenceOnly
    MaxAttempts = 2
    Client = {h1, h2}
    Alias = {baseline, current}
    baseline = baseline
    current = current
    DefaultBaseline = baseline
    Current = current
    Ops = {"create", "activate", "restore", "promote"}
    Faults = {}
    Verdicts = {}
    StaleRequests = FALSE
    MaxRevisions = 4
    MaxWorkflows = 2
    MaxCaptures = 0
    MaxEdits = 0
PROPERTIES
    UnrelatedConfigPreserved
CHECK_DEADLOCK FALSE
