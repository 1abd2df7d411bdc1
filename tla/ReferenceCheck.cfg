SPECIFICATION Spec
CONSTANTS
    b1 = b1
    c1 = c1
    c2 = c2
    r1 = r1
    r2 = r2
    h1 = h1
    h2 = h2
    baseline = baseline
    current = current
    None = None
    ProjectBindings = ProjectBindings
    Baseline = {b1}
    Contract = {c1}
    Reference = {r1}
    Approved = {r1}
    Scope <- ReferenceOnly
    MaxAttempts = 2
    Client = {h1}
    Alias = {baseline, current}
    DefaultBaseline = baseline
    Current = current
    Ops = {"create", "activate", "check"}
    Faults = {}
    Verdicts = {"PASS"}
    StaleRequests = FALSE
    MaxRevisions = 4
    MaxWorkflows = 2
    MaxCaptures = 2
    MaxEdits = 0
PROPERTIES
    ReadyCheckIsNotBlocked
CHECK_DEADLOCK FALSE
