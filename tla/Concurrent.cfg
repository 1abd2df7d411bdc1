SPECIFICATION Spec
CONSTANTS
    b1 = b1
    c1 = c1
    c2 = c2
    r1 = r1
    r2 = r2
    h1 = h1
    h2 = h2
    baseline = baseline
    current = current
    None = None
    ProjectBindings = ProjectBindings
    Baseline = {b1}
    Contract = {c1}
    Reference = {}
    Approved = {}
    Scope <- ActualOnly
    MaxAttempts = 2
    Client = {h1, h2}
    Alias = {baseline, current}
    DefaultBaseline = baseline
    Current = current
    Ops = {"create", "activate", "restore", "check", "review", "govern", "promote", "capture"}
    Faults = {"config-write", "persist", "rollback", "observe", "catalog-write", "crash"}
    Verdicts = {"PASS", "FAIL"}
    StaleRequests = TRUE
    MaxRevisions = 6
    MaxWorkflows = 2
    MaxCaptures = 3
    MaxEdits = 0
SYMMETRY ClientSymmetry
INVARIANTS
    IInv
PROPERTIES
    ForestSpec
CHECK_DEADLOCK FALSE
