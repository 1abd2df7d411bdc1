SPECIFICATION FairSpec
CONSTANTS
    primary = primary
    fallback = fallback
    e1 = e1
    e2 = e2
    Locator = {primary, fallback}
    Element = {e1, e2}
    LocatorsOf <- TwoTargets
    Scenarios <- AnyScenario
    NoScenario = NoScenario
    Window = Window
    None = None
    Notices = TRUE
    MaxEvents = 2
INVARIANTS
    CompleteMeansSeen
    FallbackOnlyAfterNothing
    HandlesReleased
PROPERTIES
    EveryCaptureEnds
    BlockedLoadIsRefused
CHECK_DEADLOCK FALSE
