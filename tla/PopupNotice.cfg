SPECIFICATION Spec
CONSTANTS
    primary = primary
    fallback = fallback
    e1 = e1
    e2 = e2
    Locator = {primary, fallback}
    Element = {e1, e2}
    LocatorsOf <- OneTarget
    Scenarios <- NoScroll
    NoScenario = NoScenario
    Window = Window
    None = None
    Notices = TRUE
    MaxEvents = 2
INVARIANTS
    NoticesAreNotFatal
CHECK_DEADLOCK FALSE
