SPECIFICATION Spec
CONSTANTS
    Unset = Unset
    NotAList = NotAList
    NoWord = NoWord
    Foreign = Foreign
    SafeUrls = {"app"}
    WellFormedNames = {"nav", "Nav", "main"}
    LowerCase <- MCLowerCase
    Dashed <- MCDashed
    NumberOf <- MCNumberOf
    ViewportOf <- MCViewportOf
    TargetOf <- MCTargetOf
    Processes = {"p1", "p2"}
    Lines <- MCLines
    Files <- MCFiles
    Images <- MCImages
    Segments <- MCSegments
    PathOf <- MCPathOf
    Already <- MCAlready
INVARIANTS
    ReadAsWritten
    StatusTellsOutcome
    EvidenceCoheres
CHECK_DEADLOCK FALSE
