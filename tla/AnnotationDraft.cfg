SPECIFICATION Spec
CONSTANTS
    Unavailable = Unavailable
    None = None
    Pending = Pending
    Refused = Refused
    GeometryTolerance = 0
    Lower <- MCLower
    MaxRegions = 2
    MaxRequirements = 2
    NoteMax = 1
    MaxItems = 2
    Sources <- MCSources
    SavedBefore <- MCSavedBefore
    Gestures <- MCGestures
    Moves <- MCMoves
    Associations <- MCAssociations
    Forms <- MCForms
    MaxDrawn = 2
    MaxGestures = 6
    MaxStored = 3
    MaxSaves = 2
    MaxUses = 1
INVARIANTS
    CleanMeansSaved
    ConfirmedMeaningStands
    OfferedIsTaken
CHECK_DEADLOCK FALSE
