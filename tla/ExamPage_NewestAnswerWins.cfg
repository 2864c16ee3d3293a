CONSTANTS
    Questions = {1}
    SectionOf <- MCSectionOf
    NumSections = 2
    Positions = {1, 2}
    Presses = {"press"}
    StorageTakes = {TRUE}
    EditBound = 2
    VisitBound = 2
    SavesBound = 1
SPECIFICATION Spec
INVARIANTS NewestAnswerWins
CHECK_DEADLOCK FALSE
