CONSTANTS
    Questions = {1}
    SectionOf <- MCSectionOf
    NumSections = 2
    Positions = {1}
    Presses = {"press"}
    StorageTakes = {TRUE, FALSE}
    EditBound = 2
    VisitBound = 2
    SavesBound = 1
SPECIFICATION FairSpec
INVARIANTS TypeOK NothingForgotten SavedMeansStored
PROPERTIES SubmittedAsPressed ClosedSectionIsComplete ShownIsStored
CHECK_DEADLOCK FALSE
