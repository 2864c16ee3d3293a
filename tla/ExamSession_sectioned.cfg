SPECIFICATION FairSpec
CONSTANTS
    Regs = {r1}
    Workers = {w1}
    Questions = {"q1", "q2"}
    Essays = {"q2"}
    Key <- MCKey
    Values = {"a"}
    NoAnswer = "none"
    NoScore = NoScore
    SectionOf <- OneEach
    NumSections = 2
    MaxAttempts = 0
    Unlimited = Unlimited
    RequiresCheckin = TRUE
    Duration = 1
    Grace = 1
    Extensions = {1}
    AttemptBound = 1
    Horizon = 5
INVARIANTS
    SectionsInOrder
PROPERTIES
    ExpiryRespectsDeadline
    OverdueSectionIsClosed
