SPECIFICATION FairSpec
CONSTANTS
    Regs = {r1}
    Workers = {w1, w2}
    Questions = {"q1"}
    Essays = {}
    Key <- MCKey
    Values = {"a"}
    NoAnswer = "none"
    NoScore = NoScore
    SectionOf <- OnlyFirst
    NumSections = 0
    MaxAttempts = Unlimited
    Unlimited = Unlimited
    RequiresCheckin = FALSE
    Duration = 1
    Grace = 1
    Extensions = {1}
    AttemptBound = 2
    Horizon = 5
PROPERTIES
    OverdueIsClosed
