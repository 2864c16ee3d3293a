SPECIFICATION LifeSpec
CONSTANTS
    Regs = {r1}
    Workers = {w1, w2}
    Questions = {"q1"}
    Essays = {}
    Key <- MCKey
    Values = {"a", "b"}
    NoAnswer = "none"
    NoScore = NoScore
    SectionOf <- OnlyFirst
    NumSections = 0
    MaxAttempts = 2
    Unlimited = Unlimited
    RequiresCheckin = FALSE
    Duration = 1
    Grace = 1
    Extensions = {1, 2}
    AttemptBound = 3
    Horizon = 5
    Submissions = {"s1"}
    EssayItems = {"e1", "e2"}
    Graders = {g1, g2}
    MaxPoints = 1
    MachinePoints <- MCMachinePoints
    NoGrade = NoGrade
    Designs = {"plain", "scored"}
    Scored = {"scored"}
    NoDesign = "none"
    NoPdf = NoPdf
    GradingWrites = 3
CHECK_DEADLOCK FALSE
SYMMETRY LifeSymmetry
INVARIANTS
    TypeOK
    OneLiveSession
    RegistrationTracksSessions
    GradedAsStored
    SettledIsCurrent
PROPERTIES
    SubmittedIsFinal
    KeepsAttemptPromise
