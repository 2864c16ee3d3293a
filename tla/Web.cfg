CONSTANTS
    Users = {"guru", "rina"}
    RoleOf <- MCRoleOf
    Incomplete = {"rina"}
    Requests = {1, 2}
    TokenBound = 3
    CacheWrites = 2
    Pupils = {1, 2, 3}
    Enrolled = {1, 3}
    RowsPerPage = 1
    PupilChanges = 1
    Candidates = {"any", "sma"}
    MatchedBy <- MCMatchedBy
    PickerRows = 1
    Participants = {1}
    CsvParticipants = {1}
    Others = 1
    RosterRows = 1
    Uploads = {1}
    GenerationBound = 1
    SchoolEdits = 2
    ImportRuns = {1}
    ConfigChanges = 2
    AccountChanges = 1
    ExamTests = {"t1", "t2"}
    Layers = {"l1", "l2"}
    Sittings = {1, 2}
    Essays = {1, 2}
    MaxScore = 0
    PackageWrites = 1
    GradesSent = 1
    Options = {1, 2}
    MaxRows = 3
    QuestionEdits = 3
    Places = {1, 2}
    MaxQty = 2
    Patches = {1}
    CartChanges = 2
    Lessons = {1, 2, 3}
    VideoOf <- MCVideoOf
    EventsBound = 2
    Contents = {"a", "b"}
    ProfileChanges = 2
    TypedBound = 1
    ShopOrders = {"o1", "o2"}
    Parcels = {"o1"}
    Files = {1}
    OrderMoves = 1
    RequestsOpen = 1
    Days = {"", "d1", "d2"}
    Units = {1, 2, 3}
    CurriculumWrites = 2
    Goods = {1, 2}
    Physical = {1}
    MaxStock = 1
    GoodsWrites = 3
SPECIFICATION WebSpec
CHECK_DEADLOCK FALSE
INVARIANTS
    WebTypeOK
    ShellIsTheOwners
    NoneSkipped
    OutcomeOfThisFlow
    OwnWriteIsShown
    ChargedForThisCart
    GateCoversUnplayed
    ScoresStayWithTheirSession
    AnswersFollowTheirBlank
    FormFollowsProfile
    ReceiptIsOfItsOrder
    MovedAsSent
    AbandonedEditsStayOut
PROPERTIES
    ListedAreSelected
    EditsKeepOthers
    SecretsOutliveSaves
