--------------------------------- MODULE Web ----------------------------------
(***************************************************************************)
(* The web frontend: the session its API client keeps, the query cache,    *)
(* and the pages whose state is more than what they show.  A browser tab   *)
(* has one page mounted, and leaving it drops its state, so one of them    *)
(* moves in each behaviour; the shared parts (session and cache) are       *)
(* modules beside the pages.                                               *)
(***************************************************************************)
EXTENDS AuthClient, QueryCache, StudentsPage, ParticipantPicker, ExamRegistrations,
        SchoolsPage, SystemPages, ExamPackage, QuestionEditor, CartPage, CourseVideo,
        ProfileForm, OrdersPage, CurriculumEditor, ProductsPage

VARIABLE page

webVars == <<page, authVars, cacheVars, studentVars, pickerVars, registrationVars, schoolVars,
             systemVars, packageVars, questionVars, cartVars, videoVars, profileVars, ordersVars,
             curriculumVars, productVars>>

Pages == {"session", "cache", "students", "picker", "registrations", "schools", "system",
          "package", "question", "cart", "video", "profile", "orders", "curriculum",
          "products"}

\* The type invariant of the page looked at.
WebTypeOK ==
    CASE page = "session"       -> AuthTypeOK
      [] page = "cache"         -> CacheTypeOK
      [] page = "students"      -> StudentsTypeOK
      [] page = "picker"        -> PickerTypeOK
      [] page = "registrations" -> RegistrationTypeOK
      [] page = "schools"       -> SchoolTypeOK
      [] page = "system"        -> SystemTypeOK
      [] page = "package"       -> PackageTypeOK
      [] page = "question"      -> QuestionTypeOK
      [] page = "cart"          -> CartTypeOK
      [] page = "video"         -> VideoTypeOK
      [] page = "profile"       -> ProfileTypeOK
      [] page = "orders"        -> OrdersTypeOK
      [] page = "curriculum"    -> CurriculumTypeOK
      [] page = "products"      -> ProductTypeOK

SomePair == CHOOSE p \in Queries \X Mutations : Reads(p[1], p[2])

\* A page that is not looked at keeps one of its initial states.
WebInit ==
    /\ page \in Pages
    /\ IF page = "session" THEN AuthInit \/ AuthInitLegacy ELSE AuthInit
    /\ CacheInit        /\ (page # "cache"         => <<query, mutation>> = SomePair)
    /\ PickerInit       /\ (page # "picker"        => filterKey = CHOOSE f \in Candidates : TRUE)
    /\ RegistrationInit /\ (page # "registrations" => adminRole = "super_admin")
    /\ SystemInit       /\ (page # "system"        => config.secret = "")
    /\ PackageInit      /\ (page # "package"       => packageTab = "tests")
    /\ OrdersInit       /\ (page # "orders"        => ordersPart = "dialogs"
                                                   /\ \A o \in ShopOrders : placed[o].row = NoRow
                                                   /\ ordersQuery.status = "all" /\ ordersQuery.queue = "")
    /\ CurriculumInit   /\ (page # "curriculum"    => listKind = "chapters" /\ unitsShown = <<>>)
    /\ ProductInit      /\ (page # "products"      => \A g \in Goods : goods[g] = Unused)
    /\ StudentsInit /\ SchoolInit /\ QuestionInit /\ CartInit /\ VideoInit /\ ProfileInit

WebNext ==
    /\ UNCHANGED page
    /\ IF page = "session"       THEN TRUE ELSE UNCHANGED authVars
    /\ IF page = "cache"         THEN TRUE ELSE UNCHANGED cacheVars
    /\ IF page = "students"      THEN TRUE ELSE UNCHANGED studentVars
    /\ IF page = "picker"        THEN TRUE ELSE UNCHANGED pickerVars
    /\ IF page = "registrations" THEN TRUE ELSE UNCHANGED registrationVars
    /\ IF page = "schools"       THEN TRUE ELSE UNCHANGED schoolVars
    /\ IF page = "system"        THEN TRUE ELSE UNCHANGED systemVars
    /\ IF page = "package"       THEN TRUE ELSE UNCHANGED packageVars
    /\ IF page = "question"      THEN TRUE ELSE UNCHANGED questionVars
    /\ IF page = "cart"          THEN TRUE ELSE UNCHANGED cartVars
    /\ IF page = "video"         THEN TRUE ELSE UNCHANGED videoVars
    /\ IF page = "profile"       THEN TRUE ELSE UNCHANGED profileVars
    /\ IF page = "orders"        THEN TRUE ELSE UNCHANGED ordersVars
    /\ IF page = "curriculum"    THEN TRUE ELSE UNCHANGED curriculumVars
    /\ IF page = "products"      THEN TRUE ELSE UNCHANGED productVars
    /\ \/ page = "session"       /\ AuthNext
       \/ page = "cache"         /\ CacheNext
       \/ page = "students"      /\ StudentsNext
       \/ page = "picker"        /\ PickerNext
       \/ page = "registrations" /\ RegistrationNext
       \/ page = "schools"       /\ SchoolNext
       \/ page = "system"        /\ SystemNext
       \/ page = "package"       /\ PackageNext
       \/ page = "question"      /\ QuestionNext
       \/ page = "cart"          /\ CartNext
       \/ page = "video"         /\ VideoNext
       \/ page = "profile"       /\ ProfileNext
       \/ page = "orders"        /\ OrdersNext
       \/ page = "curriculum"    /\ CurriculumNext
       \/ page = "products"      /\ ProductNext

WebSpec == WebInit /\ [][WebNext]_webVars
===============================================================================
