------------------------------- MODULE WebProofs -------------------------------
(***************************************************************************)
(* The web frontend keeps the promises of every page it can show.  A page  *)
(* that is looked at takes its own steps and the others none, so that each *)
(* behaviour of the frontend is, for each page, a behaviour of that page's *)
(* specification; what is proved of the pages then holds of the frontend.  *)
(***************************************************************************)
EXTENDS Web, AdminProofs, PageProofs

\* The frontend starts each page as the page starts by itself.
LEMMA PagesBegin ==
    ASSUME WebInit
    PROVE  /\ AuthInit \/ AuthInitLegacy
           /\ CacheInit /\ StudentsInit /\ PickerInit /\ RegistrationInit /\ SchoolInit /\ SystemInit
           /\ PackageInit /\ QuestionInit /\ CartInit /\ VideoInit /\ ProfileInit /\ OrdersInit
           /\ CurriculumInit /\ ProductInit /\ page \in Pages
BY Zenon DEF WebInit

\* A step of the frontend is, for each page, a step of it or none.
LEMMA PagesMove ==
    ASSUME [WebNext]_webVars
    PROVE  /\ [AuthNext]_authVars /\ [CacheNext]_cacheVars /\ [StudentsNext]_studentVars
           /\ [PickerNext]_pickerVars /\ [RegistrationNext]_registrationVars
           /\ [SchoolNext]_schoolVars /\ [SystemNext]_systemVars /\ [PackageNext]_packageVars
           /\ [QuestionNext]_questionVars /\ [CartNext]_cartVars /\ [VideoNext]_videoVars
           /\ [ProfileNext]_profileVars /\ [OrdersNext]_ordersVars
           /\ [CurriculumNext]_curriculumVars /\ [ProductNext]_productVars /\ UNCHANGED page
<1>1. CASE WebNext
  BY <1>1, Zenon DEF WebNext
<1>2. CASE UNCHANGED webVars
  BY <1>2 DEF webVars
<1>3. QED
  BY <1>1, <1>2

\* Each behaviour of the frontend is one of each page: the frontend implements the
\* session, the cache and the thirteen pages that read the code one by one.
THEOREM WebImplementsItsPages ==
    WebSpec => /\ AuthSpec /\ CacheSpec /\ StudentsSpec /\ PickerSpec /\ RegistrationSpec
               /\ SchoolSpec /\ SystemSpec /\ PackageSpec /\ QuestionSpec /\ CartSpec /\ VideoSpec
               /\ ProfileSpec /\ OrdersSpec /\ CurriculumSpec /\ ProductSpec /\ [](page \in Pages)
<1>1. WebInit => /\ AuthInit \/ AuthInitLegacy
                 /\ CacheInit /\ StudentsInit /\ PickerInit /\ RegistrationInit /\ SchoolInit
                 /\ SystemInit /\ PackageInit /\ QuestionInit /\ CartInit /\ VideoInit /\ ProfileInit
                 /\ OrdersInit /\ CurriculumInit /\ ProductInit /\ page \in Pages
  BY PagesBegin
<1>2. [WebNext]_webVars =>
          /\ [AuthNext]_authVars /\ [CacheNext]_cacheVars /\ [StudentsNext]_studentVars
          /\ [PickerNext]_pickerVars /\ [RegistrationNext]_registrationVars
          /\ [SchoolNext]_schoolVars /\ [SystemNext]_systemVars /\ [PackageNext]_packageVars
          /\ [QuestionNext]_questionVars /\ [CartNext]_cartVars /\ [VideoNext]_videoVars
          /\ [ProfileNext]_profileVars /\ [OrdersNext]_ordersVars
          /\ [CurriculumNext]_curriculumVars /\ [ProductNext]_productVars
  BY PagesMove
<1>3. page \in Pages /\ [WebNext]_webVars => (page \in Pages)'
  BY PagesMove
<1>4. QED
  BY <1>1, <1>2, <1>3, PTL
     DEF WebSpec, AuthSpec, CacheSpec, StudentsSpec, PickerSpec, RegistrationSpec, SchoolSpec,
         SystemSpec, PackageSpec, QuestionSpec, CartSpec, VideoSpec, ProfileSpec, OrdersSpec,
         CurriculumSpec, ProductSpec

\* The page that is looked at is well typed at every moment.
THEOREM WebTypesHold == WebSpec => []WebTypeOK
<1>1. /\ AuthTypeOK /\ CacheTypeOK /\ StudentsTypeOK /\ PickerTypeOK /\ RegistrationTypeOK
      /\ SchoolTypeOK /\ SystemTypeOK /\ PackageTypeOK /\ QuestionTypeOK /\ CartTypeOK /\ VideoTypeOK
      /\ ProfileTypeOK /\ OrdersTypeOK /\ CurriculumTypeOK /\ ProductTypeOK /\ page \in Pages
      => WebTypeOK
  BY Zenon DEF Pages, WebTypeOK
<1>2. QED
  BY <1>1, WebImplementsItsPages, AuthTypes, CacheTypesHold, StudentsTypesHold, PickerTypesHold,
     RegistrationTypesHold, SchoolTypesHold, SystemTypesHold, PackageTypesHold, QuestionTypesHold,
     CartTypesHold, VideoTypesHold, ProfileTypesHold, OrdersTypesHold, CurriculumTypesHold,
     ProductTypesHold, PTL

\* What a page promises when it is modelled alone, the frontend promises: whatever
\* page is looked at, every safety property of every page holds of it.
THEOREM PagesKeepTheirPromises ==
    WebSpec => /\ []ShellIsTheOwners /\ []NoneSkipped /\ []OutcomeOfThisFlow /\ []OwnWriteIsShown
               /\ []ChargedForThisCart /\ []GateCoversUnplayed /\ []ScoresStayWithTheirSession
               /\ []AnswersFollowTheirBlank /\ []FormFollowsProfile /\ []ReceiptIsOfItsOrder
               /\ []MovedAsSent /\ []AbandonedEditsStayOut
               /\ ListedAreSelected /\ EditsKeepOthers /\ SecretsOutliveSaves
BY WebImplementsItsPages, ShellsAreTheOwners, NobodySkipped, OutcomesAreOfThisFlow, OwnWritesAreShown,
   ChargedForThisOrder, UnplayedIsCovered, ScoresReachTheirSession, BlanksKeepTheirAnswers,
   FormsFollowProfiles, ReceiptsAreKept, MovesAreAsSent, AbandonedEditsAreGone, WalksSelectTheList,
   EditsKeepTheOthers, SecretsOutlive, PTL
===============================================================================
