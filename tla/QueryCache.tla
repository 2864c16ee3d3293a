----------------------------- MODULE QueryCache ------------------------------
(***************************************************************************)
(* The browser's query cache: what each hook of lib/hooks reads and under  *)
(* which key, what each mutation writes and which keys it invalidates, and *)
(* how a cached answer, a request for it and a mutation may overlap.  A    *)
(* query and a mutation are looked at together, every such pair in turn.   *)
(*                                                                         *)
(* A key is the sequence the hook builds, an id or a filter in it being    *)
(* the one looked at; an invalidated key covers the keys it begins.        *)
(***************************************************************************)
EXTENDS Naturals, Sequences, SequencesExt

CONSTANT CacheWrites     \* bound: writes of the server looked at

ASSUME CacheConstants == CacheWrites \in Nat

VARIABLES
    query, mutation,  \* the pair
    mounted,          \* a component observes the query
    cached,           \* its data: "none", or whether what it reads was written since
    invalidated, aged,   \* its data is to be read again at the next mount; 30 s old
    asking,           \* its request: "idle", "asked", or answered and on its way back
    mutating,         \* "idle", "sent", or written and its answer on its way back
    overlooked,       \* a request was left running when a mutation succeeded, or a
                      \* mutation's outcome was lost, and nothing newer has come since
    writes            \* bound: counts the writes

cacheVars == <<query, mutation, mounted, cached, invalidated, aged, asking, mutating,
               overlooked, writes>>

Query(key, reads)         == [key |-> key, reads |-> reads]
Mutation(writing, covers) == [writing |-> writing, covers |-> covers]

Admin(root)             == <<"admin", root>>
AdminList(root)         == <<"admin", root, "list">>
AdminDetail(root)       == <<"admin", root, "detail", "id">>
AdminExams(part)        == <<"adminExams", part>>

-----------------------------------------------------------------------------
(***************************************************************************)
(* What an answer carries, by the fields its type has in lib/types.ts and  *)
(* what its endpoint fills them from and chooses its rows by.  A kind of   *)
(* data is what one kind of mutation changes.  What no mutation of the     *)
(* browser changes (regions, jobs) is left out.                            *)
(***************************************************************************)

Names  == {"student", "profile"}                   \* a participant's name, school, photo
Sat    == {"new attempt", "attempt", "sitting"}    \* a session's state: started, advanced or
                                                   \* submitted, reopened or closed by an admin
Paper  == {"exam tests", "test", "attachment", "attachment order", "question"}
Bought == {"order", "checkout", "retry"}           \* an order: an administrator's, a buyer's steps

SchoolData  == {"school"} \cup Names                    \* student_count
StudentData == {"school", "registration"} \cup Names    \* school_name; who is not yet let in
UserData    == {"own photo", "account"} \cup Names

ProductData   == {"product", "checkout"}      \* a checkout takes stock,
PromoData     == {"promo", "checkout"}        \* and counts in used_count
OrderData     == Bought \cup {"shipment"}
OrderRowData  == OrderData \cup {"school", "cart"} \cup Names    \* student_name, student_school
RevenueData   == {"order", "checkout"}
SummaryData   == OrderData \cup Names
TrackingData  == {"shipment"}
CourseData    == {"course", "section"}
LearnerData   == {"progress", "order"} \cup CourseData     \* completed; a refund takes it away
LearnerDashboardData == Bought \cup {"progress"} \cup CourseData    \* pending_order

AuditData           == {"account", "student", "config", "order", "registration"}
AdminDashboardData  == OrderData \cup {"school", "exam", "registration"} \cup Names \cup Sat
ExamDashboardData   == {"exam", "registration", "new course", "question", "new test", "test", "violation"}
                         \cup Sat \cup Names
SchoolDashboardData == Bought \cup {"student", "profile", "grade", "exam"} \cup Sat

TestData      == {"new test", "test", "attachment"}                      \* question_count
QuestionsData == {"question", "topic", "attachment", "attachment order"}
TestDetailData == {"test"} \cup QuestionsData
TopicData     == {"topic", "question"}                                   \* question_count
BankData      ==                                                         \* in_live_exam
    {"question", "topic", "attachment", "exam", "exam tests", "product"} \cup Sat

ExamData       == {"exam", "exam tests", "test", "design", "product", "registration", "profile"}
ExamDetailData == {"exam", "exam tests", "test", "attachment", "design"}
DesignData     == {"design", "certificate switch"}

UngradedData    == {"grade", "answer", "question"} \cup Sat \cup Names
EssayData       == {"grade", "answer", "question", "attachment", "attachment order", "exam tests"} \cup Sat
LeaderboardData == {"grade"} \cup Sat \cup Names
AnalyticsData   == {"grade", "exam tests", "question", "attachment"} \cup Sat
RosterData      == {"registration", "check-in", "exam"} \cup Sat \cup Names

MonitorData   ==
    {"answer", "violation", "check-in", "registration", "school", "exam", "exam tests", "test", "attachment"}
      \cup Sat \cup Names
AvailableData == {"exam", "exam tests", "test", "registration", "check-in"} \cup Sat
ViolationData == {"violation"}

RegistrationData == {"check-in", "registration", "exam", "config"} \cup Sat
CardData         == RegistrationData \cup {"exam tests", "test"}
SittingData      == {"attempt", "sitting", "answer", "exam"} \cup Paper
ResultData       == {"grade", "answer", "exam"} \cup Sat \cup Paper
ResultRowData    == {"grade", "violation", "school"} \cup Sat \cup Names
ResultDetailData == ResultData \cup Names
WorkspaceData    == ResultRowData \cup {"registration"} \cup Paper
AttemptData      == {"grade", "answer", "violation", "question"} \cup Sat

-----------------------------------------------------------------------------
(***************************************************************************)
(* The hooks: each query's key and answer, each mutation's writes (what    *)
(* its handler has changed when it answers) and the keys it invalidates.   *)
(***************************************************************************)

AccountQueries   == {Query(AdminList("accounts"), {"account"})}
AccountMutations == {Mutation({"account"}, {Admin("accounts")})}

AnnouncementQueries   == {Query(AdminList("announcements"), {"announcement"})}
AnnouncementMutations == {Mutation({"announcement"}, {AdminList("announcements")})}

ConfigQueries   == {Query(Admin("config") \o <<"detail">>, {"config"})}
ConfigMutations == {Mutation({"config"}, {Admin("config")})}

\* What is only read: the audit log, the three dashboards and the revenue.
AuditQueries   == {Query(AdminList("audit"), AuditData)}
RevenueQueries == {Query(AdminList("revenue"), RevenueData)}
DashboardQueries ==
    {Query(Admin("dashboard") \o <<"range">>, AdminDashboardData),
     Query(Admin("dashboard") \o <<"exam">>, ExamDashboardData),
     Query(Admin("dashboard") \o <<"school">>, SchoolDashboardData)}

BankQueries   == {Query(AdminList("bank-questions"), BankData)}
BankMutations == {Mutation({"question"}, {AdminList("bank-questions")})}

TopicQueries   == {Query(AdminList("topics"), TopicData)}
TopicMutations == {Mutation({"topic"}, {AdminList("topics")})}

TestQueries ==
    {Query(AdminList("tests"), TestData), Query(AdminDetail("tests"), TestDetailData),
     Query(Admin("tests") \o <<"questions", "id">>, QuestionsData)}
TestMutations ==
    LET questions == {Admin("tests") \o <<"questions", "id">>}
        bank      == {AdminList("bank-questions")}
    IN  {Mutation({"new test"}, {AdminList("tests")}),
         Mutation({"test"}, {AdminList("tests"), AdminDetail("tests")}),
         Mutation({"question", "attachment"}, questions \cup bank),
         Mutation({"attachment"}, questions \cup bank),
         Mutation({"attachment order"}, questions)}

CourseQueries ==
    {Query(AdminList("courses"), {"new course", "course"}),
     Query(AdminDetail("courses"), CourseData),
     Query(AdminDetail("courses") \o <<"sections">>, {"section"})}
CourseMutations ==
    {Mutation({"new course"}, {AdminList("courses")}),
     Mutation({"course"}, {AdminList("courses"), AdminDetail("courses")}),
     Mutation({"section"}, {AdminDetail("courses") \o <<"sections">>})}

ExamQueries ==
    {Query(AdminExams("list"), ExamData),
     Query(AdminExams("detail") \o <<"id">>, ExamDetailData),
     Query(AdminExams("detail") \o <<"id", "certificate-design">>, DesignData)}
ExamMutations ==   \* create; update and its card; its certificate switch; its design; its tests
    LET detail == AdminExams("detail") \o <<"id">>
    IN  {Mutation({"exam"}, {AdminExams("list"), AdminExams("detail")}),
         Mutation({"exam"}, {AdminExams("list"), detail}),
         Mutation({"exam", "certificate switch"},
                  {AdminExams("list"), detail, detail \o <<"certificate-design">>}),
         Mutation({"design"}, {detail, detail \o <<"certificate-design">>}),
         Mutation({"exam tests"}, {AdminExams("list"), detail})}

GradingQueries ==
    {Query(AdminExams("grading") \o <<"id">>, UngradedData),
     Query(AdminExams("sessionEssays") \o <<"id">>, EssayData)}
ParticipantQueries ==
    {Query(AdminExams("leaderboard") \o <<"id">>, LeaderboardData),
     Query(AdminExams("analytics") \o <<"id">>, AnalyticsData),
     Query(AdminExams("roster") \o <<"id">>, RosterData)}
GradingMutations ==
    {Mutation({"grade"}, {AdminExams("sessionEssays") \o <<"id">>, AdminExams("grading"),
                          <<"exam", "result", "id">>})}

\* The participant search, and the grant with its dialog's invalidation.
GrantQueries == {Query(Admin("examGrants") \o <<"search">>, StudentData)}
GrantMutations ==
    {Mutation({"registration"}, {Admin("examGrants"), AdminExams("roster") \o <<"id">>})}
BulkQueries ==   \* the exams' products, each with what makes it available
    {Query(Admin("bulkExamOrders") \o <<"orderableExams">>,
           ProductData \cup {"exam", "exam tests", "test"})}
BulkMutations ==   \* a new order, still a cart
    {Mutation({"bulk order"}, {Admin("bulkExamOrders"), AdminExams("roster") \o <<"id">>})}

ResultQueries ==
    {Query(AdminList("results"), ResultRowData), Query(AdminDetail("results"), ResultDetailData)}
WorkspaceQueries ==
    {Query(AdminList("results_workspace"), WorkspaceData),
     Query(Admin("results_workspace") \o <<"attempts">>, AttemptData),
     Query(AdminDetail("results_workspace"), ResultDetailData)}

SessionQueries ==
    {Query(<<"adminSessions", "monitor", "id">>, MonitorData),
     Query(<<"adminSessions", "monitor-available">>, AvailableData),
     Query(<<"adminSessions", "violations", "id">>, ViolationData)}
SessionMutations == {Mutation({"sitting"}, {<<"adminSessions", "monitor">>})}

NoticeQueries   == {Query(AdminList("notifications"), {"notification", "order"})}
NoticeMutations == {Mutation({"notification"}, {Admin("notifications")})}

AdminOrderQueries ==   \* the list and the detail have carts too
    {Query(AdminList("orders"), OrderRowData \cup {"bulk order"}),
     Query(AdminDetail("orders"), OrderRowData),
     Query(Admin("orders") \o <<"summary">>, SummaryData),
     Query(Admin("orders") \o <<"tracking", "id">>, TrackingData)}

AdminOrderMutations_ListOnly == {Mutation({"order", "shipment"}, {AdminList("orders")})}

\* Confirm, ship, refresh, cancel, refund, reconcile and complete.
AdminOrderMutations == {Mutation({"order", "shipment"}, {Admin("orders")})}

ProductQueries   == {Query(AdminList("products"), ProductData)}
ProductMutations == {Mutation({"product"}, {AdminList("products")})}

PromoQueries   == {Query(AdminList("promos"), PromoData)}
PromoMutations == {Mutation({"promo"}, {AdminList("promos")})}

ShopQueries ==   \* an exam is on sale when it can be sat
    LET onSale == ProductData \cup {"exam", "exam tests", "test"}
    IN  {Query(<<"products", "list">>, onSale), Query(<<"products", "detail", "id">>, onSale \cup {"course"})}

SchoolQueries ==
    {Query(AdminList("schools"), SchoolData), Query(Admin("schools") \o <<"options">>, {"school"}),
     Query(<<"students", "schools">>, {"school"})}
SchoolMutations == {Mutation({"school"}, {Admin("schools")})}

StudentQueries   == {Query(AdminList("students"), StudentData)}
StudentMutations == {Mutation({"student"}, {Admin("students")})}

OrderQueries ==
    {Query(<<"orders", "cart">>, {"cart", "checkout"}),
     Query(<<"orders", "list">>, OrderData), Query(<<"orders", "detail", "id">>, OrderData),
     Query(<<"orders", "active-promos">>, PromoData)}
OrderMutations ==
    {Mutation({"cart"}, {<<"orders", "cart">>}),                        \* quantity, details
     Mutation({"cart"}, {<<"orders", "cart">>, <<"orders", "list">>}),  \* add, remove
     Mutation({"checkout"}, {<<"orders", "cart">>, <<"orders", "list">>}),
     Mutation({"retry"}, {<<"orders", "detail", "id">>, <<"orders", "list">>})}

LearnerQueries ==
    {Query(<<"courses", "list">>, {"progress", "order"}), Query(<<"courses", "detail", "id">>, LearnerData)}
LearnerMutations == {Mutation({"progress"}, {<<"courses", "detail", "id">>, <<"courses", "list">>})}

ProfileQueries ==
    {Query(<<"students", "dashboard">>, LearnerDashboardData), Query(<<"students", "profile">>, Names)}
ProfileMutations == {Mutation({"profile"}, {<<"students", "profile">>})}

MeQueries   == {Query(<<"auth", "me">>, UserData)}
MeMutations == {Mutation({"own photo"}, {<<"auth", "me">>})}

ExamineeQueries ==
    {Query(<<"exam", "list">>, RegistrationData), Query(<<"exam", "detail", "id">>, CardData)}
SittingQueries ==
    {Query(<<"exam", "session", "id">>, SittingData), Query(<<"exam", "result", "id">>, ResultData),
     Query(<<"exam", "leaderboard", "id">>, ResultDetailData)}
ExamineeMutations ==   \* check in; advance, submit; start; save answers; log a violation
    {Mutation({"check-in"}, {<<"exam", "detail">>, <<"exam", "list">>}),
     Mutation({"attempt"}, {<<"exam", "session", "id">>}),
     Mutation({"new attempt"}, {}), Mutation({"answer"}, {}), Mutation({"violation"}, {})}

Queries ==
    UNION {AccountQueries, AnnouncementQueries, ConfigQueries, AuditQueries, RevenueQueries,
           DashboardQueries, BankQueries, TopicQueries, TestQueries, CourseQueries, ExamQueries,
           GradingQueries, ParticipantQueries, GrantQueries, BulkQueries, ResultQueries,
           WorkspaceQueries, SessionQueries, NoticeQueries, AdminOrderQueries, ProductQueries,
           PromoQueries, ShopQueries, SchoolQueries, StudentQueries, OrderQueries,
           LearnerQueries, ProfileQueries, MeQueries, ExamineeQueries, SittingQueries}
Mutations ==
    UNION {AccountMutations, AnnouncementMutations, ConfigMutations, BankMutations,
           TopicMutations, TestMutations, CourseMutations, ExamMutations, GradingMutations,
           GrantMutations, BulkMutations, SessionMutations, NoticeMutations,
           AdminOrderMutations, ProductMutations, PromoMutations, SchoolMutations,
           StudentMutations, OrderMutations, LearnerMutations, ProfileMutations, MeMutations,
           ExamineeMutations}

Reads(q, m)  == q.reads \cap m.writing # {}
Covers(m, q) == \E key \in m.covers : IsPrefix(key, q.key)

\* The data a query has read again whenever a hook changes them.  Of all others
\* that it reads, what is shown stays old until it is read for another reason.
ReadAgain(key, data) ==
    \/ key = AdminList("accounts") /\ data = "account"
    \/ key = AdminList("announcements") /\ data = "announcement"
    \/ key = Admin("config") \o <<"detail">> /\ data = "config"
    \/ key = AdminList("bank-questions") /\ data \in {"question", "attachment"}
    \/ key = AdminList("topics") /\ data = "topic"
    \/ key = AdminList("tests") /\ data \in {"new test", "test"}
    \/ key = AdminDetail("tests") /\ data = "test"
    \/ key = Admin("tests") \o <<"questions", "id">> /\ data \in {"attachment", "attachment order"}
    \/ key = AdminList("courses") /\ data \in {"new course", "course"}
    \/ key = AdminDetail("courses") /\ data = "course"
    \/ key = AdminDetail("courses") \o <<"sections">> /\ data = "section"
    \/ key = AdminExams("list") /\ data \in {"exam", "exam tests"}
    \/ key = AdminExams("detail") \o <<"id">> /\ data \in {"exam", "exam tests", "design"}
    \/ key = AdminExams("detail") \o <<"id", "certificate-design">>
         /\ data \in {"design", "certificate switch"}
    \/ key \in {AdminExams("grading") \o <<"id">>, AdminExams("sessionEssays") \o <<"id">>,
                <<"exam", "result", "id">>} /\ data = "grade"
    \/ key \in {AdminExams("roster") \o <<"id">>, Admin("examGrants") \o <<"search">>}
         /\ data = "registration"
    \/ key = <<"adminSessions", "monitor", "id">> /\ data = "sitting"
    \/ key = AdminList("notifications") /\ data = "notification"
    \/ key \in {AdminList("orders"), Admin("orders") \o <<"summary">>, AdminDetail("orders")}
         /\ data \in {"order", "shipment"}
    \/ key = Admin("orders") \o <<"tracking", "id">> /\ data = "shipment"
    \/ key = AdminList("products") /\ data = "product"
    \/ key = AdminList("promos") /\ data = "promo"
    \/ key \in {AdminList("schools"), Admin("schools") \o <<"options">>} /\ data = "school"
    \/ key = AdminList("students") /\ data = "student"
    \/ key = <<"orders", "cart">> /\ data \in {"cart", "checkout"}
    \/ key = <<"orders", "list">> /\ data \in {"checkout", "retry"}
    \/ key = <<"orders", "detail", "id">> /\ data = "retry"
    \/ key \in {<<"courses", "list">>, <<"courses", "detail", "id">>} /\ data = "progress"
    \/ key = <<"students", "profile">> /\ data = "profile"
    \/ key = <<"auth", "me">> /\ data = "own photo"
    \/ key \in {<<"exam", "list">>, <<"exam", "detail", "id">>} /\ data = "check-in"
    \/ key = <<"exam", "session", "id">> /\ data = "attempt"

KnownGap(q, m) == \A data \in q.reads \cap m.writing : ~ReadAgain(q.key, data)

-----------------------------------------------------------------------------
(* The cache *)

CacheTypeOK ==
    /\ query \in Queries /\ mutation \in Mutations
    /\ {mounted, invalidated, aged, overlooked} \subseteq BOOLEAN
    /\ cached \in {"none", "current", "old"}
    /\ asking \in {"idle", "asked", "current", "old"}
    /\ mutating \in {"idle", "sent", "written"} /\ writes \in 0..CacheWrites

Ask == asking' = "asked" /\ UNCHANGED overlooked

\* A component mounts: it shows what is cached, and asks when there is nothing,
\* when it was invalidated or when it is older than staleTime.  A request under
\* way serves it too.
Mount ==
    /\ ~mounted /\ mounted' = TRUE
    /\ IF asking = "idle" /\ (cached = "none" \/ invalidated \/ aged)
       THEN Ask ELSE UNCHANGED <<asking, overlooked>>
    /\ UNCHANGED <<query, mutation, cached, invalidated, aged, mutating, writes>>

\* The last observer goes; its request goes on.
Unmount ==
    /\ mounted /\ mounted' = FALSE
    /\ UNCHANGED <<query, mutation, cached, invalidated, aged, asking, mutating, overlooked, writes>>

\* The server reads for the request.
Read ==
    /\ asking = "asked" /\ asking' = "current"
    /\ UNCHANGED <<query, mutation, mounted, cached, invalidated, aged, mutating, overlooked, writes>>

\* The answer is cached, and counts as new.
Arrive ==
    /\ asking \in {"current", "old"}
    /\ cached' = asking /\ asking' = "idle" /\ invalidated' = FALSE /\ aged' = FALSE
    /\ overlooked' = (overlooked /\ asking = "old")
    /\ UNCHANGED <<query, mutation, mounted, mutating, writes>>

\* It fails, its one retry included; what was cached stays.
AskFails ==
    /\ asking # "idle" /\ asking' = "idle"
    /\ UNCHANGED <<query, mutation, mounted, cached, invalidated, aged, mutating, overlooked, writes>>

Age ==
    /\ cached # "none" /\ ~aged /\ aged' = TRUE
    /\ UNCHANGED <<query, mutation, mounted, cached, invalidated, asking, mutating, overlooked, writes>>

Mutate ==
    /\ mutating = "idle" /\ writes < CacheWrites /\ mutating' = "sent"
    /\ UNCHANGED <<query, mutation, mounted, cached, invalidated, aged, asking, overlooked, writes>>

Older(answer) == IF answer = "current" THEN "old" ELSE answer

\* The server carries it out.
Write ==
    /\ mutating = "sent" /\ mutating' = "written" /\ writes' = writes + 1
    /\ cached' = Older(cached) /\ asking' = Older(asking)
    /\ UNCHANGED <<query, mutation, mounted, invalidated, aged, overlooked>>

\* Its answer runs onSuccess.  An invalidated query that is mounted is asked for
\* again, in place of a request under way unless that is its first.
Succeed ==
    /\ mutating = "written" /\ mutating' = "idle"
    /\ invalidated' = (invalidated \/ Covers(mutation, query))
    /\ IF Covers(mutation, query) /\ mounted /\ (cached # "none" \/ asking = "idle")
       THEN Ask
       ELSE asking' = asking /\ overlooked' = (overlooked \/ asking # "idle")
    /\ UNCHANGED <<query, mutation, mounted, cached, aged, writes>>

\* It is refused, or its answer is lost.
MutationFails ==
    /\ mutating # "idle" /\ mutating' = "idle"
    /\ overlooked' = (overlooked \/ mutating = "written")
    /\ UNCHANGED <<query, mutation, mounted, cached, invalidated, aged, asking, writes>>

CacheInit ==
    /\ query \in Queries /\ mutation \in {m \in Mutations : Reads(query, m)}
    /\ mounted = FALSE /\ cached = "none" /\ invalidated = FALSE /\ aged = FALSE
    /\ asking = "idle" /\ mutating = "idle" /\ overlooked = FALSE /\ writes = 0

CacheNext ==
    \/ Mount \/ Unmount \/ Read \/ Arrive \/ AskFails \/ Age
    \/ Mutate \/ Write \/ Succeed \/ MutationFails

CacheSpec == CacheInit /\ [][CacheNext]_cacheVars

-----------------------------------------------------------------------------
\* What this browser changed is what it shows, of the data that are kept: once
\* its mutation has succeeded, old data is marked to be read again, unless the
\* answer was under way when the invalidation came.
OwnWriteIsShown ==
    cached = "old" /\ mutating = "idle" =>
        invalidated \/ overlooked \/ KnownGap(query, mutation)

=============================================================================
