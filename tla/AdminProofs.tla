----------------------------- MODULE AdminProofs ------------------------------
(***************************************************************************)
(* The pages of the administrators, for every set of students, schools,    *)
(* accounts, essays and questions: a score reaches the session it was      *)
(* typed for, an outcome belongs to the dialog that asked for it, an edit  *)
(* of a school writes what was typed, a saved form keeps the secrets it    *)
(* shows masked, "select all" takes the list it walked, the pages of the   *)
(* list of students skip nobody, and a question's blanks keep their        *)
(* answers.                                                                *)
(***************************************************************************)
EXTENDS ExamPackage, ExamRegistrations, SchoolsPage, SystemPages, ParticipantPicker,
        StudentsPage, QuestionEditor, FiniteSetTheorems, SequenceTheorems,
        WellFoundedInduction, TLAPS

(***************************************************************************)
(* Essay cards and the page of an exam                                     *)
(***************************************************************************)

GradingTypes ==
    /\ gradingSession \in Sittings \cup {0} /\ DOMAIN essaysSeen \subseteq Sittings
    /\ \A s \in DOMAIN essaysSeen : essaysSeen[s] \in [Essays -> 0..NoScore]
    /\ grade \in [Sittings \X Essays -> 0..NoScore]
    /\ scoreInputs \in [Essays -> ScoreCard] /\ grades \subseteq Grades /\ online \in BOOLEAN

\* The cards on the screen hold the scores of the session on the screen.
CardsOfTheSession == CardsShown => \A e \in Essays : scoreInputs[e].of = gradingSession

GradingInv == GradingTypes /\ CardsOfTheSession /\ ScoresStayWithTheirSession

\* What the promise says of one score under way, with session s on the screen.
Addressed(g, s) ==
    /\ g.net = "sent" => g.of = g.sitting
    /\ g.net = "waits" /\ g.latest => g.sitting = s

LEMMA NoSittingIsZero ==
    /\ 0 \notin Sittings /\ MaxScore \in Nat /\ NoScore \in 0..NoScore
    /\ \A n \in 0..MaxScore : n \in 0..NoScore
    /\ \A n \in 0..NoScore : n \in Scores
BY PackageConstants DEF NoScore, Scores

LEMMA GradeFollows ==
    ASSUME NEW g \in Grades, NEW s \in Sittings \cup {0}
    PROVE  LET h == [g EXCEPT !.covers = IF g.latest THEN s ELSE @,
                              !.sitting = IF g.latest /\ g.net = "waits" THEN s ELSE @]
           IN  h \in Grades /\ (Addressed(g, gradingSession) => Addressed(h, s))
BY DEF Grades, Addressed

LEMMA GradeNotLatest ==
    ASSUME NEW g \in Grades
    PROVE  LET h == [g EXCEPT !.latest = FALSE]
           IN  h \in Grades /\ (Addressed(g, gradingSession) => Addressed(h, gradingSession))
BY DEF Grades, Addressed

LEMMA GradeResumes ==
    ASSUME NEW g \in Grades
    PROVE  LET h == [g EXCEPT !.net = IF g.net = "waits" THEN "resumed" ELSE @]
           IN  h \in Grades /\ (Addressed(g, gradingSession) => Addressed(h, gradingSession))
BY DEF Grades, Addressed

LEMMA CardsFit ==
    ASSUME NEW s \in Sittings, NEW scores \in [Essays -> 0..NoScore]
    PROVE  /\ CardsFrom(s, scores) \in [Essays -> ScoreCard]
           /\ \A e \in Essays : CardsFrom(s, scores)[e].of = s
BY NoSittingIsZero DEF CardsFrom, ScoreCard

LEMMA GradingInitInv == ASSUME PackageInit PROVE GradingInv
<1>1. gradingSession = 0 /\ DOMAIN essaysSeen = {} /\ grades = {} /\ online \in BOOLEAN
  BY DEF PackageInit
<1>2. scoreInputs \in [Essays -> ScoreCard] /\ grade \in [Sittings \X Essays -> 0..NoScore]
  BY NoSittingIsZero DEF PackageInit, ScoreCard
<1>3. QED
  BY <1>1, <1>2 DEF GradingInv, GradingTypes, CardsOfTheSession, CardsShown, ScoresStayWithTheirSession

LEMMA GradingStep == ASSUME GradingInv, [PackageNext]_packageVars PROVE GradingInv'
<1> USE DEF GradingInv
<1>1. CASE UNCHANGED gradeVars
  BY <1>1 DEF gradeVars, GradingTypes, CardsOfTheSession, CardsShown, ScoresStayWithTheirSession
<1>2. ASSUME NEW s \in Sittings \cup {0}, SelectSitting(s) PROVE GradingInv'
  <2> DEFINE Follows(g) == [g EXCEPT !.covers = IF g.latest THEN s ELSE @,
                                     !.sitting = IF g.latest /\ g.net = "waits" THEN s ELSE @]
  <2>1. /\ gradingSession' = s /\ UNCHANGED <<grade, essaysSeen, online>>
        /\ scoreInputs' = IF s \in DOMAIN essaysSeen THEN CardsFrom(s, essaysSeen[s]) ELSE scoreInputs
        /\ grades' = {Follows(g) : g \in grades}
    BY <1>2 DEF SelectSitting
  <2>2. \A g \in grades : Follows(g) \in Grades /\ Addressed(Follows(g), s)
    BY GradeFollows DEF GradingTypes, ScoresStayWithTheirSession, Addressed
  <2> HIDE DEF Follows
  <2>3. grades' \subseteq Grades /\ ScoresStayWithTheirSession'
    BY <2>1, <2>2 DEF ScoresStayWithTheirSession, Addressed
  <2>4. /\ scoreInputs' \in [Essays -> ScoreCard]
        /\ s \in DOMAIN essaysSeen => \A e \in Essays : scoreInputs'[e].of = s
    BY <2>1, CardsFit DEF GradingTypes
  <2>5. GradingTypes' /\ CardsOfTheSession'
    BY <2>1, <2>3, <2>4 DEF GradingTypes, CardsOfTheSession, CardsShown
  <2>6. QED
    BY <2>3, <2>5
<1>3. CASE EssaysArrive
  <2> DEFINE s == gradingSession
  <2>1. /\ s # 0 /\ s \in Sittings /\ essaysSeen' = WithEssays(s)
        /\ scoreInputs' = IF s \in DOMAIN essaysSeen /\ essaysSeen[s] = EssaysOf(s) THEN scoreInputs
                          ELSE CardsFrom(s, EssaysOf(s))
        /\ UNCHANGED <<grade, gradingSession, grades, online>>
    BY <1>3 DEF EssaysArrive, GradingTypes
  <2>2. EssaysOf(s) \in [Essays -> 0..NoScore]
    BY <2>1 DEF EssaysOf, GradingTypes
  <2>3. /\ DOMAIN essaysSeen' \subseteq Sittings
        /\ \A k \in DOMAIN essaysSeen' : essaysSeen'[k] \in [Essays -> 0..NoScore]
    BY <2>1, <2>2 DEF WithEssays, GradingTypes
  <2>4. /\ scoreInputs' \in [Essays -> ScoreCard]
        /\ \A e \in Essays : scoreInputs'[e].of = s
    BY <2>1, <2>2, CardsFit DEF GradingTypes, CardsOfTheSession, CardsShown
  <2>5. QED
    BY <2>1, <2>3, <2>4 DEF GradingTypes, CardsOfTheSession, ScoresStayWithTheirSession
<1>4. ASSUME NEW e \in Essays, NEW score \in Scores, TypeScore(e, score) PROVE GradingInv'
  <2>1. /\ CardsShown /\ UNCHANGED <<grade, essaysSeen, gradingSession, grades, online>>
        /\ scoreInputs' = [scoreInputs EXCEPT ![e] = [score |-> score, of |-> gradingSession]]
    BY <1>4 DEF TypeScore
  <2>2. [score |-> score, of |-> gradingSession] \in ScoreCard
    BY DEF ScoreCard, GradingTypes
  <2>3. QED
    BY <2>1, <2>2 DEF GradingTypes, CardsOfTheSession, CardsShown, ScoresStayWithTheirSession
<1>5. ASSUME NEW e \in Essays, SaveEssay(e) PROVE GradingInv'
  <2> DEFINE Older(g) == [g EXCEPT !.latest = FALSE]
             made == [sitting |-> gradingSession, essay |-> e, score |-> scoreInputs[e].score,
                      of |-> scoreInputs[e].of, covers |-> gradingSession, latest |-> TRUE,
                      net |-> IF online THEN "sent" ELSE "waits"]
  <2>1. /\ CardsShown /\ scoreInputs[e].score \in 0..MaxScore
        /\ grades' = {Older(g) : g \in grades} \cup {made}
        /\ UNCHANGED <<grade, essaysSeen, gradingSession, scoreInputs, online>>
    BY <1>5 DEF SaveEssay
  <2>2. gradingSession \in Sittings /\ scoreInputs[e].of = gradingSession
    BY <2>1 DEF CardsShown, CardsOfTheSession, GradingTypes
  <2>3. made \in Grades /\ Addressed(made, gradingSession)
    BY <2>1, <2>2 DEF Grades, Addressed
  <2>4. \A g \in grades : Older(g) \in Grades /\ Addressed(Older(g), gradingSession)
    BY GradeNotLatest DEF GradingTypes, ScoresStayWithTheirSession, Addressed
  <2> HIDE DEF Older, made
  <2>5. grades' \subseteq Grades /\ ScoresStayWithTheirSession'
    BY <2>1, <2>3, <2>4 DEF ScoresStayWithTheirSession, Addressed
  <2>6. QED
    BY <2>1, <2>5 DEF GradingTypes, CardsOfTheSession, CardsShown
<1>6. ASSUME NEW g \in grades, EssayGraded(g) PROVE GradingInv'
  <2>1. /\ grades' \subseteq grades /\ UNCHANGED <<essaysSeen, gradingSession, scoreInputs, online>>
        /\ grade' = grade \/ grade' = [grade EXCEPT ![<<g.sitting, g.essay>>] = g.score]
    BY <1>6 DEF EssayGraded
  <2>2. g.score \in 0..NoScore
    <3>1. g.score \in 0..MaxScore
      BY DEF GradingTypes, Grades
    <3>2. QED
      BY <3>1, NoSittingIsZero
  <2>3. grade' \in [Sittings \X Essays -> 0..NoScore]
    BY <2>1, <2>2 DEF GradingTypes
  <2>4. QED
    BY <2>1, <2>3 DEF GradingTypes, CardsOfTheSession, CardsShown, ScoresStayWithTheirSession
<1>7. (testsShown \/ studioShown) => UNCHANGED gradeVars
  BY DEF testsShown, studioShown
<1>8. CASE \/ ExamArrives \/ SaveTests \/ TestsSaved \/ Switch \/ Switched
           \/ \E x \in ExamTests : PickTest(x)
           \/ OpenExamEdit \/ SubmitExam \/ CloseExamEdit \/ ExamSaved
           \/ \E title \in {"", "b"} : TypeTitle(title)
  <2>1. testsShown
    BY <1>8 DEF ExamArrives, SaveTests, TestsSaved, Switch, Switched, PickTest, OpenExamEdit,
                SubmitExam, CloseExamEdit, ExamSaved, TypeTitle
  <2>2. QED
    BY <2>1, <1>1, <1>7
<1>9. CASE \/ DesignArrives \/ ChooseImage \/ SaveDesign \/ DesignSaved
           \/ \E x \in Layers : EditLayer(x) \/ ImageUploaded(x)
  <2>1. studioShown
    BY <1>9 DEF DesignArrives, ChooseImage, SaveDesign, DesignSaved, EditLayer, ImageUploaded
  <2>2. QED
    BY <2>1, <1>1, <1>7
<1>10. CASE NetworkChanges
  <2> DEFINE Resumes(g) == [g EXCEPT !.net = IF g.net = "waits" THEN "resumed" ELSE @]
  <2>1. /\ online' = ~online /\ grades' = {Resumes(g) : g \in grades}
        /\ UNCHANGED <<grade, essaysSeen, gradingSession, scoreInputs>>
    BY <1>10 DEF NetworkChanges
  <2>2. \A g \in grades : Resumes(g) \in Grades /\ Addressed(Resumes(g), gradingSession)
    BY GradeResumes DEF GradingTypes, ScoresStayWithTheirSession, Addressed
  <2> HIDE DEF Resumes
  <2>3. grades' \subseteq Grades /\ ScoresStayWithTheirSession'
    BY <2>1, <2>2 DEF ScoresStayWithTheirSession, Addressed
  <2>4. online' \in BOOLEAN
    BY <2>1
  <2>5. GradingTypes' /\ CardsOfTheSession'
    BY <2>1, <2>3, <2>4 DEF GradingTypes, CardsOfTheSession, CardsShown
  <2>6. QED
    BY <2>3, <2>5
<1>11. CASE UNCHANGED packageVars
  BY <1>11, <1>1 DEF packageVars
<1>12. QED
  BY <1>2, <1>3, <1>4, <1>5, <1>6, <1>8, <1>9, <1>10, <1>11 DEF PackageNext

\* Whatever sessions were opened and whatever essays arrived meanwhile, a score
\* that is sent at once was typed, or loaded, for the session it is sent to; the one
\* saved last without a network follows the session on the screen.
THEOREM ScoresReachTheirSession == PackageSpec => []ScoresStayWithTheirSession
<1>1. PackageInit => GradingInv
  BY GradingInitInv
<1>2. GradingInv /\ [PackageNext]_packageVars => GradingInv'
  BY GradingStep
<1>3. GradingInv => ScoresStayWithTheirSession
  BY DEF GradingInv
<1>4. QED
  BY <1>1, <1>2, <1>3, PTL DEF PackageSpec

\* The types of the tests' tab, with its dialog, and of the certificate's studio.
TestTypes ==
    /\ exam \in Exams /\ examSeen \in Exams /\ attachedIds \in SUBSET ExamTests
    /\ (replacing = NoSet \/ replacing \in SUBSET ExamTests)
    /\ examEdit \in [open : BOOLEAN, title : {"", "a", "b"}] /\ examSaving \in {"", "a", "b"}
    /\ examDue \in BOOLEAN /\ toggling \in BOOLEAN

StudioTypes ==
    /\ design \in SUBSET Layers /\ designSeen \in SUBSET Layers /\ layout \in SUBSET Layers
    /\ (imageUpload = NoSet \/ imageUpload \in SUBSET Layers)
    /\ (designSaving = NoSet \/ designSaving \in SUBSET Layers)
    /\ designDue \in BOOLEAN /\ dirty \in BOOLEAN

TabTypes ==
    /\ packageTab \in {"tests", "certificate", "grading"} /\ packageWrites \in 0..PackageWrites
    /\ essaysDue \in SUBSET Sittings

PackageInv == GradingInv /\ TestTypes /\ StudioTypes /\ TabTypes

LEMMA PackageInvTypes == ASSUME PackageInv PROVE PackageTypeOK
<1>1. {exam, examSeen} \subseteq Exams /\ {design, designSeen, layout} \subseteq SUBSET Layers
  BY DEF PackageInv, TestTypes, StudioTypes
<1>2. {examDue, designDue, toggling, dirty} \subseteq BOOLEAN
  BY Zenon DEF PackageInv, TestTypes, StudioTypes
<1>3. \A s \in {imageUpload, designSaving} : s = NoSet \/ s \subseteq Layers
  BY DEF PackageInv, StudioTypes
<1>4. QED
  BY <1>1, <1>2, <1>3 DEF PackageInv, GradingInv, GradingTypes, TestTypes, TabTypes, PackageTypeOK

LEMMA PackageInitInv == ASSUME PackageInit PROVE PackageInv
<1>1. GradingInv
  BY GradingInitInv
<1>2. TestTypes
  BY DEF PackageInit, TestTypes, Exams, NoEdit
<1>3. StudioTypes
  BY DEF PackageInit, StudioTypes
<1>4. TabTypes
  <2>1. 0 \in 0..PackageWrites
    BY PackageConstants
  <2>2. QED
    BY <2>1 DEF PackageInit, TabTypes
<1>5. QED
  BY <1>1, <1>2, <1>3, <1>4 DEF PackageInv

\* What an administrator does on the tests' tab, and what the server answers there.
LEMMA TestsStep == ASSUME TestTypes, [PackageNext]_packageVars PROVE TestTypes'
<1> USE DEF TestTypes
<1>1. CASE UNCHANGED testVars
  BY <1>1 DEF testVars
<1>2. CASE ExamArrives
  <2>1. exam.tests \in SUBSET ExamTests /\ exam.title \in {"a", "b"}
    BY DEF Exams
  <2>2. QED
    BY <1>2, <2>1 DEF ExamArrives
<1>3. ASSUME NEW x \in ExamTests, PickTest(x) PROVE TestTypes'
  BY <1>3 DEF PickTest
<1>4. CASE SaveTests
  BY <1>4 DEF SaveTests
<1>5. CASE TestsSaved
  <2>1. exam' = exam \/ exam' = [exam EXCEPT !.tests = replacing]
    BY <1>5 DEF TestsSaved
  <2>2. replacing \in SUBSET ExamTests
    BY <1>5 DEF TestsSaved
  <2>3. exam' \in Exams
    BY <2>1, <2>2 DEF Exams
  <2>4. QED
    BY <1>5, <2>3 DEF TestsSaved
<1>6. CASE Switch
  BY <1>6 DEF Switch
<1>7. CASE Switched
  <2>1. exam' = exam \/ exam' = [exam EXCEPT !.certificate = ~@]
    BY <1>7 DEF Switched
  <2>2. exam' \in Exams
    BY <2>1 DEF Exams
  <2>3. QED
    BY <1>7, <2>2 DEF Switched
<1>8. CASE OpenExamEdit
  <2>1. examSeen.title \in {"a", "b"}
    BY DEF Exams
  <2>2. QED
    BY <1>8, <2>1 DEF OpenExamEdit
<1>9. ASSUME NEW title \in {"", "b"}, TypeTitle(title) PROVE TestTypes'
  BY <1>9 DEF TypeTitle
<1>10. CASE SubmitExam
  BY <1>10 DEF SubmitExam
<1>11. CASE CloseExamEdit
  BY <1>11 DEF CloseExamEdit, NoEdit
<1>12. CASE ExamSaved
  <2>1. exam' = exam \/ exam' = [exam EXCEPT !.title = examSaving]
    BY <1>12 DEF ExamSaved
  <2>2. examSaving \in {"a", "b"}
    BY <1>12 DEF ExamSaved
  <2>3. exam' \in Exams
    BY <2>1, <2>2 DEF Exams
  <2>4. examEdit' \in [open : BOOLEAN, title : {"", "a", "b"}]
    <3>1. examEdit' = examEdit \/ examEdit' = [open |-> FALSE, title |-> ""]
      BY <1>12 DEF ExamSaved, NoEdit
    <3>2. [open |-> FALSE, title |-> ""] \in [open : BOOLEAN, title : {"", "a", "b"}]
      OBVIOUS
    <3>3. QED
      BY <3>1, <3>2, Zenon
  <2>5. examDue' \in BOOLEAN
    BY <1>12, Zenon DEF ExamSaved
  <2>6. QED
    BY <1>12, <2>3, <2>4, <2>5 DEF ExamSaved
<1>13. CASE studioShown \/ gradingShown
  BY <1>1, <1>13 DEF studioShown, gradingShown
<1>14. CASE \/ DesignArrives \/ ChooseImage \/ SaveDesign \/ DesignSaved
            \/ \E x \in Layers : EditLayer(x) \/ ImageUploaded(x)
  BY <1>13, <1>14 DEF DesignArrives, ChooseImage, SaveDesign, DesignSaved, EditLayer, ImageUploaded
<1>15. CASE \/ \E s \in Sittings \cup {0} : SelectSitting(s)
            \/ EssaysArrive \/ NetworkChanges
            \/ \E e \in Essays : SaveEssay(e) \/ \E score \in Scores : TypeScore(e, score)
            \/ \E g \in grades : EssayGraded(g)
  BY <1>13, <1>15 DEF SelectSitting, EssaysArrive, NetworkChanges, SaveEssay, TypeScore, EssayGraded
<1>16. CASE UNCHANGED packageVars
  BY <1>1, <1>16 DEF packageVars
<1>17. QED
  BY <1>2, <1>3, <1>4, <1>5, <1>6, <1>7, <1>8, <1>9, <1>10, <1>11, <1>12, <1>14, <1>15, <1>16
     DEF PackageNext

LEMMA StudioStep == ASSUME StudioTypes, [PackageNext]_packageVars PROVE StudioTypes'
<1> USE DEF StudioTypes
<1>1. CASE UNCHANGED designVars
  BY <1>1 DEF designVars
<1>2. CASE DesignArrives
  BY <1>2 DEF DesignArrives
<1>3. ASSUME NEW x \in Layers, EditLayer(x) PROVE StudioTypes'
  BY <1>3 DEF EditLayer
<1>4. CASE ChooseImage
  BY <1>4 DEF ChooseImage
<1>5. ASSUME NEW x \in Layers, ImageUploaded(x) PROVE StudioTypes'
  BY <1>5 DEF ImageUploaded
<1>6. CASE SaveDesign
  BY <1>6 DEF SaveDesign
<1>7. CASE DesignSaved
  BY <1>7 DEF DesignSaved
<1>8. CASE testsShown \/ gradingShown
  BY <1>1, <1>8 DEF testsShown, gradingShown
<1>9. CASE \/ ExamArrives \/ SaveTests \/ TestsSaved \/ Switch \/ Switched
           \/ \E x \in ExamTests : PickTest(x)
           \/ OpenExamEdit \/ SubmitExam \/ CloseExamEdit \/ ExamSaved
           \/ \E title \in {"", "b"} : TypeTitle(title)
  BY <1>8, <1>9 DEF ExamArrives, SaveTests, TestsSaved, Switch, Switched, PickTest, OpenExamEdit,
                    SubmitExam, CloseExamEdit, ExamSaved, TypeTitle
<1>10. CASE \/ \E s \in Sittings \cup {0} : SelectSitting(s)
            \/ EssaysArrive \/ NetworkChanges
            \/ \E e \in Essays : SaveEssay(e) \/ \E score \in Scores : TypeScore(e, score)
            \/ \E g \in grades : EssayGraded(g)
  BY <1>8, <1>10 DEF SelectSitting, EssaysArrive, NetworkChanges, SaveEssay, TypeScore, EssayGraded
<1>11. CASE UNCHANGED packageVars
  BY <1>1, <1>11 DEF packageVars
<1>12. QED
  BY <1>2, <1>3, <1>4, <1>5, <1>6, <1>7, <1>9, <1>10, <1>11 DEF PackageNext

\* One more write is counted, or none.
LEMMA WritesCounted ==
    ASSUME packageWrites \in 0..PackageWrites, PackageTakes \/ UNCHANGED packageWrites
    PROVE  packageWrites' \in 0..PackageWrites
<1>1. \A m, n \in Nat : n \in 0..m /\ n < m => n + 1 \in 0..m
  OBVIOUS
<1>2. PackageWrites \in Nat /\ \A m, n : m \in Nat /\ n \in 0..m => n \in Nat
  BY PackageConstants
<1>3. QED
  BY <1>1, <1>2 DEF PackageTakes

LEMMA TabsStep == ASSUME GradingInv, TabTypes, [PackageNext]_packageVars PROVE TabTypes'
<1>1. CASE UNCHANGED packageVars
  BY <1>1 DEF packageVars, gradeVars, TabTypes
<1>2. CASE PackageNext
  <2>1. PackageTakes \/ UNCHANGED packageWrites
    BY <1>2, Zenon
       DEF PackageNext, ExamArrives, SaveTests, TestsSaved, Switch, Switched, PickTest, OpenExamEdit,
           SubmitExam, CloseExamEdit, ExamSaved, TypeTitle, DesignArrives, ChooseImage, SaveDesign,
           DesignSaved, EditLayer, ImageUploaded, SelectSitting, EssaysArrive, NetworkChanges, SaveEssay, TypeScore,
           EssayGraded
  <2>2. packageWrites' \in 0..PackageWrites
    BY <2>1, WritesCounted DEF TabTypes
  <2>3. packageTab' = packageTab
    BY <1>2, Zenon
       DEF PackageNext, ExamArrives, SaveTests, TestsSaved, Switch, Switched, PickTest, OpenExamEdit,
           SubmitExam, CloseExamEdit, ExamSaved, TypeTitle, DesignArrives, ChooseImage, SaveDesign,
           DesignSaved, EditLayer, ImageUploaded, SelectSitting, EssaysArrive, NetworkChanges, SaveEssay, TypeScore,
           EssayGraded, testsShown, studioShown, gradingShown
  <2>4. essaysDue' \in SUBSET Sittings
    <3>1. ASSUME UNCHANGED gradeVars PROVE essaysDue' \in SUBSET Sittings
      BY <3>1 DEF gradeVars, TabTypes
    <3>2. ASSUME NEW s \in Sittings \cup {0}, SelectSitting(s) PROVE essaysDue' \in SUBSET Sittings
      <4>1. essaysDue' = essaysDue \/ essaysDue' = essaysDue \cup ({s} \ {0})
        BY <3>2, Zenon DEF SelectSitting
      <4>2. QED
        BY <4>1 DEF TabTypes
    <3>3. ASSUME EssaysArrive \/ NetworkChanges PROVE essaysDue' \in SUBSET Sittings
      BY <3>3 DEF EssaysArrive, NetworkChanges, TabTypes
    <3>4. ASSUME NEW e \in Essays, SaveEssay(e) \/ \E score \in Scores : TypeScore(e, score)
          PROVE essaysDue' \in SUBSET Sittings
      BY <3>4 DEF SaveEssay, TypeScore, TabTypes
    <3>5. ASSUME NEW g \in grades, EssayGraded(g) PROVE essaysDue' \in SUBSET Sittings
      <4>1. g.covers \in Sittings \cup {0}
        BY DEF GradingInv, GradingTypes, Grades
      <4>2. QED
        BY <3>5, <4>1 DEF EssayGraded, TabTypes
    <3>6. ASSUME \/ ExamArrives \/ SaveTests \/ TestsSaved \/ Switch \/ Switched
                 \/ \E x \in ExamTests : PickTest(x)
                 \/ OpenExamEdit \/ SubmitExam \/ CloseExamEdit \/ ExamSaved
                 \/ \E title \in {"", "b"} : TypeTitle(title)
                 \/ DesignArrives \/ ChooseImage \/ SaveDesign \/ DesignSaved
                 \/ \E x \in Layers : EditLayer(x) \/ ImageUploaded(x)
          PROVE UNCHANGED gradeVars
      BY <3>6, Zenon
         DEF ExamArrives, SaveTests, TestsSaved, Switch, Switched, PickTest, OpenExamEdit,
             SubmitExam, CloseExamEdit, ExamSaved, TypeTitle, DesignArrives, ChooseImage, SaveDesign,
             DesignSaved, EditLayer, ImageUploaded, testsShown, studioShown
    <3>7. QED
      BY <1>2, <3>1, <3>2, <3>3, <3>4, <3>5, <3>6, Zenon DEF PackageNext
  <2>5. QED
    BY <2>2, <2>3, <2>4 DEF TabTypes
<1>3. QED
  BY <1>1, <1>2

\* Whatever the tests, layers, sittings and essays, every step of the exam's page
\* keeps its lists, forms, drafts and requests well typed.
THEOREM PackageTypesHold == PackageSpec => []PackageTypeOK
<1>1. PackageInit => PackageInv
  BY PackageInitInv
<1>2. PackageInv /\ [PackageNext]_packageVars => PackageInv'
  BY GradingStep, TestsStep, StudioStep, TabsStep DEF PackageInv
<1>3. PackageInv => PackageTypeOK
  BY PackageInvTypes
<1>4. QED
  BY <1>1, <1>2, <1>3, PTL DEF PackageSpec

-------------------------------------------------------------------------------
(***************************************************************************)
(* The registration dialog                                                 *)
(***************************************************************************)

GrantAnswer  == Outcomes \cup {Nothing}
Current(outcome) == outcome # Nothing => outcome.generation = flowGeneration /\ modalOpen

FlowTypes ==
    /\ flowGeneration \in Generations /\ modalOpen \in BOOLEAN
    /\ picked \subseteq Participants
    /\ previewResult \in GrantAnswer /\ createdOrder \in GrantAnswer /\ grantResult \in GrantAnswer
    /\ sent \in [{"preview", "create", "grant"} -> GrantAnswer]
    /\ upload \in [Uploads -> [generation : Generations \cup {0},
                               step : {"unused", "presign", "put", "enqueue", "ended"}]]
    /\ jobs \in [Uploads -> {"none", "running", "succeeded", "failed"}]
    /\ csvJobId \in Uploads \cup {0}
    /\ given \in Nat /\ numberOf \in [Participants -> 0..given] /\ rosterSince \in 0..given

\* What is under way or on the screen was asked for in the generation that is open;
\* an upload may be older, and then it is never the dialog's.
FlowsMatch ==
    /\ Current(previewResult) /\ Current(createdOrder) /\ Current(grantResult)
    /\ \A m \in {"preview", "create", "grant"} : Current(sent[m])
    /\ \A u \in Uploads : upload[u].step # "unused" =>
          /\ upload[u].generation \in Generations /\ upload[u].generation <= flowGeneration
          /\ upload[u].generation = flowGeneration => modalOpen
    /\ csvJobId # 0 => /\ upload[csvJobId].step # "unused"
                       /\ upload[csvJobId].generation = flowGeneration

\* Who was let in has a number, and the roster was invalidated since it was given.
Announced(s) == numberOf[s] # 0 /\ numberOf[s] <= rosterSince

LetInStay ==
    /\ \A s \in grantResult.students : Announced(s)
    /\ \A u \in Uploads : jobs[u] = "succeeded" => \A s \in CsvParticipants : numberOf[s] # 0
    /\ jobSeen = "succeeded" => \A s \in CsvParticipants : Announced(s)

FlowInv == FlowTypes /\ FlowsMatch /\ LetInStay

\* Numbers are given once, in order.
NumbersGrow ==
    /\ given' \in Nat /\ given <= given' /\ numberOf' \in [Participants -> 0..given']
    /\ \A s \in Participants : numberOf[s] # 0 => numberOf'[s] = numberOf[s]

LEMMA GenerationsAreNat ==
    /\ GenerationBound \in Nat /\ 0 \notin Uploads /\ 1 \in Generations
    /\ \A g \in Generations : g \in Nat
<1>1. GenerationBound \in Nat /\ 0 \notin Uploads
  BY RegistrationConstants
<1>2. QED
  BY <1>1 DEF Generations

LEMMA NothingCurrent == Nothing \in GrantAnswer /\ Nothing.students = {} /\ Current(Nothing)
BY DEF GrantAnswer, Nothing, Current

LEMMA AnswersNameStudents == \A a \in GrantAnswer : a.students \subseteq Participants
BY DEF GrantAnswer, Outcomes, Nothing

\* Letting students in gives a number to each of them, and takes none away.
LEMMA LetInNumbers ==
    ASSUME FlowTypes, NEW students \in SUBSET Participants, LetIn(students)
    PROVE  NumbersGrow /\ \A s \in students : numberOf'[s] # 0
<1> DEFINE new == {s \in students : numberOf[s] = 0}
<1>1. Cardinality(new) \in Nat
  <2>1. IsFiniteSet(Participants) /\ new \subseteq Participants
    BY RegistrationConstants
  <2>2. IsFiniteSet(new)
    BY <2>1, FS_Subset
  <2>3. QED
    BY <2>2, FS_CardinalityType
<1>2. PICK n \in Injection(new, (given + 1)..given') :
          numberOf' = [s \in Participants |-> IF s \in new THEN n[s] ELSE numberOf[s]]
  BY DEF LetIn
<1>3. given \in Nat /\ given' = given + Cardinality(new) /\ numberOf \in [Participants -> 0..given]
  BY DEF LetIn, FlowTypes
<1>4. given' \in Nat /\ given <= given'
  BY <1>1, <1>3
<1>5. \A s \in new : n[s] \in (given + 1)..given'
  BY DEF Injection
<1>6. \A s \in new : n[s] \in 0..given' /\ n[s] # 0
  BY <1>3, <1>4, <1>5
<1>7. \A s \in Participants : numberOf[s] \in 0..given'
  BY <1>3, <1>4
<1>8. \A s \in Participants : numberOf'[s] \in 0..given' /\ (s \in students \/ numberOf[s] # 0 => numberOf'[s] # 0)
  BY <1>2, <1>6, <1>7
<1>9. \A s \in Participants : numberOf[s] # 0 => numberOf'[s] = numberOf[s]
  BY <1>2
<1>10. numberOf' \in [Participants -> 0..given']
  BY <1>2, <1>8
<1>11. QED
  BY <1>4, <1>8, <1>9, <1>10 DEF NumbersGrow

LEMMA NumbersStand == ASSUME FlowTypes, UNCHANGED <<numberOf, given>> PROVE NumbersGrow
BY DEF FlowTypes, NumbersGrow

\* Who is announced stays so, however often the roster is invalidated.
LEMMA AnnouncedStay ==
    ASSUME FlowTypes, NumbersGrow, rosterSince' = rosterSince \/ rosterSince' = given',
           NEW s \in Participants, numberOf[s] # 0
    PROVE  /\ numberOf'[s] # 0 /\ rosterSince' \in 0..given'
           /\ Announced(s) \/ rosterSince' = given' => Announced(s)'
BY DEF FlowTypes, NumbersGrow, Announced

LEMMA SinceStays ==
    ASSUME FlowTypes, NumbersGrow, rosterSince' = rosterSince \/ rosterSince' = given'
    PROVE  rosterSince' \in 0..given'
BY DEF FlowTypes, NumbersGrow

LEMMA FlowInitInv == ASSUME RegistrationInit PROVE FlowInv
<1>1. FlowTypes
  <2>1. given = 0 /\ rosterSince = 0 /\ numberOf = [s \in Participants |-> 0]
    BY DEF RegistrationInit
  <2>2. given \in Nat /\ numberOf \in [Participants -> 0..given] /\ rosterSince \in 0..given
    BY <2>1
  <2>3. QED
    BY <2>2, GenerationsAreNat, NothingCurrent DEF RegistrationInit, FlowTypes, NotSent
<1>2. FlowsMatch
  BY NothingCurrent DEF RegistrationInit, FlowsMatch, NotSent
<1>3. LetInStay
  BY NothingCurrent DEF RegistrationInit, LetInStay
<1>4. QED
  BY <1>1, <1>2, <1>3 DEF FlowInv

\* Whoever else gets a number, those let in stay so.
LEMMA LetInStays ==
    ASSUME FlowInv, NumbersGrow, rosterSince' = rosterSince \/ rosterSince' = given',
           \/ grantResult' \in {grantResult, Nothing}
           \/ /\ grantResult' \in GrantAnswer /\ rosterSince' = given'
              /\ \A s \in grantResult'.students : numberOf'[s] # 0,
           jobs' = jobs \/ \E u \in Uploads, status \in {"running", "succeeded", "failed"} :
                              /\ jobs' = [jobs EXCEPT ![u] = status]
                              /\ status = "succeeded" => \A s \in CsvParticipants : numberOf'[s] # 0,
           \/ jobSeen' \in {jobSeen, "none"}
           \/ \E u \in Uploads : jobSeen' = jobs[u] /\ (jobSeen' = "succeeded" => rosterSince' = given')
    PROVE  LetInStay'
<1>1. \A s \in grantResult'.students : Announced(s)'
  <2>1. CASE grantResult' \in {grantResult, Nothing}
    <3>1. grantResult.students \subseteq Participants
      BY AnswersNameStudents DEF FlowInv, FlowTypes
    <3>2. ASSUME NEW s \in grantResult.students PROVE Announced(s)'
      BY <3>1, <3>2, AnnouncedStay DEF FlowInv, LetInStay, Announced
    <3>3. QED
      BY <2>1, <3>2, NothingCurrent
  <2>2. CASE /\ grantResult' \in GrantAnswer /\ rosterSince' = given'
             /\ \A s \in grantResult'.students : numberOf'[s] # 0
    <3>1. grantResult'.students \subseteq Participants
      BY <2>2, AnswersNameStudents
    <3>2. QED
      BY <2>2, <3>1 DEF NumbersGrow, Announced
  <2>3. QED
    BY <2>1, <2>2
<1>2. CsvParticipants \subseteq Participants
  BY RegistrationConstants
<1>3. \A s \in CsvParticipants : numberOf[s] # 0 => numberOf'[s] # 0
  BY <1>2 DEF NumbersGrow
<1>4. ASSUME NEW u \in Uploads, jobs'[u] = "succeeded", NEW s \in CsvParticipants PROVE numberOf'[s] # 0
  BY <1>3, <1>4 DEF FlowInv, FlowTypes, LetInStay
<1>5. ASSUME jobSeen' = "succeeded", NEW s \in CsvParticipants PROVE Announced(s)'
  <2>1. s \in Participants
    BY <1>2
  <2>2. CASE jobSeen' = jobSeen
    BY <1>5, <2>1, <2>2, AnnouncedStay DEF FlowInv, LetInStay, Announced
  <2>3. CASE \E u \in Uploads : jobSeen' = jobs[u] /\ (jobSeen' = "succeeded" => rosterSince' = given')
    <3>1. numberOf[s] # 0 /\ rosterSince' = given'
      BY <1>5, <2>3 DEF FlowInv, LetInStay
    <3>2. QED
      BY <2>1, <3>1, AnnouncedStay DEF FlowInv
  <2>4. QED
    BY <1>5, <2>2, <2>3
<1>6. QED
  BY <1>1, <1>4, <1>5 DEF LetInStay

\* A step that leaves the generation, the uploads and the results alone.
LEMMA DialogKeeps ==
    ASSUME FlowInv, NumbersGrow, flowGeneration' = flowGeneration, modalOpen' \in BOOLEAN,
           modalOpen => modalOpen', picked' \subseteq Participants,
           UNCHANGED <<csvJobId, previewResult, createdOrder, grantResult, sent, upload, jobs, jobSeen,
                       rosterSince>>
    PROVE  FlowInv'
<1>1. FlowTypes'
  BY SinceStays DEF FlowInv, FlowTypes, NumbersGrow
<1>2. FlowsMatch'
  BY DEF FlowInv, FlowsMatch, Current
<1>3. LetInStay'
  BY LetInStays DEF FlowInv
<1>4. QED
  BY <1>1, <1>2, <1>3 DEF FlowInv

\* resetFlowState, in this generation or with the next.
LEMMA ResetKeeps ==
    ASSUME FlowInv, ResetFlow, modalOpen' \in BOOLEAN,
           flowGeneration' \in Generations,
           \/ flowGeneration' = flowGeneration /\ modalOpen' = modalOpen
           \/ flowGeneration' = flowGeneration + 1
    PROVE  FlowInv'
<1>1. /\ previewResult' = Nothing /\ createdOrder' = Nothing /\ grantResult' = Nothing
      /\ sent' = NotSent /\ csvJobId' = 0 /\ jobSeen' = "none" /\ picked' = {}
      /\ UNCHANGED <<upload, jobs, rosterSince>>
  BY DEF ResetFlow, rosterVars
<1>2. NumbersGrow
  <2>1. PICK carried \in {{}, sent["grant"].students} : LetIn(carried)
    BY DEF ResetFlow
  <2>2. carried \in SUBSET Participants
    BY <2>1, AnswersNameStudents DEF FlowInv, FlowTypes
  <2>3. QED
    BY <2>1, <2>2, LetInNumbers DEF FlowInv
<1>3. FlowTypes'
  BY <1>1, <1>2, NothingCurrent, SinceStays DEF FlowInv, FlowTypes, NotSent, NumbersGrow
<1>4. Nothing \in GrantAnswer /\ Current(Nothing)'
  BY NothingCurrent DEF Current
<1>5. ASSUME NEW u \in Uploads, upload[u].step # "unused"
      PROVE  /\ upload[u].generation \in Generations /\ upload[u].generation <= flowGeneration'
             /\ upload[u].generation = flowGeneration' => modalOpen'
  <2>1. /\ upload[u].generation \in Nat /\ flowGeneration \in Nat
        /\ upload[u].generation \in Generations /\ upload[u].generation <= flowGeneration
        /\ upload[u].generation = flowGeneration => modalOpen
    BY <1>5, GenerationsAreNat DEF FlowInv, FlowTypes, FlowsMatch
  <2>2. QED
    BY <2>1
<1>6. FlowsMatch'
  BY <1>1, <1>4, <1>5 DEF FlowsMatch, NotSent
<1>7. LetInStay'
  BY <1>1, <1>2, LetInStays
<1>8. QED
  BY <1>3, <1>6, <1>7 DEF FlowInv

\* A step of one upload, which is not the dialog's, or a call of it.
LEMMA UploadKeeps ==
    ASSUME FlowInv, NEW u \in Uploads, NEW g \in Generations,
           NEW step \in {"presign", "put", "enqueue", "ended"},
           upload' = [upload EXCEPT ![u] = [generation |-> g, step |-> step]],
           \/ upload[u].step # "unused" /\ g = upload[u].generation
           \/ upload[u].step = "unused" /\ g = flowGeneration /\ modalOpen,
           jobs' = jobs \/ jobs' = [jobs EXCEPT ![u] = "running"],
           \/ csvJobId' = csvJobId /\ jobSeen' = jobSeen
           \/ g = flowGeneration /\ csvJobId' = u /\ jobSeen' = "none",
           UNCHANGED <<flowGeneration, modalOpen, picked, previewResult, createdOrder, grantResult,
                       sent, numberOf, given, rosterSince>>
    PROVE  FlowInv'
<1>1. FlowTypes'
  BY DEF FlowInv, FlowTypes
<1>2. \A v \in Uploads : upload'[v] = IF v = u THEN [generation |-> g, step |-> step] ELSE upload[v]
  BY DEF FlowInv, FlowTypes
<1>3. \A v \in Uploads : upload'[v].step # "unused" =>
          /\ upload'[v].generation \in Generations /\ upload'[v].generation <= flowGeneration
          /\ upload'[v].generation = flowGeneration => modalOpen
  <2>1. g <= flowGeneration /\ (g = flowGeneration => modalOpen)
    BY GenerationsAreNat DEF FlowInv, FlowTypes, FlowsMatch
  <2>2. QED
    BY <1>2, <2>1 DEF FlowInv, FlowsMatch
<1>4. csvJobId' # 0 => upload'[csvJobId'].step # "unused" /\ upload'[csvJobId'].generation = flowGeneration
  BY <1>2 DEF FlowInv, FlowTypes, FlowsMatch
<1>5. FlowsMatch'
  BY <1>3, <1>4 DEF FlowInv, FlowsMatch, Current
<1>6. LetInStay'
  BY NumbersStand, LetInStays DEF FlowInv
<1>7. QED
  BY <1>1, <1>5, <1>6 DEF FlowInv

LEMMA FlowStep == ASSUME FlowInv, [RegistrationNext]_registrationVars PROVE FlowInv' /\ NumbersGrow
<1> USE DEF dialogUnchanged, csvUnchanged, rosterUnchanged, pageUnchanged, rosterVars
<1>1. CASE OpenModal
  <2>1. UNCHANGED <<numberOf, given>>
    BY <1>1 DEF OpenModal
  <2>2. QED
    BY <1>1, <2>1, DialogKeeps, NumbersStand DEF OpenModal, FlowInv, FlowTypes
<1>2. ASSUME ResetFlow PROVE NumbersGrow
  <2>1. PICK carried \in {{}, sent["grant"].students} : LetIn(carried)
    BY <1>2 DEF ResetFlow
  <2>2. carried \in SUBSET Participants
    BY <2>1, AnswersNameStudents DEF FlowInv, FlowTypes
  <2>3. QED
    BY <2>1, <2>2, LetInNumbers DEF FlowInv
<1>3. CASE CloseModal
  <2>1. flowGeneration + 1 \in Generations
    <3>1. flowGeneration \in 1..(GenerationBound + 1) /\ flowGeneration <= GenerationBound
      BY <1>3 DEF CloseModal, FlowInv, FlowTypes, Generations
    <3>2. QED
      BY <3>1, GenerationsAreNat DEF Generations
  <2>2. QED
    BY <1>2, <1>3, <2>1, ResetKeeps DEF CloseModal
<1>4. CASE ResetDialog
  BY <1>2, <1>4, ResetKeeps DEF ResetDialog, FlowInv, FlowTypes
<1>5. ASSUME NEW students \in SUBSET Participants, PickParticipants(students)
      PROVE  FlowInv' /\ NumbersGrow
  <2>1. UNCHANGED <<numberOf, given>>
    BY <1>5 DEF PickParticipants
  <2>2. QED
    BY <1>5, <2>1, DialogKeeps, NumbersStand DEF PickParticipants, FlowInv, FlowTypes
<1>6. CASE ChooseFile \/ \E mode \in {"manual", "csv"} : ChooseMode(mode)
  <2>1. UNCHANGED <<numberOf, given>>
    BY <1>6 DEF ChooseFile, ChooseMode
  <2>2. QED
    BY <1>6, <2>1, DialogKeeps, NumbersStand DEF ChooseFile, ChooseMode, FlowInv, FlowTypes
<1>7. ASSUME NEW m \in {"preview", "create", "grant"}, Press(m) \/ Fails(m)
      PROVE  FlowInv' /\ NumbersGrow
  <2>1. UNCHANGED <<flowGeneration, modalOpen, picked, previewResult, createdOrder, grantResult,
                    csvJobId, upload, jobs, jobSeen, rosterSince>>
    BY <1>7 DEF Press, Fails
  <2>2. PICK a \in GrantAnswer : sent' = [sent EXCEPT ![m] = a] /\ Current(a)
    <3>1. [generation |-> flowGeneration, students |-> picked] \in GrantAnswer
      BY DEF FlowInv, FlowTypes, GrantAnswer, Outcomes
    <3>2. CASE Press(m)
      BY <3>1, <3>2 DEF Press, FormShown, Current
    <3>3. CASE Fails(m)
      BY <3>3, NothingCurrent DEF Fails
    <3>4. QED
      BY <1>7, <3>2, <3>3
  <2>3. NumbersGrow
    <3>1. CASE UNCHANGED <<numberOf, given>>
      BY <3>1, NumbersStand DEF FlowInv
    <3>2. ASSUME NEW carried \in {{}, sent[m].students}, LetIn(carried) PROVE NumbersGrow
      <4>1. carried \in SUBSET Participants
        BY <3>2, AnswersNameStudents DEF FlowInv, FlowTypes
      <4>2. QED
        BY <3>2, <4>1, LetInNumbers DEF FlowInv
    <3>3. QED
      BY <1>7, <3>1, <3>2 DEF Press, Fails
  <2>4. FlowTypes'
    BY <2>1, <2>2, <2>3, SinceStays DEF FlowInv, FlowTypes, NumbersGrow
  <2>5. FlowsMatch'
    BY <2>1, <2>2 DEF FlowInv, FlowTypes, FlowsMatch, Current
  <2>6. LetInStay'
    BY <2>1, <2>3, LetInStays DEF FlowInv
  <2>7. QED
    BY <2>3, <2>4, <2>5, <2>6 DEF FlowInv
<1>8. ASSUME NEW m \in {"preview", "create", "grant"}, Succeeds(m) PROVE FlowInv' /\ NumbersGrow
  <2>1. /\ sent[m] # Nothing /\ sent' = [sent EXCEPT ![m] = Nothing]
        /\ LetIn(IF m = "grant" THEN sent[m].students ELSE {})
        /\ UNCHANGED <<flowGeneration, modalOpen, picked, csvJobId, upload, jobs, jobSeen>>
    BY <1>8 DEF Succeeds
  <2>2. sent[m] \in GrantAnswer /\ sent[m].generation = flowGeneration /\ modalOpen
    BY <2>1 DEF FlowInv, FlowTypes, FlowsMatch, Current
  <2>3. /\ previewResult' \in {previewResult, sent[m]} /\ createdOrder' \in {createdOrder, sent[m]}
        /\ grantResult' = (IF m = "grant" THEN sent[m] ELSE grantResult)
        /\ rosterSince' = IF m # "preview" THEN given' ELSE rosterSince
    BY <1>8, <2>2 DEF Succeeds, InvalidateRoster
  <2>4. NumbersGrow /\ (m = "grant" => \A s \in sent[m].students : numberOf'[s] # 0)
    <3>1. sent[m].students \in SUBSET Participants
      BY <2>2, AnswersNameStudents
    <3>2. QED
      BY <2>1, <3>1, LetInNumbers DEF FlowInv
  <2>5. FlowTypes'
    BY <2>1, <2>2, <2>3, <2>4, NothingCurrent, SinceStays DEF FlowInv, FlowTypes, NumbersGrow
  <2>6. FlowsMatch'
    <3>1. \A k \in {"preview", "create", "grant"} : Current(sent[k])'
      BY <2>1, NothingCurrent DEF FlowInv, FlowTypes, FlowsMatch, Current
    <3>2. Current(previewResult)' /\ Current(createdOrder)' /\ Current(grantResult)'
      BY <2>1, <2>2, <2>3 DEF FlowInv, FlowsMatch, Current
    <3>3. QED
      BY <2>1, <3>1, <3>2 DEF FlowInv, FlowsMatch
  <2>7. LetInStay'
    BY <2>1, <2>2, <2>3, <2>4, LetInStays
  <2>8. QED
    BY <2>4, <2>5, <2>6, <2>7 DEF FlowInv
<1>9. ASSUME NEW u \in Uploads, SubmitCsv(u) PROVE FlowInv' /\ NumbersGrow
  <2>1. UNCHANGED <<numberOf, given>>
    BY <1>9 DEF SubmitCsv
  <2>2. QED
    BY <1>9, <2>1, UploadKeeps, NumbersStand DEF SubmitCsv, FormShown, FlowInv, FlowTypes
<1>10. ASSUME NEW u \in Uploads, CsvGoesOn(u) \/ CsvFails(u) \/ CsvEnqueued(u)
       PROVE  FlowInv' /\ NumbersGrow
  <2> DEFINE g == upload[u].generation
  <2>1. /\ upload[u].step # "unused"
        /\ UNCHANGED <<flowGeneration, modalOpen, picked, previewResult, createdOrder, grantResult,
                       sent, numberOf, given, rosterSince>>
        /\ jobs' = jobs \/ jobs' = [jobs EXCEPT ![u] = "running"]
        /\ \/ csvJobId' = csvJobId /\ jobSeen' = jobSeen
           \/ g = flowGeneration /\ csvJobId' = u /\ jobSeen' = "none"
    BY <1>10 DEF CsvGoesOn, CsvFails, CsvEnqueued
  <2>2. PICK step \in {"put", "enqueue", "ended"} : upload' = [upload EXCEPT ![u].step = step]
    <3>1. CASE CsvGoesOn(u)
      <4> DEFINE next == IF upload[u].step = "presign" THEN "put" ELSE "enqueue"
                 step == IF upload[u].generation = flowGeneration THEN next ELSE "ended"
      <4>1. upload' = [upload EXCEPT ![u].step = step]
        BY <3>1 DEF CsvGoesOn
      <4>2. step \in {"put", "enqueue", "ended"}
        OBVIOUS
      <4>3. QED
        BY <4>1, <4>2
    <3>2. CASE CsvFails(u) \/ CsvEnqueued(u)
      <4>1. upload' = [upload EXCEPT ![u].step = "ended"]
        BY <3>2 DEF CsvFails, CsvEnqueued
      <4>2. "ended" \in {"put", "enqueue", "ended"}
        OBVIOUS
      <4>3. QED
        BY <4>1, <4>2, Zenon
    <3>3. QED
      BY <1>10, <3>1, <3>2
  <2>3. upload' = [upload EXCEPT ![u] = [generation |-> g, step |-> step]]
    <3>1. upload[u] \in [generation : Generations \cup {0},
                        step : {"unused", "presign", "put", "enqueue", "ended"}]
      BY DEF FlowInv, FlowTypes
    <3>2. [upload[u] EXCEPT !.step = step] = [generation |-> g, step |-> step]
      BY <3>1
    <3>3. upload' = [upload EXCEPT ![u] = [upload[u] EXCEPT !.step = step]]
      BY <2>2, Zenon
    <3>4. QED
      BY <3>2, <3>3, Zenon
  <2>4. g \in Generations
    BY <2>1 DEF FlowInv, FlowsMatch
  <2>5. QED
    BY <2>1, <2>2, <2>3, <2>4, UploadKeeps, NumbersStand DEF FlowInv
<1>11. ASSUME NEW u \in Uploads, JobEnds(u) PROVE FlowInv' /\ NumbersGrow
  <2>1. PICK status \in {"succeeded", "failed"}, students \in {{}, CsvParticipants} :
          /\ status = "succeeded" => students = CsvParticipants
          /\ jobs' = [jobs EXCEPT ![u] = status] /\ LetIn(students)
    BY <1>11 DEF JobEnds
  <2>2. UNCHANGED <<flowGeneration, modalOpen, picked, previewResult, createdOrder, grantResult,
                   csvJobId, upload, sent, jobSeen, rosterSince>>
    BY <1>11 DEF JobEnds
  <2>3. NumbersGrow /\ (status = "succeeded" => \A s \in CsvParticipants : numberOf'[s] # 0)
    <3>1. CsvParticipants \in SUBSET Participants
      BY RegistrationConstants
    <3>2. QED
      BY <2>1, <3>1, LetInNumbers DEF FlowInv
  <2>4. FlowTypes' /\ FlowsMatch'
    BY <2>1, <2>2, <2>3, SinceStays DEF FlowInv, FlowTypes, FlowsMatch, Current, NumbersGrow
  <2>5. LetInStay'
    BY <2>1, <2>2, <2>3, LetInStays
  <2>6. QED
    BY <2>3, <2>4, <2>5 DEF FlowInv
<1>12. CASE PollJob
  <2>1. /\ csvJobId \in Uploads /\ jobSeen' = jobs[csvJobId]
        /\ rosterSince' = IF jobSeen' = "succeeded" THEN given' ELSE rosterSince
        /\ UNCHANGED <<flowGeneration, modalOpen, picked, previewResult, createdOrder, grantResult,
                       csvJobId, upload, jobs, sent, numberOf, given>>
    BY <1>12 DEF PollJob, InvalidateRoster, FlowInv, FlowTypes
  <2>2. NumbersGrow
    BY <2>1, NumbersStand DEF FlowInv
  <2>3. FlowTypes' /\ FlowsMatch'
    BY <2>1, <2>2, SinceStays DEF FlowInv, FlowTypes, FlowsMatch, Current
  <2>4. LetInStay'
    BY <2>1, <2>2, LetInStays
  <2>5. QED
    BY <2>2, <2>3, <2>4 DEF FlowInv
<1>13. CASE LoadMoreRoster \/ ToggleSort \/ RosterArrives \/ RosterFails \/ RosterAgain
  <2>1. UNCHANGED <<flowGeneration, modalOpen, picked, previewResult, createdOrder, grantResult,
                    csvJobId, upload, jobs, sent, jobSeen, numberOf, given, rosterSince>>
    BY <1>13 DEF LoadMoreRoster, ToggleSort, AskForPage, RosterArrives, RosterFails, RosterAgain
  <2>2. QED
    BY <2>1, DialogKeeps, NumbersStand DEF FlowInv, FlowTypes
<1>14. CASE OtherRegisters
  <2>1. /\ given' = given + 1
        /\ UNCHANGED <<flowGeneration, modalOpen, picked, previewResult, createdOrder, grantResult,
                       csvJobId, upload, jobs, sent, jobSeen, numberOf, rosterSince>>
    BY <1>14 DEF OtherRegisters
  <2>2. NumbersGrow
    BY <2>1 DEF FlowInv, FlowTypes, NumbersGrow
  <2>3. QED
    BY <2>1, <2>2, DialogKeeps DEF FlowInv, FlowTypes
<1>15. CASE UNCHANGED registrationVars
  <2>1. UNCHANGED <<numberOf, given>>
    BY <1>15 DEF registrationVars
  <2>2. QED
    BY <1>15, <2>1, DialogKeeps, NumbersStand DEF registrationVars, FlowInv, FlowTypes
<1>16. QED
  BY <1>1, <1>3, <1>4, <1>5, <1>6, <1>7, <1>8, <1>9, <1>10, <1>11, <1>12, <1>13, <1>14, <1>15
  DEF RegistrationNext

\* The rows listed reach down to the page shown without a gap, and what that page
\* has not is still below it.
RosterTypes ==
    /\ rosterSort \in {"asc", "desc"} /\ rosterShown \in BOOLEAN /\ rosterFetching \in BOOLEAN
    /\ rosterCursor \in 0..given /\ rosterNext \in 0..given
    /\ rosterAt \in 0..given /\ rosterAskedAt \in 0..given
    /\ rosterRows \subseteq 1..given

RowsReach ==
    /\ rosterSort = "asc" => 1..rosterCursor \subseteq rosterRows
    /\ rosterSort = "asc" /\ rosterNext # 0 => 1..rosterNext \subseteq rosterRows

RestBelow ==
    rosterShown /\ (rosterSort = "asc" \/ rosterCursor = 0) =>
       \A i \in 1..rosterAt :
          \/ i \in rosterRows
          \/ rosterNext # 0 /\ IF rosterSort = "asc" THEN i > rosterNext ELSE i < rosterNext

RosterInv == RosterTypes /\ RowsReach /\ RestBelow

LEMMA RosterStands ==
    ASSUME FlowTypes, RosterInv, NumbersGrow,
           UNCHANGED <<rosterSort, rosterCursor, rosterNext, rosterRows, rosterShown, rosterAt>>,
           rosterFetching' \in BOOLEAN, rosterAskedAt' \in 0..given'
    PROVE  RosterInv'
<1>1. given \in Nat /\ given' \in Nat /\ given <= given'
  BY DEF FlowTypes, NumbersGrow
<1>2. RosterTypes'
  BY <1>1 DEF RosterInv, RosterTypes
<1>3. RowsReach' /\ RestBelow'
  BY DEF RosterInv, RowsReach, RestBelow
<1>4. QED
  BY <1>2, <1>3 DEF RosterInv

\* A page that is shown, beside the rows above it.
LEMMA PageShown ==
    ASSUME FlowTypes, RosterInv, given' = given, NEW n \in 0..given, ShowPage(n),
           rosterSort' \in {"asc", "desc"}, rosterCursor' \in 0..given,
           rosterSort' = "asc" => 1..rosterCursor' \subseteq rosterRows,
           rosterFetching' \in BOOLEAN, rosterAskedAt' \in 0..given
    PROVE  RosterInv'
<1> DEFINE c == rosterCursor'
           page == RosterPage(rosterSort', c, n)
           top == IF c = 0 THEN n ELSE c - 1
<1>1. /\ given \in Nat /\ n \in Nat /\ c \in Nat /\ n <= given /\ c <= given
      /\ RosterRows \in Nat /\ RosterRows > 0 /\ top \in 0..given
  <2>1. given \in Nat /\ RosterRows \in Nat /\ RosterRows > 0
    BY RegistrationConstants DEF FlowTypes
  <2>2. n \in Nat /\ c \in Nat /\ n <= given /\ c <= given
    BY <2>1
  <2> HIDE DEF c
  <2>3. top \in 0..given
    <3>1. CASE c = 0
      BY <2>1, <2>2, <3>1
    <3>2. CASE c # 0
      <4>1. c - 1 \in 0..given
        BY <2>1, <2>2, <3>2
      <4>2. QED
        BY <3>2, <4>1
    <3>3. QED
      BY <3>1, <3>2
  <2>4. QED
    BY <2>1, <2>2, <2>3
<1>2. /\ rosterRows' = IF c = 0 THEN page.rows ELSE rosterRows \cup page.rows
      /\ rosterNext' = page.next /\ rosterShown' = TRUE /\ rosterAt' = n
  BY DEF ShowPage
<1>3. CASE rosterSort' = "asc"
  <2>1. /\ page.rows = {i \in 1..n : c < i /\ i <= c + RosterRows}
        /\ page.next = IF c + RosterRows < n THEN c + RosterRows ELSE 0
    BY <1>3 DEF RosterPage
  <2> HIDE DEF page, c
  <2>2. page.rows \subseteq 1..given /\ page.next \in 0..given
    BY <1>1, <2>1
  <2>3. RosterTypes'
    BY <1>1, <1>2, <1>3, <2>2 DEF RosterInv, RosterTypes
  <2>4. 1..c \subseteq rosterRows'
    BY <1>1, <1>2, <1>3 DEF c
  <2>5. \A i \in 1..n : i <= c + RosterRows => i \in rosterRows'
    BY <1>1, <1>2, <2>1, <2>4
  <2>6. rosterNext' # 0 => rosterNext' = c + RosterRows /\ c + RosterRows < n
    BY <1>2, <2>1
  <2>7. RowsReach'
    <3>1. ASSUME rosterNext' # 0 PROVE 1..rosterNext' \subseteq rosterRows'
      <4>1. rosterNext' = c + RosterRows /\ c + RosterRows < n
        BY <2>6, <3>1
      <4>2. \A i \in 1..(c + RosterRows) : i \in 1..n /\ i <= c + RosterRows
        BY <1>1, <4>1
      <4>3. QED
        BY <2>5, <4>1, <4>2
    <3>2. QED
      BY <2>4, <3>1 DEF RowsReach, c
  <2>8. RestBelow'
    BY <1>1, <1>2, <1>3, <2>1, <2>5 DEF RestBelow
  <2>9. QED
    BY <2>3, <2>7, <2>8 DEF RosterInv
<1>4. CASE rosterSort' = "desc"
  <2>1. /\ page.rows = {i \in 1..top : top < i + RosterRows}
        /\ page.next = IF RosterRows < top THEN (top - RosterRows) + 1 ELSE 0
    BY <1>4 DEF RosterPage
  <2>2. page.rows \subseteq 1..given /\ page.next \in 0..given
    BY <1>1, <2>1
  <2>3. RosterTypes'
    BY <1>1, <1>2, <1>4, <2>2 DEF RosterInv, RosterTypes
  <2>4. RowsReach'
    BY <1>4 DEF RowsReach
  <2>5. c = 0 => \A i \in 1..n : i \in page.rows \/ (page.next # 0 /\ i < page.next)
    BY <1>1, <2>1
  <2>6. RestBelow'
    BY <1>2, <1>4, <2>5 DEF RestBelow
  <2>7. QED
    BY <2>3, <2>4, <2>6 DEF RosterInv
<1>5. QED
  BY <1>3, <1>4

LEMMA RosterStep == ASSUME FlowInv, RosterInv, [RegistrationNext]_registrationVars PROVE RosterInv'
<1> USE DEF dialogUnchanged, csvUnchanged, rosterUnchanged, pageUnchanged
<1>1. FlowTypes /\ NumbersGrow
  BY FlowStep DEF FlowInv
<1>2. given \in Nat /\ given' \in Nat /\ given <= given'
  BY <1>1 DEF FlowTypes, NumbersGrow
<1>3. CASE UNCHANGED rosterVars
  BY <1>1, <1>2, <1>3, RosterStands DEF rosterVars, RosterInv, RosterTypes
<1>4. CASE InvalidateRoster
  <2>1. rosterAskedAt' \in 0..given' /\ rosterFetching' \in BOOLEAN
    BY <1>2, <1>4 DEF InvalidateRoster, RosterInv, RosterTypes
  <2>2. QED
    BY <1>1, <1>4, <2>1, RosterStands DEF InvalidateRoster
<1>5. ASSUME AskForPage, rosterSort' \in {"asc", "desc"}, rosterCursor' \in 0..given,
             rosterSort' = "asc" => 1..rosterCursor' \subseteq rosterRows,
             rosterCursor' # 0 => rosterSort' = rosterSort /\ rosterCursor' = rosterNext
      PROVE  RosterInv'
  <2>1. UNCHANGED given /\ rosterFetching' \in BOOLEAN /\ rosterAskedAt' \in 0..given
    <3>1. UNCHANGED given /\ rosterFetching' \in BOOLEAN
      BY <1>5 DEF AskForPage
    <3>2. rosterAskedAt' \in {given, 0}
      BY <1>5 DEF AskForPage
    <3>3. QED
      BY <1>2, <3>1, <3>2
  <2>2. CASE \E n \in rosterCursor'..given : ShowPage(n)
    <3>1. PICK n \in 0..given : ShowPage(n)
      BY <1>2, <1>5, <2>2
    <3>2. QED
      BY <1>1, <1>5, <2>1, <3>1, PageShown
  <2>3. CASE /\ rosterShown' = FALSE /\ rosterAt' = 0 /\ rosterFetching' = TRUE
             /\ IF rosterCursor' = 0 THEN rosterRows' = {} /\ rosterNext' = 0
                ELSE UNCHANGED <<rosterRows, rosterNext>>
    <3>1. rosterRows' \subseteq 1..given /\ rosterNext' \in 0..given
      <4>1. CASE rosterCursor' = 0
        <5>1. rosterRows' = {} /\ rosterNext' = 0
          BY <2>3, <4>1
        <5>2. QED
          BY <1>2, <5>1
      <4>2. CASE rosterCursor' # 0
        <5>1. rosterRows' = rosterRows /\ rosterNext' = rosterNext
          BY <2>3, <4>2
        <5>2. QED
          BY <5>1 DEF RosterInv, RosterTypes
      <4>3. QED
        BY <4>1, <4>2
    <3>2. rosterAt' \in 0..given /\ rosterShown' \in BOOLEAN
      <4>1. rosterAt' = 0
        BY <2>3
      <4>2. rosterShown' \in BOOLEAN
        BY <2>3
      <4>3. QED
        BY <1>2, <4>1, <4>2
    <3>3. RosterTypes'
      BY <1>5, <2>1, <3>1, <3>2 DEF RosterTypes
    <3>4. RowsReach'
      BY <1>2, <1>5, <2>3 DEF RosterInv, RowsReach
    <3>5. QED
      BY <2>3, <3>3, <3>4 DEF RosterInv, RestBelow
  <2>4. QED
    BY <1>5, <2>2, <2>3 DEF AskForPage
<1>6. CASE LoadMoreRoster
  <2>1. AskForPage /\ rosterSort' = rosterSort /\ rosterCursor' = rosterNext /\ rosterNext # 0
    BY <1>6 DEF LoadMoreRoster
  <2>2. rosterSort' \in {"asc", "desc"} /\ rosterCursor' \in 0..given
    BY <2>1 DEF RosterInv, RosterTypes
  <2>3. rosterSort' = "asc" => 1..rosterCursor' \subseteq rosterRows
    BY <2>1 DEF RosterInv, RowsReach
  <2>4. QED
    BY <1>5, <2>1, <2>2, <2>3
<1>7. CASE ToggleSort
  <2>1. AskForPage /\ rosterSort' \in {"asc", "desc"} /\ rosterCursor' = 0
    BY <1>7 DEF ToggleSort
  <2>2. rosterCursor' \in 0..given /\ 1..rosterCursor' \subseteq rosterRows
    BY <1>2, <2>1
  <2>3. QED
    BY <1>5, <2>1, <2>2
<1>8. CASE RosterArrives
  <2>1. /\ rosterFetching' = FALSE /\ rosterAskedAt' = 0
        /\ UNCHANGED <<rosterSort, rosterCursor, given>>
    BY <1>8 DEF RosterArrives
  <2>2. PICK n \in 0..given : ShowPage(n)
    BY <1>2, <1>8 DEF RosterArrives, RosterInv, RosterTypes
  <2>3. rosterAskedAt' \in 0..given
    BY <1>2, <2>1
  <2>4. QED
    BY <1>1, <2>1, <2>2, <2>3, PageShown DEF RosterInv, RosterTypes, RowsReach
<1>9. CASE RosterFails \/ RosterAgain
  <2>1. /\ rosterFetching' \in BOOLEAN /\ rosterAskedAt' \in {given', 0}
        /\ UNCHANGED <<rosterSort, rosterCursor, rosterNext, rosterRows, rosterShown, rosterAt>>
    BY <1>9 DEF RosterFails, RosterAgain
  <2>2. rosterAskedAt' \in 0..given'
    BY <1>2, <2>1
  <2>3. QED
    BY <1>1, <2>1, <2>2, RosterStands
<1>10. CASE OpenModal \/ CloseModal \/ ResetDialog \/ ChooseFile \/ OtherRegisters
  BY <1>3, <1>10 DEF OpenModal, CloseModal, ResetDialog, ResetFlow, ChooseFile, OtherRegisters
<1>11. CASE PollJob
  BY <1>3, <1>4, <1>11 DEF PollJob
<1>12. ASSUME NEW m \in {"preview", "create", "grant"}, Press(m) \/ Succeeds(m) \/ Fails(m)
       PROVE  RosterInv'
  BY <1>3, <1>4, <1>12 DEF Press, Succeeds, Fails
<1>13. ASSUME NEW u \in Uploads, \/ SubmitCsv(u) \/ CsvGoesOn(u) \/ CsvFails(u) \/ CsvEnqueued(u)
                                 \/ JobEnds(u)
       PROVE  RosterInv'
  BY <1>3, <1>13 DEF SubmitCsv, CsvGoesOn, CsvFails, CsvEnqueued, JobEnds
<1>14. CASE \/ \E students \in SUBSET Participants : PickParticipants(students)
            \/ \E mode \in {"manual", "csv"} : ChooseMode(mode)
  BY <1>3, <1>14 DEF PickParticipants, ChooseMode
<1>15. CASE UNCHANGED registrationVars
  BY <1>3, <1>15 DEF registrationVars
<1>16. QED
  BY <1>6, <1>7, <1>8, <1>9, <1>10, <1>11, <1>12, <1>13, <1>14, <1>15 DEF RegistrationNext

LEMMA RosterInitInv == ASSUME RegistrationInit PROVE RosterInv
<1>1. RosterTypes
  <2>1. /\ given = 0 /\ rosterCursor = 0 /\ rosterNext = 0 /\ rosterAt = 0 /\ rosterAskedAt = 0
        /\ rosterRows = {} /\ rosterSort = "asc"
    BY DEF RegistrationInit
  <2>2. rosterShown \in BOOLEAN /\ rosterFetching \in BOOLEAN
    BY DEF RegistrationInit
  <2>3. QED
    BY <2>1, <2>2 DEF RosterTypes
<1>2. RowsReach /\ RestBelow
  BY DEF RegistrationInit, RowsReach, RestBelow
<1>3. QED
  BY <1>1, <1>2 DEF RosterInv

LEMMA FlowInvOutcomes == ASSUME FlowInv, RosterInv PROVE OutcomeOfThisFlow
<1>1. csvJobId # 0 => upload[csvJobId].generation = flowGeneration /\ modalOpen
  BY DEF FlowInv, FlowTypes, FlowsMatch
<1>2. ASSUME rosterShown, rosterSince <= rosterAt, rosterSort = "asc" \/ rosterCursor = 0,
             NEW s \in Participants, Announced(s)
      PROVE  Listed(s)
  <2>1. numberOf[s] \in 1..rosterAt
    BY <1>2 DEF FlowInv, FlowTypes, RosterInv, RosterTypes, Announced
  <2>2. QED
    BY <1>2, <2>1 DEF RosterInv, RestBelow, Listed
<1>3. grantResult.students \subseteq Participants /\ CsvParticipants \subseteq Participants
  BY AnswersNameStudents, RegistrationConstants DEF FlowInv, FlowTypes
<1>4. rosterShown /\ rosterSince <= rosterAt /\ (rosterSort = "asc" \/ rosterCursor = 0) =>
          /\ \A s \in grantResult.students : Listed(s)
          /\ jobSeen = "succeeded" => \A s \in CsvParticipants : Listed(s)
  BY <1>2, <1>3 DEF FlowInv, LetInStay
<1>5. QED
  BY <1>1, <1>4 DEF FlowInv, FlowsMatch, Current, OutcomeOfThisFlow

\* Whatever was under way when the dialog was closed, what it shows was asked for
\* since it was opened; and however many pages of the roster are listed, the one
\* read again since lists who was let in, or has him below it.
THEOREM OutcomesAreOfThisFlow == RegistrationSpec => []OutcomeOfThisFlow
<1>1. RegistrationInit => FlowInv /\ RosterInv
  BY FlowInitInv, RosterInitInv
<1>2. FlowInv /\ RosterInv /\ [RegistrationNext]_registrationVars => FlowInv' /\ RosterInv'
  BY FlowStep, RosterStep
<1>3. FlowInv /\ RosterInv => OutcomeOfThisFlow
  BY FlowInvOutcomes
<1>4. QED
  BY <1>1, <1>2, <1>3, PTL DEF RegistrationSpec

\* What the flows above do not depend on: the administrator, the form's mode and
\* file, and the job last seen.
ModeTypes ==
    /\ adminRole \in {"super_admin", "admin_school", "admin_exam"}
    /\ grantMode \in {"manual", "csv"} /\ csvFile \in BOOLEAN
    /\ jobSeen \in {"none", "running", "succeeded", "failed"}

RegistrationInv == FlowInv /\ RosterInv /\ ModeTypes

LEMMA RegistrationInvTypes == ASSUME RegistrationInv PROVE RegistrationTypeOK
<1>1. {previewResult, createdOrder, grantResult} \subseteq GrantAnswer
  BY DEF RegistrationInv, FlowInv, FlowTypes
<1>2. \A m \in DOMAIN sent : sent[m] \in GrantAnswer
  BY DEF RegistrationInv, FlowInv, FlowTypes
<1>3. \A u \in Uploads : /\ upload[u].generation \in Generations \cup {0}
                         /\ upload[u].step \in {"unused", "presign", "put", "enqueue", "ended"}
  BY DEF RegistrationInv, FlowInv, FlowTypes
<1>4. /\ given \in Nat /\ rosterRows \subseteq 1..given
      /\ {rosterCursor, rosterNext, rosterAt, rosterAskedAt, rosterSince} \subseteq 0..given
      /\ {rosterShown, rosterFetching} \subseteq BOOLEAN
  BY DEF RegistrationInv, FlowInv, FlowTypes, RosterInv, RosterTypes
<1>5. QED
  BY <1>1, <1>2, <1>3, <1>4
  DEF RegistrationInv, FlowInv, FlowTypes, RosterInv, RosterTypes, ModeTypes, GrantAnswer, RegistrationTypeOK

LEMMA ModeStep == ASSUME FlowInv, ModeTypes, [RegistrationNext]_registrationVars PROVE ModeTypes'
<1> USE DEF ModeTypes, dialogUnchanged, csvUnchanged, rosterUnchanged, pageUnchanged
<1>1. CASE UNCHANGED registrationVars
  BY <1>1 DEF registrationVars
<1>2. CASE CloseModal \/ ResetDialog
  BY <1>2 DEF CloseModal, ResetDialog, ResetFlow
<1>3. CASE OpenModal
  BY <1>3 DEF OpenModal
<1>4. CASE ChooseFile
  BY <1>4 DEF ChooseFile
<1>5. CASE PollJob
  <2>1. csvJobId \in Uploads /\ jobs[csvJobId] \in {"none", "running", "succeeded", "failed"}
    BY <1>5 DEF PollJob, FlowInv, FlowTypes
  <2>2. QED
    BY <1>5, <2>1 DEF PollJob
<1>6. CASE LoadMoreRoster \/ ToggleSort \/ RosterArrives \/ RosterFails \/ RosterAgain \/ OtherRegisters
  BY <1>6 DEF LoadMoreRoster, ToggleSort, AskForPage, RosterArrives, RosterFails, RosterAgain, OtherRegisters
<1>7. ASSUME NEW students \in SUBSET Participants, PickParticipants(students) PROVE ModeTypes'
  BY <1>7 DEF PickParticipants
<1>8. ASSUME NEW mode \in {"manual", "csv"}, ChooseMode(mode) PROVE ModeTypes'
  BY <1>8 DEF ChooseMode
<1>9. ASSUME NEW m \in {"preview", "create", "grant"}, Press(m) \/ Succeeds(m) \/ Fails(m)
      PROVE  ModeTypes'
  BY <1>9 DEF Press, Succeeds, Fails
<1>10. ASSUME NEW u \in Uploads, SubmitCsv(u) \/ CsvGoesOn(u) \/ CsvFails(u) PROVE ModeTypes'
  BY <1>10 DEF SubmitCsv, CsvGoesOn, CsvFails
<1>11. ASSUME NEW u \in Uploads, CsvEnqueued(u) \/ JobEnds(u) PROVE ModeTypes'
  BY <1>11 DEF CsvEnqueued, JobEnds
<1>12. QED
  BY <1>1, <1>2, <1>3, <1>4, <1>5, <1>6, <1>7, <1>8, <1>9, <1>10, <1>11 DEF RegistrationNext

\* Whatever the students and uploads, every step of the registration dialog, of the
\* roster beside it, of the server's grants and of its import jobs keeps them well
\* typed.
THEOREM RegistrationTypesHold == RegistrationSpec => []RegistrationTypeOK
<1>1. RegistrationInit => RegistrationInv
  BY FlowInitInv, RosterInitInv DEF RegistrationInit, RegistrationInv, ModeTypes
<1>2. RegistrationInv /\ [RegistrationNext]_registrationVars => RegistrationInv'
  BY FlowStep, RosterStep, ModeStep DEF RegistrationInv
<1>3. RegistrationInv => RegistrationTypeOK
  BY RegistrationInvTypes
<1>4. QED
  BY <1>1, <1>2, <1>3, PTL DEF RegistrationSpec

-------------------------------------------------------------------------------
(***************************************************************************)
(* Schools and their import                                                *)
(***************************************************************************)

\* The form of an open dialog differs from its row only where something was
\* typed, and a request under way sends nothing else, be its dialog open or not.
TypedOnly ==
    /\ editTarget # NoSchool =>
          /\ editForm \in SchoolRecord /\ editTarget \in SchoolRecord
          /\ \A f \in SchoolFields \ typedIn : editForm[f] = editTarget[f]
    /\ editing # NoSchool =>
          /\ editing \in [SchoolFields -> Values \cup {"unsent"}]
          /\ \A f \in SchoolFields \ typedIn : editing[f] = "unsent"

SchoolInv == SchoolTypeOK /\ TypedOnly

LEMMA EmptyRecordIsNone == NoSchool \notin SchoolRecord /\ NoSchool \notin [SchoolFields -> Values \cup {"unsent"}]
<1>1. DOMAIN NoSchool = {} /\ "name" \in SchoolFields
  BY DEF NoSchool, SchoolFields
<1>2. QED
  BY <1>1 DEF SchoolRecord

LEMMA SchoolInitInv == ASSUME SchoolInit PROVE SchoolInv
<1>1. school \in SchoolRecord
  <2> DEFINE s == [name |-> "a", npsn |-> "a"]
  <2>1. s \in [{"name", "npsn"} -> {"a"}]
    OBVIOUS
  <2>2. "a" \in Values
    BY DEF Values, ValuesOf
  <2>3. s \in SchoolRecord
    BY <2>1, <2>2 DEF SchoolRecord, SchoolFields
  <2>4. QED
    BY <2>3 DEF SchoolInit
<1>2. SchoolTypeOK
  <2>1. importStep \in [ImportRuns -> {"unused"}] /\ importStatus \in [ImportRuns -> {"none"}]
    BY DEF SchoolInit
  <2>2. edits \in 0..SchoolEdits
    BY SchoolConstants DEF SchoolInit
  <2>3. QED
    BY <1>1, <2>1, <2>2 DEF SchoolInit, SchoolTypeOK
<1>3. TypedOnly
  BY DEF SchoolInit, TypedOnly
<1>4. QED
  BY <1>2, <1>3 DEF SchoolInv

LEMMA PayloadSendsTheTyped ==
    ASSUME NEW form \in SchoolRecord, NEW target \in SchoolRecord
    PROVE  /\ Payload(form, target) \in [SchoolFields -> Values \cup {"unsent"}]
           /\ \A f \in SchoolFields : form[f] = target[f] => Payload(form, target)[f] = "unsent"
BY DEF Payload, SchoolRecord

\* What another administrator or an import writes.
LEMMA SchoolMoves ==
    ASSUME SchoolTypeOK, NEW new \in SchoolRecord, Changes(new)
    PROVE  school' \in SchoolRecord /\ edits' \in 0..SchoolEdits
BY SchoolConstants DEF SchoolTypeOK, Changes

LEMMA FieldFits ==
    ASSUME NEW s \in SchoolRecord, NEW f \in SchoolFields, NEW v \in ValuesOf(f)
    PROVE  [s EXCEPT ![f] = v] \in SchoolRecord
BY DEF SchoolRecord, SchoolFields, Values, ValuesOf

LEMMA EditKeeps ==
    ASSUME SchoolInv,
           OpenEdit \/ CloseEdit \/ SaveEdit \/ EditSaved \/ EditRefused
              \/ \E f \in SchoolFields : \E v \in ValuesOf(f) : TypeField(f, v)
    PROVE  SchoolInv'
<1> USE DEF SchoolInv
<1>1. CASE OpenEdit
  <2>1. schoolRow \in SchoolRecord
    BY <1>1 DEF OpenEdit, SchoolTypeOK
  <2>2. QED
    BY <1>1, <2>1 DEF OpenEdit, SchoolTypeOK, TypedOnly, importVars
<1>2. CASE CloseEdit
  BY <1>2 DEF CloseEdit, ClosedEdit, SchoolTypeOK, TypedOnly, importVars
<1>3. CASE SaveEdit
  <2>1. editForm \in SchoolRecord /\ editTarget \in SchoolRecord
    BY <1>3 DEF SaveEdit, TypedOnly
  <2>2. CASE editForm = editTarget
    BY <1>3, <2>2 DEF SaveEdit, ClosedEdit, SchoolTypeOK, TypedOnly, importVars
  <2>3. CASE editForm # editTarget
    BY <1>3, <2>1, <2>3, PayloadSendsTheTyped DEF SaveEdit, SchoolTypeOK, TypedOnly, importVars
  <2>4. QED
    BY <2>2, <2>3
<1>4. CASE EditSaved
  <2> DEFINE new == [f \in SchoolFields |-> IF editing[f] = "unsent" THEN school[f] ELSE editing[f]]
  <2>1. Changes(new) /\ editing # NoSchool
    BY <1>4 DEF EditSaved
  <2>2. editing \in [SchoolFields -> Values \cup {"unsent"}] /\ school \in [SchoolFields -> Values]
    BY <2>1 DEF TypedOnly, SchoolTypeOK, SchoolRecord
  <2>3. new \in SchoolRecord
    BY <2>2 DEF SchoolRecord
  <2> HIDE DEF new
  <2>4. school' \in SchoolRecord /\ edits' \in 0..SchoolEdits
    BY <2>1, <2>3, SchoolMoves
  <2>5. QED
    BY <1>4, <2>4 DEF EditSaved, ClosedEdit, SchoolTypeOK, TypedOnly, importVars
<1>5. CASE EditRefused
  BY <1>5 DEF EditRefused, SchoolTypeOK, TypedOnly, importVars
<1>6. ASSUME NEW f \in SchoolFields, NEW v \in ValuesOf(f), TypeField(f, v) PROVE SchoolInv'
  <2>1. editForm' \in SchoolRecord
    BY <1>6, FieldFits DEF TypeField, TypedOnly
  <2>2. \A g \in SchoolFields \ typedIn' : editForm'[g] = editForm[g]
    BY <1>6 DEF TypeField, TypedOnly, SchoolRecord
  <2>3. QED
    BY <1>6, <2>1, <2>2 DEF TypeField, SchoolTypeOK, TypedOnly, importVars
<1>7. QED
  BY <1>1, <1>2, <1>3, <1>4, <1>5, <1>6

LEMMA ImportKeeps ==
    ASSUME SchoolInv, NEW u \in ImportRuns,
           SubmitImport(u) \/ ImportGoesOn(u) \/ ImportFails(u) \/ ImportJobEnds(u)
    PROVE  SchoolInv'
<1> USE DEF SchoolInv
<1>1. CASE SubmitImport(u)
  BY <1>1 DEF SubmitImport, SchoolTypeOK, TypedOnly, editVars
<1>2. CASE ImportGoesOn(u)
  BY <1>2 DEF ImportGoesOn, SchoolTypeOK, TypedOnly, editVars
<1>3. CASE ImportFails(u)
  BY <1>3 DEF ImportFails, SchoolTypeOK, TypedOnly, editVars
<1>4. CASE ImportJobEnds(u)
  <2>1. school' \in SchoolRecord /\ edits' \in 0..SchoolEdits
    <3>1. "name" \in SchoolFields /\ "b" \in ValuesOf("name")
      BY DEF SchoolFields, ValuesOf
    <3>2. [school EXCEPT !["name"] = "b"] \in SchoolRecord
      BY <3>1, FieldFits DEF SchoolTypeOK
    <3>3. CASE UNCHANGED <<school, edits>>
      BY <3>3 DEF SchoolTypeOK
    <3>4. CASE Changes([school EXCEPT !["name"] = "b"])
      BY <3>2, <3>4, SchoolMoves
    <3>5. QED
      BY <1>4, <3>3, <3>4 DEF ImportJobEnds
  <2>2. QED
    BY <1>4, <2>1 DEF ImportJobEnds, SchoolTypeOK, TypedOnly, editVars
<1>5. QED
  BY <1>1, <1>2, <1>3, <1>4

LEMMA SchoolStep == ASSUME SchoolInv, [SchoolNext]_schoolVars PROVE SchoolInv'
<1> USE DEF SchoolInv
<1>1. CASE SchoolsArrive
  BY <1>1 DEF SchoolsArrive, SchoolTypeOK, TypedOnly, editVars, importVars
<1>2. CASE OtherEdits
  <2>1. PICK f \in SchoolFields : \E v \in ValuesOf(f) : Changes([school EXCEPT ![f] = v])
    BY <1>2 DEF OtherEdits
  <2>2. PICK v \in ValuesOf(f) : Changes([school EXCEPT ![f] = v])
    BY <2>1
  <2>3. [school EXCEPT ![f] = v] \in SchoolRecord
    BY FieldFits DEF SchoolTypeOK
  <2>4. school' \in SchoolRecord /\ edits' \in 0..SchoolEdits
    BY <2>2, <2>3, SchoolMoves
  <2>5. QED
    BY <1>2, <2>4 DEF OtherEdits, SchoolTypeOK, TypedOnly, editVars, importVars
<1>3. CASE OpenImport
  BY <1>3 DEF OpenImport, SchoolTypeOK, TypedOnly, editVars
<1>4. CASE ChooseImportFile
  BY <1>4 DEF ChooseImportFile, SchoolTypeOK, TypedOnly, editVars
<1>5. CASE PollImport
  BY <1>5 DEF PollImport, SchoolTypeOK, TypedOnly, editVars
<1>6. CASE NotifySuccess
  BY <1>6 DEF NotifySuccess, Report, SchoolTypeOK, TypedOnly, editVars
<1>7. CASE CloseImport
  BY <1>7 DEF CloseImport, SchoolTypeOK, TypedOnly, editVars
<1>8. CASE UNCHANGED schoolVars
  BY <1>8 DEF schoolVars, SchoolTypeOK, TypedOnly
<1>9. QED
  BY <1>1, <1>2, <1>3, <1>4, <1>5, <1>6, <1>7, <1>8, EditKeeps, ImportKeeps DEF SchoolNext

\* Of the steps that end a request, the one that the server takes writes what it
\* sends and no more.
LEMMA EditWritesTheTyped ==
    ASSUME SchoolInv, SchoolNext, editing # NoSchool, edits' > edits, editing' = NoSchool
    PROVE  \A f \in SchoolFields \ typedIn : school'[f] = school[f]
<1>1. edits' # edits
  BY DEF SchoolInv, SchoolTypeOK
<1>2. EditSaved
  BY <1>1 DEF SchoolNext, SchoolsArrive, OtherEdits, OpenEdit, CloseEdit, SaveEdit, EditRefused,
       TypeField, OpenImport, ChooseImportFile, PollImport, NotifySuccess, CloseImport,
       SubmitImport, ImportGoesOn, ImportFails, ImportJobEnds, editVars
<1>3. \A f \in SchoolFields \ typedIn : editing[f] = "unsent"
  BY DEF SchoolInv, TypedOnly
<1>4. QED
  BY <1>2, <1>3 DEF EditSaved, Changes

\* The types of the schools page, for any number of edits and of imports.
THEOREM SchoolTypesHold == SchoolSpec => []SchoolTypeOK
<1>1. SchoolInit => SchoolInv
  BY SchoolInitInv
<1>2. SchoolInv /\ [SchoolNext]_schoolVars => SchoolInv'
  BY SchoolStep
<1>3. SchoolInv => SchoolTypeOK
  BY DEF SchoolInv
<1>4. QED
  BY <1>1, <1>2, <1>3, PTL DEF SchoolSpec

\* A saved edit changes no field but those typed in, whatever another
\* administrator or an import changed since its row was read.
THEOREM EditsKeepTheOthers == SchoolSpec => EditsKeepOthers
<1>1. SchoolInit => SchoolInv
  BY SchoolInitInv
<1>2. SchoolInv /\ [SchoolNext]_schoolVars => SchoolInv'
  BY SchoolStep
<1>3. SchoolInv /\ [SchoolNext]_schoolVars =>
         [editing # NoSchool /\ edits' > edits /\ editing' = NoSchool =>
             \A f \in SchoolFields \ typedIn : school'[f] = school[f]]_schoolVars
  BY EditWritesTheTyped
<1>4. QED
  BY <1>1, <1>2, <1>3, PTL DEF SchoolSpec, EditsKeepOthers

-------------------------------------------------------------------------------
(***************************************************************************)
(* System configuration and admin accounts                                 *)
(***************************************************************************)

\* A form that was filled with the mask, and whose secret nobody typed in, holds
\* the mask, and so does a save made from it; a form is filled once there is
\* something to fill it from, and only a filled form is saved.
MaskStands ==
    /\ configLoaded => configCache \in FormSets /\ configForm \in FormSets
    /\ secretShown /\ ~secretTyped => configForm.secret = Mask
    /\ configSave # NoConfig =>
          /\ configLoaded
          /\ "secret" \in DOMAIN configSave /\ secretShown /\ ~secretTyped => configSave.secret = Mask

\* What a tab sends are values of its fields.
SaveFits ==
    /\ DOMAIN configSave \subseteq {"province", "city", "notify", "secret"}
    /\ "province" \in DOMAIN configSave => configSave.province \in Provinces
    /\ "city" \in DOMAIN configSave => configSave.city \in Provinces \cup {""}
    /\ "notify" \in DOMAIN configSave => configSave.notify \in BOOLEAN
    /\ "secret" \in DOMAIN configSave => configSave.secret \in {"", Mask, "k1", "k2"}

ConfigTypes ==
    /\ config \in ConfigSets /\ configChanges \in 0..ConfigChanges
    /\ configCache \in FormSets \cup {NoConfig} /\ configForm \in FormSets \cup {NoConfig}
    /\ configDue \in BOOLEAN /\ configLoaded \in BOOLEAN
    /\ secretTyped \in BOOLEAN /\ secretShown \in BOOLEAN

RoleForms   == [open : BOOLEAN, role : AdminRoles, school : {"", "s1", "s2"}]
CreateForms == [open : BOOLEAN, complete : BOOLEAN, role : AdminRoles, school : {"", "s1"}]

AccountTypes ==
    /\ account \in Accounts /\ accountChanges \in 0..AccountChanges
    /\ accountRow \in Accounts /\ accountsDue \in BOOLEAN /\ roleDialog \in RoleForms
    /\ roleChange \in Accounts \cup {NoAccount} /\ creating \in BOOLEAN
    /\ createForm \in CreateForms

SystemInv == ConfigTypes /\ AccountTypes /\ MaskStands /\ SaveFits

LEMMA SystemInvTypes == ASSUME SystemInv PROVE SystemTypeOK
<1>1. {configDue, configLoaded, secretTyped, secretShown, accountsDue} \subseteq BOOLEAN
  BY DEF SystemInv, ConfigTypes, AccountTypes
<1>2. QED
  BY <1>1 DEF SystemInv, ConfigTypes, AccountTypes, SaveFits, SystemTypeOK, RoleForms, CreateForms

LEMMA SystemInitInv == ASSUME SystemInit PROVE SystemInv
<1>1. ConfigChanges \in Nat /\ AccountChanges \in Nat
  BY SystemConstants
<1>2. config \in ConfigSets
  BY DEF SystemInit
<1>3. account \in Accounts /\ accountRow \in Accounts
  BY DEF SystemInit, Accounts, AdminRoles
<1>4. roleDialog \in RoleForms /\ createForm \in CreateForms
  BY DEF SystemInit, ClosedRole, ClosedForm, AdminRoles, RoleForms, CreateForms
<1>5. ConfigTypes /\ AccountTypes
  <2>1. /\ configChanges = 0 /\ configCache = NoConfig /\ configForm = NoConfig
        /\ configDue = TRUE /\ configLoaded = FALSE /\ secretTyped = FALSE /\ secretShown = FALSE
    BY DEF SystemInit
  <2>2. /\ accountChanges = 0 /\ accountsDue = FALSE
        /\ roleChange = NoAccount /\ creating = FALSE
    BY DEF SystemInit
  <2>3. 0 \in 0..ConfigChanges /\ 0 \in 0..AccountChanges
    BY <1>1
  <2>4. QED
    BY <1>2, <1>3, <1>4, <2>1, <2>2, <2>3 DEF ConfigTypes, AccountTypes
<1>6. MaskStands
  BY DEF SystemInit, MaskStands
<1>7. SaveFits
  BY DEF SystemInit, SaveFits, NoConfig
<1>8. QED
  BY <1>5, <1>6, <1>7 DEF SystemInv

LEMMA OneMoreChange == ASSUME NEW b \in Nat, NEW n \in 0..b, n < b PROVE n + 1 \in 0..b
OBVIOUS

LEMMA NoConfigIsEmpty == DOMAIN NoConfig = {} /\ NoConfig \notin FormSets
<1>1. DOMAIN NoConfig = {}
  BY DEF NoConfig
<1>2. QED
  BY <1>1 DEF FormSets

LEMMA MaskedFits ==
    ASSUME config \in ConfigSets
    PROVE  Masked \in FormSets
BY DEF ConfigSets, FormSets, Masked, Mask

LEMMA FillKeeps ==
    ASSUME NEW data \in FormSets, Fill(data)
    PROVE  /\ configLoaded' = TRUE /\ configForm' \in FormSets
           /\ secretTyped' \in BOOLEAN /\ secretShown' \in BOOLEAN
           /\ secretShown' /\ ~secretTyped' => configForm'.secret = Mask
BY DEF Fill, FillForm

\* What the server writes of a save, all of it or a part: values of the
\* configuration, and the secret it has when it is sent the mask or not at all.
LEMMA KeptFits ==
    ASSUME config \in ConfigSets, SaveFits,
           NEW values, DOMAIN values \subseteq DOMAIN configSave,
           \A f \in DOMAIN values : values[f] = configSave[f]
    PROVE  /\ Kept(values) \in ConfigSets
           /\ ("secret" \in DOMAIN configSave => configSave.secret = Mask) =>
                 Kept(values).secret = config.secret
<1>1. DOMAIN config = {"province", "city", "notify", "secret"}
      /\ config = [province |-> config.province, city |-> config.city,
                   notify |-> config.notify, secret |-> config.secret]
  BY DEF ConfigSets
<1> DEFINE k == Kept(values)
<1>2. /\ DOMAIN k = {"province", "city", "notify", "secret"}
      /\ k.province = (IF "province" \in DOMAIN values THEN configSave.province ELSE config.province)
      /\ k.city = (IF "city" \in DOMAIN values THEN configSave.city ELSE config.city)
      /\ k.notify = (IF "notify" \in DOMAIN values THEN configSave.notify ELSE config.notify)
      /\ k.secret = (IF "secret" \in DOMAIN values /\ configSave.secret # Mask
                     THEN configSave.secret ELSE config.secret)
  BY <1>1 DEF Kept
<1>3. /\ k.province \in Provinces /\ k.city \in Provinces \cup {""} /\ k.notify \in BOOLEAN
      /\ k.secret \in {"", "k1", "k2"}
  BY <1>2 DEF SaveFits, ConfigSets
<1>4. k = [x \in {"province", "city", "notify", "secret"} |-> k[x]]
  BY <1>1 DEF Kept
<1> HIDE DEF k
<1>5. k \in ConfigSets
  BY <1>2, <1>3, <1>4 DEF ConfigSets
<1>6. QED
  BY <1>2, <1>5 DEF k

LEMMA RestrictAgrees ==
    ASSUME NEW f, NEW S \in SUBSET DOMAIN f
    PROVE  /\ DOMAIN Restrict(f, S) \subseteq DOMAIN f
           /\ \A x \in DOMAIN Restrict(f, S) : Restrict(f, S)[x] = f[x]
BY DEF Restrict

LEMMA ConfigKeeps ==
    ASSUME SystemInv, ConfigNext
    PROVE  ConfigTypes' /\ MaskStands' /\ SaveFits'
<1> USE DEF SystemInv
<1>1. ConfigChanges \in Nat
  BY SystemConstants
<1>2. CASE ConfigArrives
  <2>1. Masked \in FormSets
    BY MaskedFits DEF ConfigTypes
  <2>2. CASE configLoaded
    BY <1>2, <2>1, <2>2 DEF ConfigArrives, ConfigTypes, MaskStands, SaveFits
  <2>3. CASE ~configLoaded
    <3>1. Fill(Masked)
      BY <1>2, <2>3 DEF ConfigArrives
    <3>2. /\ configLoaded' = TRUE /\ configForm' \in FormSets
          /\ secretTyped' \in BOOLEAN /\ secretShown' \in BOOLEAN
          /\ secretShown' /\ ~secretTyped' => configForm'.secret = Mask
      BY <2>1, <3>1, FillKeeps
    <3>3. configSave = NoConfig
      BY <2>3 DEF MaskStands
    <3>4. QED
      BY <1>2, <2>1, <3>2, <3>3 DEF ConfigArrives, ConfigTypes, MaskStands, SaveFits
  <2>4. QED
    BY <2>2, <2>3
<1>3. CASE ReopenConfig
  <2>1. configCache \in FormSets /\ Fill(configCache)
    BY <1>3 DEF ReopenConfig, MaskStands
  <2>2. /\ configLoaded' = TRUE /\ configForm' \in FormSets
        /\ secretTyped' \in BOOLEAN /\ secretShown' \in BOOLEAN
        /\ secretShown' /\ ~secretTyped' => configForm'.secret = Mask
    BY <2>1, FillKeeps
  <2>3. configDue' \in BOOLEAN
    BY <1>3 DEF ReopenConfig, ConfigTypes
  <2>4. QED
    BY <1>3, <2>1, <2>2, <2>3 DEF ReopenConfig, ConfigTypes, MaskStands, SaveFits
<1>4. ASSUME NEW f \in {"notify", "secret"}, NEW v, TypeConfig(f, v),
             f = "notify" => v \in BOOLEAN, f = "secret" => v \in {"", "k2"}
      PROVE  ConfigTypes' /\ MaskStands' /\ SaveFits'
  <2>1. configForm \in FormSets /\ configLoaded
    BY <1>4 DEF TypeConfig, MaskStands
  <2>2. configForm' \in FormSets
    BY <1>4, <2>1 DEF TypeConfig, FormSets
  <2>3. f = "notify" => configForm'.secret = configForm.secret
    BY <1>4, <2>1 DEF TypeConfig, FormSets
  <2>4. secretTyped' = (secretTyped \/ f = "secret") /\ secretTyped' \in BOOLEAN
    BY <1>4 DEF TypeConfig, ConfigTypes
  <2>5. UNCHANGED <<config, configChanges, configCache, configDue, configLoaded, configSave,
                    secretShown, accountVars>>
    BY <1>4 DEF TypeConfig
  <2>6. ConfigTypes'
    BY <2>2, <2>4, <2>5 DEF ConfigTypes
  <2>7. MaskStands'
    BY <2>2, <2>3, <2>4, <2>5 DEF MaskStands
  <2>8. QED
    BY <2>5, <2>6, <2>7 DEF SaveFits
<1>5. ASSUME NEW form \in FormSets, configForm' = form, configLoaded, form.secret = configForm.secret,
             UNCHANGED <<config, configChanges, configCache, configDue, configLoaded, configSave,
                         secretTyped, secretShown, accountVars>>
      PROVE  ConfigTypes' /\ MaskStands' /\ SaveFits'
  BY <1>5 DEF ConfigTypes, MaskStands, SaveFits
<1>6. ASSUME NEW p \in Provinces, ChooseProvince(p) PROVE ConfigTypes' /\ MaskStands' /\ SaveFits'
  <2>1. configForm \in FormSets
    BY <1>6 DEF ChooseProvince, MaskStands
  <2>2. [configForm EXCEPT !.province = p, !.city = ""] \in FormSets
        /\ [configForm EXCEPT !.province = p, !.city = ""].secret = configForm.secret
    BY <2>1 DEF FormSets
  <2>3. QED
    BY <1>5, <1>6, <2>2 DEF ChooseProvince
<1>7. CASE ChooseCity
  <2>1. configForm \in FormSets
    BY <1>7 DEF ChooseCity, MaskStands
  <2>2. [configForm EXCEPT !.city = configForm.province] \in FormSets
        /\ [configForm EXCEPT !.city = configForm.province].secret = configForm.secret
    BY <2>1 DEF FormSets
  <2>3. QED
    BY <1>5, <1>7, <2>2 DEF ChooseCity
<1>8. ASSUME NEW tab \in {"general", "notifications", "integrations"}, SaveTab(tab) PROVE ConfigTypes' /\ MaskStands' /\ SaveFits'
  <2>1. configForm \in FormSets /\ configLoaded
    BY <1>8 DEF SaveTab, MaskStands
  <2>2. /\ DOMAIN configSave' \subseteq {"province", "city", "notify", "secret"}
        /\ \A x \in DOMAIN configSave' : configSave'[x] = configForm[x]
    BY <1>8, <2>1 DEF SaveTab, Restrict, FormSets
  <2>3. SaveFits'
    BY <2>1, <2>2 DEF SaveFits, FormSets
  <2>4. UNCHANGED <<config, configChanges, configCache, configDue, configLoaded, configForm,
                    secretTyped, secretShown, accountVars>>
    BY <1>8 DEF SaveTab
  <2>5. MaskStands'
    BY <2>1, <2>2, <2>4 DEF MaskStands
  <2>6. ConfigTypes'
    BY <2>2, <2>4 DEF ConfigTypes
  <2>7. QED
    BY <2>3, <2>5, <2>6
<1>9. CASE ConfigSaved
  <2>1. config' \in ConfigSets
    BY <1>9, KeptFits DEF ConfigSaved, ConfigTypes
  <2>2. configChanges' \in 0..ConfigChanges
    BY <1>1, <1>9 DEF ConfigSaved, ConfigTypes
  <2>3. SaveFits'
    BY <1>9, NoConfigIsEmpty DEF ConfigSaved, SaveFits
  <2>4. QED
    BY <1>9, <2>1, <2>2, <2>3 DEF ConfigSaved, ConfigTypes, MaskStands
<1>10. CASE ConfigRefused
  <2>1. SaveFits'
    BY <1>10, NoConfigIsEmpty DEF ConfigRefused, SaveFits
  <2>2. PICK written \in SUBSET DOMAIN configSave :
            /\ config' = Kept(Restrict(configSave, written))
            /\ configChanges' = configChanges + (IF written = {} THEN 0 ELSE 1)
            /\ configChanges' <= ConfigChanges
    BY <1>10 DEF ConfigRefused
  <2>3. config' \in ConfigSets
    BY <2>2, RestrictAgrees, KeptFits DEF ConfigTypes
  <2>4. configChanges' \in 0..ConfigChanges
    BY <1>1, <2>2 DEF ConfigTypes
  <2>5. QED
    BY <1>10, <2>1, <2>3, <2>4 DEF ConfigRefused, ConfigTypes, MaskStands
<1>11. ASSUME NEW secret \in {"", "k2"}, OtherAdminSets(secret) PROVE ConfigTypes' /\ MaskStands' /\ SaveFits'
  <2>1. config' \in ConfigSets
    BY <1>11 DEF OtherAdminSets, ConfigTypes, ConfigSets
  <2>2. configChanges' \in 0..ConfigChanges
    <3>1. configChanges < ConfigChanges /\ configChanges' = configChanges + 1
      BY <1>11 DEF OtherAdminSets
    <3>2. configChanges \in 0..ConfigChanges
      BY DEF ConfigTypes
    <3>3. QED
      BY <1>1, <3>1, <3>2, OneMoreChange
  <2>3. QED
    BY <1>11, <2>1, <2>2 DEF OtherAdminSets, ConfigTypes, MaskStands, SaveFits
<1>12. ASSUME NEW v \in BOOLEAN, TypeConfig("notify", v) PROVE ConfigTypes' /\ MaskStands' /\ SaveFits'
  BY <1>4, <1>12
<1>13. ASSUME NEW v \in {"", "k2"}, TypeConfig("secret", v) PROVE ConfigTypes' /\ MaskStands' /\ SaveFits'
  BY <1>4, <1>13
<1>14. QED
  BY <1>2, <1>3, <1>6, <1>7, <1>8, <1>9, <1>10, <1>11, <1>12, <1>13 DEF ConfigNext

\* The accounts page leaves the configuration alone.
LEMMA AccountKeeps == ASSUME SystemInv, AccountNext PROVE SystemInv' /\ UNCHANGED configVars
<1>1. UNCHANGED configVars
  BY DEF AccountNext, AccountsArrive, OpenRole, CloseRole, ChangeRole, RoleChanged, RoleRefused,
     ChooseRole, ChooseSchool, ToggleCreate, FillCreate, Create, Created
<1>2. MaskStands' /\ SaveFits'
  BY <1>1 DEF SystemInv, MaskStands, SaveFits, configVars
<1>3. /\ account \in Accounts /\ accountChanges \in 0..AccountChanges /\ AccountChanges \in Nat
      /\ accountRow \in Accounts /\ roleDialog \in RoleForms /\ roleChange \in Accounts \cup {NoAccount}
      /\ creating \in BOOLEAN /\ createForm \in CreateForms /\ accountsDue \in BOOLEAN
  BY SystemConstants DEF SystemInv, AccountTypes
<1>4. ClosedRole \in RoleForms /\ ClosedForm \in CreateForms
  BY DEF ClosedRole, ClosedForm, AdminRoles, RoleForms, CreateForms
<1>5. roleDialog' \in RoleForms
  <2>1. CASE OpenRole
    BY <1>3, <2>1 DEF OpenRole, Accounts, RoleForms
  <2>2. ASSUME NEW r \in AdminRoles, ChooseRole(r) PROVE roleDialog' \in RoleForms
    BY <1>3, <2>2 DEF ChooseRole, RoleForms
  <2>3. ASSUME NEW s \in {"s1", "s2"}, ChooseSchool(s) PROVE roleDialog' \in RoleForms
    BY <1>3, <2>3 DEF ChooseSchool, RoleForms
  <2>4. QED
    BY <1>3, <1>4, <2>1, <2>2, <2>3 DEF AccountNext, AccountsArrive, CloseRole, ChangeRole,
       RoleChanged, RoleRefused, ToggleCreate, FillCreate, Create, Created
<1>6. createForm' \in CreateForms
  <2>1. CASE ToggleCreate
    BY <1>3, <2>1 DEF ToggleCreate, CreateForms
  <2>2. CASE FillCreate
    <3>1. [createForm EXCEPT !.complete = TRUE] \in CreateForms
      BY <1>3 DEF CreateForms
    <3>2. [createForm EXCEPT !.school = "s1"] \in CreateForms
      BY <1>3 DEF CreateForms
    <3>3. ASSUME NEW r \in AdminRoles
          PROVE  [createForm EXCEPT !.role = r, !.school = IF r = "admin_school" THEN @ ELSE ""] \in CreateForms
      BY <1>3 DEF CreateForms
    <3>4. QED
      BY <2>2, <3>1, <3>2, <3>3 DEF FillCreate
  <2>3. QED
    BY <1>3, <1>4, <2>1, <2>2 DEF AccountNext, AccountsArrive, OpenRole, ChooseRole, ChooseSchool,
       CloseRole, ChangeRole, RoleChanged, RoleRefused, Create, Created
<1>7. roleChange' \in Accounts \cup {NoAccount}
  <2>1. CASE ChangeRole
    BY <1>3, <2>1 DEF ChangeRole, Accounts, RoleForms
  <2>2. QED
    BY <1>3, <2>1 DEF AccountNext, AccountsArrive, OpenRole, ChooseRole, ChooseSchool, CloseRole,
       RoleChanged, RoleRefused, ToggleCreate, FillCreate, Create, Created
<1>8. account' \in Accounts /\ accountChanges' \in 0..AccountChanges
  <2>1. CASE RoleChanged
    BY <1>3, <2>1 DEF RoleChanged
  <2>2. QED
    BY <1>3, <2>1 DEF AccountNext, AccountsArrive, OpenRole, ChooseRole, ChooseSchool, CloseRole,
       ChangeRole, RoleRefused, ToggleCreate, FillCreate, Create, Created
<1>9. accountRow' \in Accounts /\ creating' \in BOOLEAN /\ accountsDue' \in BOOLEAN
  BY <1>3 DEF AccountNext, AccountsArrive, OpenRole, ChooseRole, ChooseSchool, CloseRole,
     ChangeRole, RoleChanged, RoleRefused, ToggleCreate, FillCreate, Create, Created
<1>10. ConfigTypes'
  BY <1>1 DEF SystemInv, ConfigTypes, configVars
<1>11. AccountTypes'
  BY <1>5, <1>6, <1>7, <1>8, <1>9 DEF AccountTypes
<1>12. QED
  BY <1>1, <1>2, <1>10, <1>11 DEF SystemInv

LEMMA SystemStep == ASSUME SystemInv, [SystemNext]_systemVars PROVE SystemInv'
<1>1. CASE UNCHANGED systemVars
  <2>1. UNCHANGED configVars /\ UNCHANGED accountVars
    BY <1>1 DEF systemVars
  <2>2. ConfigTypes' /\ MaskStands' /\ SaveFits'
    BY <2>1 DEF configVars, SystemInv, ConfigTypes, MaskStands, SaveFits
  <2>3. AccountTypes'
    BY <2>1 DEF accountVars, SystemInv, AccountTypes
  <2>4. QED
    BY <2>2, <2>3 DEF SystemInv
<1>2. CASE ConfigNext
  <2>1. UNCHANGED accountVars
    BY <1>2 DEF ConfigNext, ConfigArrives, ReopenConfig, TypeConfig, ChooseProvince, ChooseCity,
       SaveTab, ConfigSaved, ConfigRefused, OtherAdminSets
  <2>2. AccountTypes'
    BY <2>1 DEF SystemInv, AccountTypes, accountVars
  <2>3. QED
    BY <1>2, <2>2, ConfigKeeps DEF SystemInv
<1>3. QED
  BY <1>1, <1>2, AccountKeeps DEF SystemNext

LEMMA SecretStays ==
    ASSUME SystemInv, SystemNext, configSave # NoConfig, configSave' = NoConfig,
           secretShown, ~secretTyped
    PROVE  config'.secret = config.secret /\ config'.secret # Mask
<1>1. CASE ConfigSaved \/ ConfigRefused
  <2>1. "secret" \in DOMAIN configSave => configSave.secret = Mask
    BY DEF SystemInv, MaskStands
  <2>2. PICK values : /\ config' = Kept(values) /\ DOMAIN values \subseteq DOMAIN configSave
                      /\ \A f \in DOMAIN values : values[f] = configSave[f]
    BY <1>1, RestrictAgrees DEF ConfigSaved, ConfigRefused
  <2>3. config'.secret = config.secret
    BY <2>1, <2>2, KeptFits DEF SystemInv, ConfigTypes
  <2>4. QED
    BY <2>3 DEF SystemInv, ConfigTypes, ConfigSets, Mask
<1>3. ConfigNext
  BY AccountKeeps DEF SystemNext, configVars
<1>4. QED
  BY <1>1, <1>3 DEF ConfigNext, ConfigArrives, ReopenConfig, TypeConfig, ChooseProvince,
     ChooseCity, SaveTab, OtherAdminSets

\* The types of the system pages, for any number of changes of either.
THEOREM SystemTypesHold == SystemSpec => []SystemTypeOK
<1>1. SystemInit => SystemInv
  BY SystemInitInv
<1>2. SystemInv /\ [SystemNext]_systemVars => SystemInv'
  BY SystemStep
<1>3. SystemInv => SystemTypeOK
  BY SystemInvTypes
<1>4. QED
  BY <1>1, <1>2, <1>3, PTL DEF SystemSpec

\* A secret that the form shows masked, and that was not typed over, outlives
\* every save of every tab, whatever another administrator saves meanwhile.
THEOREM SecretsOutlive == SystemSpec => SecretsOutliveSaves
<1>1. SystemInit => SystemInv
  BY SystemInitInv
<1>2. SystemInv /\ [SystemNext]_systemVars => SystemInv'
  BY SystemStep
<1>3. SystemInv /\ [SystemNext]_systemVars =>
         [configSave # NoConfig /\ configSave' = NoConfig /\ secretShown /\ ~secretTyped =>
             config'.secret = config.secret /\ config'.secret # Mask]_systemVars
  BY SecretStays
<1>4. QED
  BY <1>1, <1>2, <1>3, PTL DEF SystemSpec, SecretsOutliveSaves

-------------------------------------------------------------------------------
(***************************************************************************)
(* Least and greatest numbers                                              *)
(***************************************************************************)

\* The numbers that pages end and begin with: a set of them has a least one, and
\* a finite set a greatest one.
LEMMA LeastOf == ASSUME NEW T \in SUBSET Nat, T # {} PROVE \E x \in T : \A y \in T : x <= y
<1>1. PICK x \in T : \A y \in T : ~ (<<y, x>> \in OpToRel(<, Nat))
  BY NatLessThanWellFounded, WFMin
<1>2. \A y \in T : ~ (y < x)
  BY <1>1 DEF OpToRel
<1>3. QED
  BY <1>2

LEMMA GreatestOf ==
    ASSUME NEW S \in SUBSET Nat, IsFiniteSet(S), S # {}
    PROVE  \E x \in S : \A y \in S : y <= x
<1> DEFINE Above(x) == {y \in S : x < y}
           Counts == {Cardinality(Above(x)) : x \in S}
<1>1. \A x \in S : IsFiniteSet(Above(x)) /\ Cardinality(Above(x)) \in Nat
  BY FS_Subset, FS_CardinalityType
<1>2. Counts \in SUBSET Nat /\ Counts # {}
  BY <1>1
<1>3. PICK c \in Counts : \A d \in Counts : c <= d
  BY <1>2, LeastOf
<1>4. PICK x \in S : c = Cardinality(Above(x))
  BY <1>3
<1>5. ASSUME NEW y \in S, x < y PROVE FALSE
  <2>1. Above(y) \in SUBSET Above(x) /\ y \in Above(x) /\ y \notin Above(y)
    BY <1>4, <1>5
  <2>2. Cardinality(Above(y)) <= Cardinality(Above(x)) /\ Cardinality(Above(y)) # Cardinality(Above(x))
    BY <1>1, <2>1, FS_Subset
  <2>3. Cardinality(Above(x)) <= Cardinality(Above(y))
    BY <1>3, <1>4
  <2>4. QED
    BY <1>1, <2>2, <2>3
<1>6. QED
  BY <1>4, <1>5

-------------------------------------------------------------------------------
(***************************************************************************)
(* The participant picker                                                  *)
(***************************************************************************)

\* A page holds students its filter matches, and goes on after one of them.
LEMMA PickPageFits ==
    ASSUME NEW f \in Candidates, NEW c \in AllCandidates \cup {0}
    PROVE  PickRows(f, c) \subseteq AllCandidates /\ PickNext(f, c) \in AllCandidates \cup {0}
<1> DEFINE matched == MatchedBy[f]
           after == {s \in matched : s > c}
           rows == {s \in after : Cardinality({q \in after : q < s}) < PickerRows}
<1>1. matched \in SUBSET AllCandidates /\ matched \in SUBSET Nat /\ PickerRows \in Nat \ {0}
  BY PickerConstants DEF AllCandidates
<1>2. rows = PickRows(f, c) /\ rows \subseteq AllCandidates /\ rows \in SUBSET Nat
  BY <1>1 DEF PickRows
<1>3. IsFiniteSet(rows)
  BY <1>2, PickerConstants, FS_Subset
<1>4. ASSUME NEW s \in matched, ~(s <= c), s \notin rows
      PROVE  \E x \in rows : \A q \in rows : q <= x
  <2>1. s \in after
    <3>1. s \in Nat /\ c \in Nat
      BY <1>1, PickerConstants DEF AllCandidates
    <3>2. QED
      BY <1>4, <3>1
  <2>2. PICK least \in after : \A y \in after : least <= y
    <3>1. after \in SUBSET Nat /\ after # {}
      BY <1>1, <2>1
    <3> HIDE DEF after
    <3>2. QED
      BY <3>1, LeastOf
  <2>3. {q \in after : q < least} = {}
    BY <1>1, <2>2
  <2>4. least \in rows
    BY <1>1, <2>2, <2>3, FS_EmptySet
  <2> HIDE DEF rows
  <2>5. QED
    BY <1>2, <1>3, <2>4, GreatestOf
<1> HIDE DEF rows, after
<1>5. PickNext(f, c) = (IF \A s \in matched : s <= c \/ s \in rows THEN 0
                        ELSE CHOOSE s \in rows : \A q \in rows : q <= s)
  BY <1>2 DEF PickNext
<1>6. CASE \A s \in matched : s <= c \/ s \in rows
  BY <1>2, <1>5, <1>6
<1>7. CASE ~ \A s \in matched : s <= c \/ s \in rows
  <2>1. \E x \in rows : \A q \in rows : q <= x
    BY <1>4, <1>7
  <2>2. (CHOOSE s \in rows : \A q \in rows : q <= s) \in rows
    BY <2>1
  <2>3. QED
    BY <1>2, <1>5, <1>7, <2>2
<1>8. QED
  BY <1>6, <1>7

\* While "select all" walks a filter, the students its list shows are selected or
\* were taken back; another filter's list is not the walk's.
WalkTakesTheList ==
    selectingAllKey # NoFilter /\ accumulated.key = selectingAllKey =>
        accumulated.data \subseteq selected \cup takenBack

PickerInv == PickerTypeOK /\ WalkTakesTheList

LEMMA PickerInitInv == ASSUME PickerInit PROVE PickerInv
BY DEF PickerInit, PickerInv, PickerTypeOK, WalkTakesTheList

LEMMA CursorFits ==
    ASSUME PickerTypeOK
    PROVE  /\ filterKey \in Candidates /\ PickCursor \in AllCandidates \cup {0}
           /\ NextCursor \in AllCandidates \cup {0}
           /\ Students \subseteq AllCandidates
<1>1. filterKey \in Candidates /\ PickCursor \in AllCandidates \cup {0}
  BY DEF PickerTypeOK, PickCursor
<1>2. NextCursor \in AllCandidates \cup {0}
  BY <1>1, PickPageFits DEF NextCursor
<1>3. Students \subseteq AllCandidates
  BY DEF PickerTypeOK, Students
<1>4. QED
  BY <1>1, <1>2, <1>3

\* A render's effects: what the list becomes, and what the walk makes of it.
LEMMA EffectsTake ==
    ASSUME PickerInv, RunEffects
    PROVE  /\ PickerTypeOK'
           /\ selectingAllKey = filterKey => accumulated'.data \subseteq selected' \cup takenBack'
           /\ selectingAllKey # filterKey =>
                 selectingAllKey' = selectingAllKey /\ accumulated'.key # selectingAllKey
           /\ takenBack' \subseteq takenBack /\ accumulated'.key = filterKey
<1> DEFINE rows == PickRows(filterKey, PickCursor)
           on   == PickNext(filterKey, PickCursor)
<1>1. rows \subseteq AllCandidates /\ on \in AllCandidates \cup {0} /\ Students \subseteq AllCandidates
      /\ filterKey \in Candidates
  BY CursorFits, PickPageFits DEF PickerInv
<1>2. /\ accumulated' = [key |-> filterKey, data |-> rows \cup (IF PickCursor # 0 THEN Students ELSE {})]
      /\ UNCHANGED <<filterKey, pickCache>>
      /\ selectingAllKey = filterKey =>
            /\ selected' = selected \cup rows /\ takenBack' = takenBack \ rows
            /\ pickPage' = (IF on # 0 THEN [key |-> filterKey, cursor |-> on] ELSE pickPage)
            /\ selectingAllKey' = (IF on # 0 THEN filterKey ELSE NoFilter)
            /\ effectsDue' = (on # 0)
      /\ selectingAllKey # filterKey =>
            effectsDue' = FALSE /\ UNCHANGED <<selected, pickPage, selectingAllKey, takenBack>>
  BY DEF RunEffects
<1> HIDE DEF rows, on
<1>3. PickerTypeOK'
  <2>1. accumulated' \in [key : Candidates, data : SUBSET AllCandidates]
    BY <1>1, <1>2
  <2>2. CASE selectingAllKey = filterKey
    BY <1>1, <1>2, <2>1, <2>2 DEF PickerInv, PickerTypeOK
  <2>3. CASE selectingAllKey # filterKey
    BY <1>1, <1>2, <2>1, <2>3 DEF PickerInv, PickerTypeOK
  <2>4. QED
    BY <2>2, <2>3
<1>4. selectingAllKey = filterKey => Students \subseteq selected \cup takenBack
  BY <1>1, PickerConstants DEF PickerInv, WalkTakesTheList, Students
<1>5. selectingAllKey = filterKey => accumulated'.data \subseteq selected' \cup takenBack'
  BY <1>2, <1>4
<1>6. QED
  BY <1>2, <1>3, <1>5

LEMMA PickerStep == ASSUME PickerInv, [PickerNext]_pickerVars PROVE PickerInv'
<1> USE DEF PickerInv
<1>1. CASE PickArrives
  BY <1>1, CursorFits DEF PickArrives, PickerTypeOK, WalkTakesTheList
<1>2. CASE RunEffects
  BY <1>2, EffectsTake DEF WalkTakesTheList
<1>3. CASE LoadMoreCandidates
  BY <1>3, CursorFits DEF LoadMoreCandidates, PickerTypeOK, WalkTakesTheList
<1>4. CASE SelectAll
  <2>1. /\ selected' = selected \cup Students /\ takenBack' = takenBack \ Students
        /\ UNCHANGED <<filterKey, pickPage, accumulated, pickCache>>
        /\ \/ selectingAllKey' = filterKey /\ effectsDue' = TRUE
           \/ UNCHANGED <<selectingAllKey, effectsDue>>
    BY <1>4 DEF SelectAll
  <2>2. PickerTypeOK'
    BY <2>1, CursorFits DEF PickerTypeOK
  <2>3. selectingAllKey' = filterKey /\ accumulated.key = filterKey => accumulated.data = Students
    BY DEF Students
  <2>4. WalkTakesTheList'
    BY <2>1, <2>3 DEF WalkTakesTheList
  <2>5. QED
    BY <2>2, <2>4
<1>5. CASE DeselectAll
  BY <1>5 DEF DeselectAll, PickerTypeOK, WalkTakesTheList
<1>6. ASSUME NEW f \in Candidates, ChangePickFilter(f) PROVE PickerInv'
  BY <1>6 DEF ChangePickFilter, PickerTypeOK, WalkTakesTheList
<1>7. ASSUME NEW s \in AllCandidates, Toggle(s) PROVE PickerInv'
  BY <1>7 DEF Toggle, PickerTypeOK, WalkTakesTheList
<1>8. CASE UNCHANGED pickerVars
  BY <1>8 DEF pickerVars, PickerTypeOK, WalkTakesTheList
<1>9. QED
  BY <1>1, <1>2, <1>3, <1>4, <1>5, <1>6, <1>7, <1>8 DEF PickerNext

LEMMA WalkEnds ==
    ASSUME PickerInv, PickerNext, selectingAllKey # NoFilter, selectingAllKey' = NoFilter
    PROVE  accumulated'.data \subseteq selected' \cup takenBack
<1>1. filterKey # NoFilter
  BY PickerConstants DEF PickerInv, PickerTypeOK
<1>2. RunEffects
  BY <1>1 DEF PickerNext, PickArrives, LoadMoreCandidates, SelectAll, DeselectAll, ChangePickFilter, Toggle
<1>3. selectingAllKey = filterKey
  BY <1>2, EffectsTake
<1>4. QED
  BY <1>2, <1>3, EffectsTake

\* The types of the picker, for every set of filters and every length of a page.
THEOREM PickerTypesHold == PickerSpec => []PickerTypeOK
<1>1. PickerInit => PickerInv
  BY PickerInitInv
<1>2. PickerInv /\ [PickerNext]_pickerVars => PickerInv'
  BY PickerStep
<1>3. PickerInv => PickerTypeOK
  BY DEF PickerInv
<1>4. QED
  BY <1>1, <1>2, <1>3, PTL DEF PickerSpec

\* When "select all" ends, the students its list shows are selected, but for
\* those taken back, however often the filter changed and changed back.
THEOREM WalksSelectTheList == PickerSpec => ListedAreSelected
<1>1. PickerInit => PickerInv
  BY PickerInitInv
<1>2. PickerInv /\ [PickerNext]_pickerVars => PickerInv'
  BY PickerStep
<1>3. PickerInv /\ [PickerNext]_pickerVars =>
         [selectingAllKey # NoFilter /\ selectingAllKey' = NoFilter =>
             accumulated'.data \subseteq selected' \cup takenBack]_pickerVars
  BY WalkEnds
<1>4. QED
  BY <1>1, <1>2, <1>3, PTL DEF PickerSpec, ListedAreSelected

-------------------------------------------------------------------------------
(***************************************************************************)
(* The list of students                                                    *)
(***************************************************************************)

ListTypes ==
    /\ statusOf \in [Pupils -> Statuses \cup {"absent"}] /\ changed \in SUBSET Pupils
    /\ filter \in Filters /\ listCursor \in Cursors /\ listNext \in Cursors
    /\ listed \in RowSets /\ DOMAIN answers \in SUBSET Keys /\ leftAsked \in SUBSET Keys
    /\ \A k \in DOMAIN answers : answers[k].next \in Cursors /\ answers[k].rows \in RowSets

DialogTypes ==
    /\ registration \in [open : BOOLEAN, form : {"empty", "complete"},
                         result : BOOLEAN, pending : BOOLEAN]
    /\ reissue \in [target : Cursors, result : Cursors, pending : Cursors]
    /\ setPassword \in [target : Cursors, typed : {"empty", "mismatch", "match"},
                        pending : Cursors]

\* A page holds every student its filter matches from its cursor on to the next
\* one, but for those that have changed.
Holds(rows, f, c, next) ==
    \A p \in Matching(f) \ changed : c < p /\ (next = 0 \/ p <= next) => p \in DOMAIN rows

PagesHold ==
    \A k \in DOMAIN answers : Holds(answers[k].rows, k[1], k[2], answers[k].next)

\* So does the list, up to the page asked for and, once it is there, to its end;
\* that page is never one that was left behind, whose answer the list ignores.
ListHolds ==
    /\ \A p \in Matching(filter) \ changed : p <= listCursor => p \in DOMAIN listed
    /\ Key \in DOMAIN answers => Holds(listed, filter, listCursor, listNext)
    /\ Key \notin leftAsked

StudentsInv == ListTypes /\ DialogTypes /\ PagesHold /\ ListHolds

LEMMA PupilsAreNumbers ==
    /\ Pupils \in SUBSET Nat /\ 0 \notin Pupils /\ IsFiniteSet(Pupils)
    /\ Cursors \in SUBSET Nat /\ 0 \in Cursors /\ Pupils \subseteq Cursors
BY StudentsConstants DEF Cursors

LEMMA RowSetsAre ==
    /\ \A r \in RowSets : DOMAIN r \in SUBSET Pupils /\ Range(r) \subseteq Statuses
    /\ \A S \in SUBSET Pupils : [S -> Statuses] \subseteq RowSets
BY DEF RowSets, Range

LEMMA StudentsInvTypes == ASSUME StudentsInv PROVE StudentsTypeOK
BY RowSetsAre DEF StudentsInv, ListTypes, DialogTypes, StudentsTypeOK

LEMMA PageHolds ==
    ASSUME ListTypes, NEW f \in Filters, NEW c \in Cursors
    PROVE  /\ Page(f, c).rows \in RowSets /\ Page(f, c).next \in Cursors
           /\ Holds(Page(f, c).rows, f, c, Page(f, c).next)
<1> DEFINE after == {p \in Matching(f) : p > c}
           before(p) == {q \in after : q < p}
           ids == {p \in after : Cardinality(before(p)) < RowsPerPage}
           greatest == CHOOSE p \in ids : \A q \in ids : q <= p
<1>1. Page(f, c) = [rows |-> [p \in ids |-> statusOf[p]], next |-> IF ids = after THEN 0 ELSE greatest]
  BY DEF Page
<1>2. /\ Matching(f) \in SUBSET Pupils /\ c \in Nat /\ RowsPerPage \in Nat \ {0}
      /\ after \in SUBSET Pupils /\ ids \in SUBSET after /\ after \in SUBSET Nat
  BY StudentsConstants, PupilsAreNumbers DEF Matching
<1>3. IsFiniteSet(after) /\ IsFiniteSet(ids)
  BY <1>2, PupilsAreNumbers, FS_Subset
<1>4. \A p \in ids : statusOf[p] \in Statuses
  BY <1>2 DEF Matching, Statuses
<1>5. ASSUME NEW p \in after PROVE IsFiniteSet(before(p)) /\ Cardinality(before(p)) \in Nat
  BY <1>3, FS_Subset, FS_CardinalityType
<1>6. ids # after => greatest \in ids /\ \A q \in ids : q <= greatest
  <2>1. SUFFICES ASSUME ids # after PROVE \E p \in ids : \A q \in ids : q <= p
    OBVIOUS
  <2>2. after # {}
    BY <1>2, <2>1
  <2>3. PICK least \in after : \A y \in after : least <= y
    BY <1>2, <2>2, LeastOf
  <2>4. before(least) = {}
    BY <1>2, <2>3
  <2>5. least \in ids
    BY <1>2, <2>4, FS_EmptySet
  <2>6. ids \in SUBSET Nat /\ ids # {}
    BY <1>2, <2>5
  <2> HIDE DEF ids
  <2>7. QED
    BY <1>3, <2>6, GreatestOf
<1>7. ASSUME NEW p \in after, NEW last \in ids, p <= last PROVE p \in ids
  <2>1. before(p) \in SUBSET before(last)
    BY <1>2, <1>7
  <2>2. Cardinality(before(p)) <= Cardinality(before(last))
    BY <1>2, <1>5, <2>1, FS_Subset
  <2>3. Cardinality(before(last)) < RowsPerPage
    BY <1>7
  <2>4. Cardinality(before(p)) \in Nat /\ Cardinality(before(last)) \in Nat
    BY <1>2, <1>5
  <2>5. Cardinality(before(p)) < RowsPerPage
    BY <1>2, <2>2, <2>3, <2>4
  <2>6. QED
    BY <2>5
<1>8. Page(f, c).rows \in RowSets /\ DOMAIN Page(f, c).rows = ids
  <2>1. [p \in ids |-> statusOf[p]] \in [ids -> Statuses]
    BY <1>4
  <2>2. ids \in SUBSET Pupils
    BY <1>2
  <2> HIDE DEF ids
  <2>3. QED
    BY <1>1, <2>1, <2>2, RowSetsAre
<1>9. Page(f, c).next = (IF ids = after THEN 0 ELSE greatest)
  BY <1>1
<1>10. Page(f, c).next \in Cursors
  BY <1>2, <1>6, <1>9, PupilsAreNumbers
<1>11. ASSUME NEW p \in Matching(f), c < p, Page(f, c).next = 0 \/ p <= Page(f, c).next PROVE p \in ids
  <2>1. p \in after
    BY <1>2, <1>11, PupilsAreNumbers
  <2>2. CASE ids = after
    BY <2>1, <2>2
  <2>3. CASE ids # after
    <3>1. greatest \in ids /\ greatest # 0
      BY <1>2, <1>6, <2>3, PupilsAreNumbers
    <3>2. p <= greatest
      BY <1>9, <1>11, <2>3, <3>1
    <3> HIDE DEF greatest, ids, after
    <3>3. QED
      BY <1>7, <2>1, <3>1, <3>2
  <2>4. QED
    BY <2>2, <2>3
<1>12. QED
  BY <1>8, <1>10, <1>11 DEF Holds

LEMMA StudentsInitInv == ASSUME StudentsInit PROVE StudentsInv
<1> USE PupilsAreNumbers
<1>1. statusOf \in [Pupils -> Statuses \cup {"absent"}]
  BY DEF StudentsInit, Statuses
<1>2. listed \in RowSets
  <2>1. listed \in [{} -> Statuses]
    BY DEF StudentsInit, NoRows
  <2>2. QED
    BY <2>1, RowSetsAre
<1>3. DOMAIN answers = {}
  BY DEF StudentsInit
<1>4. ListTypes
  BY <1>1, <1>2, <1>3 DEF StudentsInit, ListTypes, Filters
<1>5. DialogTypes
  BY DEF StudentsInit, DialogTypes, NoRegistration, NoReissue, NoPassword, None
<1>6. PagesHold
  BY <1>3 DEF PagesHold
<1>7. ListHolds
  <2>1. \A p \in Matching(filter) : ~ (p <= listCursor)
    BY DEF StudentsInit, Matching
  <2>2. QED
    BY <1>3, <2>1 DEF StudentsInit, ListHolds
<1>8. QED
  BY <1>4, <1>5, <1>6, <1>7 DEF StudentsInv

\* The list is the same under a change of students: one that changed is no
\* longer promised.
LEMMA ServerKeeps ==
    ASSUME StudentsInv, UNCHANGED listVars, DialogTypes',
           \/ UNCHANGED <<statusOf, changed>>
           \/ \E p \in Pupils : \E status \in Statuses : ServerChanges(p, status)
    PROVE  StudentsInv'
<1>1. /\ statusOf' \in [Pupils -> Statuses \cup {"absent"}] /\ changed' \in SUBSET Pupils
      /\ changed \subseteq changed' /\ \A p \in Pupils \ changed' : statusOf'[p] = statusOf[p]
  BY DEF StudentsInv, ListTypes, ServerChanges
<1>2. \A f : Matching(f)' \ changed' \subseteq Matching(f) \ changed
  BY <1>1 DEF Matching
<1>3. UNCHANGED <<filter, listCursor, listNext, listed, answers, leftAsked>> /\ Key' = Key
  BY DEF listVars, Key
<1>4. ListTypes'
  BY <1>1, <1>3 DEF StudentsInv, ListTypes
<1>5. PagesHold'
  BY <1>2, <1>3 DEF StudentsInv, PagesHold, Holds
<1>6. ListHolds'
  BY <1>2, <1>3 DEF StudentsInv, ListHolds, Holds
<1>7. QED
  BY <1>4, <1>5, <1>6 DEF StudentsInv

\* A new answer for a key, whichever it is, holds what it should.
LEMMA AnswerHolds ==
    ASSUME StudentsInv, NEW key \in Keys, UNCHANGED <<statusOf, changed>>,
           answers' = [k \in DOMAIN answers \cup {key} |->
                          IF k = key THEN Page(key[1], key[2]) ELSE answers[k]]
    PROVE  /\ DOMAIN answers' = DOMAIN answers \cup {key} /\ DOMAIN answers' \in SUBSET Keys
           /\ \A k \in DOMAIN answers' : answers'[k].next \in Cursors /\ answers'[k].rows \in RowSets
           /\ PagesHold'
<1>1. key[1] \in Filters /\ key[2] \in Cursors
  BY DEF Keys
<1>2. /\ Page(key[1], key[2]).rows \in RowSets /\ Page(key[1], key[2]).next \in Cursors
      /\ Holds(Page(key[1], key[2]).rows, key[1], key[2], Page(key[1], key[2]).next)
  BY <1>1, PageHolds DEF StudentsInv
<1>3. DOMAIN answers' = DOMAIN answers \cup {key}
  OBVIOUS
<1>4. answers'[key] = Page(key[1], key[2]) /\ \A k \in DOMAIN answers' : k # key => answers'[k] = answers[k]
  OBVIOUS
<1>5. \A f : Matching(f)' = Matching(f)
  BY DEF Matching
<1>6. ASSUME NEW k \in DOMAIN answers' PROVE Holds(answers[k].rows, k[1], k[2], answers[k].next)'
  <2>1. CASE k = key
    BY <1>2, <1>4, <1>5, <2>1 DEF Holds
  <2>2. CASE k # key
    <3>1. Holds(answers[k].rows, k[1], k[2], answers[k].next)
      BY <1>3, <1>6, <2>2 DEF StudentsInv, PagesHold
    <3>2. QED
      BY <1>4, <1>5, <2>2, <3>1 DEF Holds
  <2>3. QED
    BY <2>1, <2>2
<1>7. QED
  BY <1>2, <1>3, <1>4, <1>6 DEF PagesHold, StudentsInv, ListTypes

\* The list after an answer, or after a page from the cache.
LEMMA TakenHolds ==
    ASSUME NEW rows \in RowSets, NEW next, NEW shown \in RowSets, NEW c \in Cursors
    PROVE  LET taken == Taken([rows |-> rows, next |-> next], c, shown)
           IN  /\ taken \in RowSets /\ DOMAIN rows \subseteq DOMAIN taken
               /\ c # 0 => DOMAIN shown \subseteq DOMAIN taken
<1> DEFINE both == [p \in DOMAIN shown \cup DOMAIN rows |->
                       IF p \in DOMAIN shown THEN shown[p] ELSE rows[p]]
<1>1. both \in [DOMAIN shown \cup DOMAIN rows -> Statuses] /\ DOMAIN shown \cup DOMAIN rows \in SUBSET Pupils
  BY RowSetsAre DEF Range
<1>2. both \in RowSets
  BY <1>1, RowSetsAre
<1>3. QED
  BY <1>2 DEF Taken

LEMMA AnswerKeeps == ASSUME StudentsInv, Answer PROVE StudentsInv'
<1> DEFINE page == Page(filter, listCursor)
<1>1. filter \in Filters /\ listCursor \in Cursors /\ listed \in RowSets /\ Key \in Keys
      /\ Key[1] = filter /\ Key[2] = listCursor
  BY DEF StudentsInv, ListTypes, Key, Keys
<1>2. /\ answers' = [k \in DOMAIN answers \cup {Key} |-> IF k = Key THEN page ELSE answers[k]]
      /\ listed' = Taken(page, listCursor, listed) /\ listNext' = page.next
      /\ UNCHANGED <<statusOf, changed, filter, listCursor, leftAsked, dialogVars>>
  BY DEF Answer
<1>3. /\ DOMAIN answers' = DOMAIN answers \cup {Key} /\ DOMAIN answers' \in SUBSET Keys
      /\ \A k \in DOMAIN answers' : answers'[k].next \in Cursors /\ answers'[k].rows \in RowSets
      /\ PagesHold'
  BY <1>1, <1>2, AnswerHolds
<1>4. page.rows \in RowSets /\ page.next \in Cursors /\ Holds(page.rows, filter, listCursor, page.next)
  BY <1>1, PageHolds DEF StudentsInv
<1>5. page = [rows |-> page.rows, next |-> page.next]
  BY DEF Page
<1> HIDE DEF page
<1>6. /\ listed' \in RowSets /\ DOMAIN page.rows \subseteq DOMAIN listed'
      /\ listCursor # 0 => DOMAIN listed \subseteq DOMAIN listed'
  BY <1>1, <1>2, <1>4, <1>5, TakenHolds
<1>7. ListTypes'
  BY <1>2, <1>3, <1>4, <1>6 DEF StudentsInv, ListTypes
<1>8. ListHolds'
  <2>1. Matching(filter)' \ changed' = Matching(filter) \ changed /\ Key' = Key
    BY <1>2 DEF Matching, Key
  <2>2. ASSUME NEW p \in Matching(filter) \ changed, p <= listCursor PROVE p \in DOMAIN listed'
    <3>1. p \in Nat /\ p # 0 /\ listCursor \in Nat
      BY <1>1, PupilsAreNumbers DEF Matching
    <3>2. listCursor # 0
      BY <2>2, <3>1
    <3>3. p \in DOMAIN listed
      BY <2>2 DEF StudentsInv, ListHolds
    <3>4. QED
      BY <1>6, <3>2, <3>3
  <2>3. Holds(listed, filter, listCursor, listNext)'
    BY <1>2, <1>4, <1>6, <2>1 DEF Holds
  <2>4. Key \notin leftAsked
    BY DEF StudentsInv, ListHolds
  <2>5. QED
    BY <1>2, <2>1, <2>2, <2>3, <2>4 DEF ListHolds
<1>9. DialogTypes'
  BY <1>2 DEF StudentsInv, DialogTypes, dialogVars
<1>10. QED
  BY <1>3, <1>7, <1>8, <1>9 DEF StudentsInv

LEMMA LateAnswerKeeps == ASSUME StudentsInv, LateAnswer PROVE StudentsInv'
<1>1. PICK key \in leftAsked :
         /\ answers' = [k \in DOMAIN answers \cup {key} |->
                           IF k = key THEN Page(key[1], key[2]) ELSE answers[k]]
         /\ leftAsked' = leftAsked \ {key}
  BY DEF LateAnswer
<1>2. UNCHANGED <<statusOf, changed, filter, listCursor, listNext, listed, dialogVars>>
  BY DEF LateAnswer
<1>3. key \in Keys /\ key # Key
  BY DEF StudentsInv, ListTypes, ListHolds
<1>4. /\ DOMAIN answers' = DOMAIN answers \cup {key} /\ DOMAIN answers' \in SUBSET Keys
      /\ \A k \in DOMAIN answers' : answers'[k].next \in Cursors /\ answers'[k].rows \in RowSets
      /\ PagesHold'
  BY <1>1, <1>2, <1>3, AnswerHolds
<1>5. ListTypes'
  BY <1>1, <1>2, <1>4 DEF StudentsInv, ListTypes
<1>6. ListHolds'
  <2>1. Matching(filter)' = Matching(filter) /\ Key' = Key /\ (Key \in DOMAIN answers' <=> Key \in DOMAIN answers)
    BY <1>2, <1>3, <1>4 DEF Matching, Key
  <2>2. QED
    BY <1>1, <1>2, <2>1 DEF StudentsInv, ListHolds, Holds
<1>7. DialogTypes'
  BY <1>2 DEF StudentsInv, DialogTypes, dialogVars
<1>8. QED
  BY <1>4, <1>5, <1>6, <1>7 DEF StudentsInv

LEMMA LoadMoreKeeps == ASSUME StudentsInv, LoadMore PROVE StudentsInv'
<1> DEFINE k == <<filter, listNext>>
<1>1. /\ listNext # 0 /\ Key \in DOMAIN answers /\ listCursor' = listNext
      /\ leftAsked' = leftAsked \ {k}
      /\ UNCHANGED <<statusOf, changed, filter, answers, dialogVars>>
      /\ k \in DOMAIN answers => listed' = Taken(answers[k], listNext, listed) /\ listNext' = answers[k].next
      /\ k \notin DOMAIN answers => UNCHANGED <<listed, listNext>>
  BY DEF LoadMore
<1>2. /\ listNext \in Cursors /\ listNext \in Nat /\ listCursor \in Nat /\ listed \in RowSets /\ Key' = k
      /\ k[1] = filter /\ k[2] = listNext
  BY <1>1, PupilsAreNumbers DEF StudentsInv, ListTypes, Key
<1> HIDE DEF k
<1>3. Matching(filter)' \ changed' = Matching(filter) \ changed /\ \A f : Matching(f)' = Matching(f)
  BY <1>1 DEF Matching
<1>4. ASSUME NEW p \in Matching(filter) \ changed, p <= listNext PROVE p \in DOMAIN listed
  <2>1. p \in Nat
    BY PupilsAreNumbers DEF Matching
  <2>2. p <= listCursor \/ listCursor < p
    BY <1>2, <2>1
  <2>3. QED
    BY <1>1, <1>4, <2>2 DEF StudentsInv, ListHolds, Holds
<1>5. CASE k \in DOMAIN answers
  <2> DEFINE rows == answers[k].rows
             next == answers[k].next
  <2>1. rows \in RowSets /\ next \in Cursors /\ Holds(rows, filter, listNext, next)
    BY <1>2, <1>5 DEF StudentsInv, ListTypes, PagesHold
  <2>2. Taken(answers[k], listNext, listed) = Taken([rows |-> rows, next |-> next], listNext, listed)
    BY <1>1 DEF Taken
  <2>3. listed' \in RowSets /\ DOMAIN rows \subseteq DOMAIN listed' /\ DOMAIN listed \subseteq DOMAIN listed'
    BY <1>1, <1>2, <1>5, <2>1, <2>2, TakenHolds
  <2>4. Holds(listed, filter, listCursor, listNext)'
    BY <1>1, <1>3, <1>5, <2>1, <2>3 DEF Holds
  <2>5. ListTypes'
    BY <1>1, <1>2, <1>5, <2>1, <2>3 DEF StudentsInv, ListTypes
  <2>6. ListHolds'
    BY <1>1, <1>2, <1>3, <1>4, <2>3, <2>4 DEF ListHolds
  <2>7. PagesHold'
    BY <1>1, <1>3 DEF StudentsInv, PagesHold, Holds
  <2>8. QED
    BY <1>1, <2>5, <2>6, <2>7 DEF StudentsInv, DialogTypes, dialogVars
<1>6. CASE k \notin DOMAIN answers
  <2>1. ListTypes'
    BY <1>1, <1>2, <1>6 DEF StudentsInv, ListTypes
  <2>2. ListHolds'
    BY <1>1, <1>2, <1>3, <1>4, <1>6 DEF ListHolds
  <2>3. PagesHold'
    BY <1>1, <1>3 DEF StudentsInv, PagesHold, Holds
  <2>4. QED
    BY <1>1, <2>1, <2>2, <2>3 DEF StudentsInv, DialogTypes, dialogVars
<1>7. QED
  BY <1>5, <1>6

LEMMA ChangeFilterKeeps == ASSUME StudentsInv, NEW f \in Filters, ChangeFilter(f) PROVE StudentsInv'
<1> DEFINE passing == <<f, listCursor>>
           first == <<f, 0>>
           show == IF first \in DOMAIN answers THEN answers[first]
                   ELSE IF passing \in DOMAIN answers THEN answers[passing]
                   ELSE [rows |-> NoRows, next |-> 0]
<1>1. /\ filter' = f /\ listCursor' = 0 /\ listed' = show.rows /\ listNext' = show.next
      /\ leftAsked' = (leftAsked \cup ({Key, passing} \ DOMAIN answers)) \ {first}
      /\ UNCHANGED <<statusOf, changed, answers, dialogVars>>
  BY DEF ChangeFilter
<1>2. Key \in Keys /\ passing \in Keys /\ Key' = first
  BY <1>1, PupilsAreNumbers DEF StudentsInv, ListTypes, Key, Keys
<1>3. NoRows \in RowSets
  <2>1. NoRows \in [{} -> Statuses]
    BY DEF NoRows
  <2>2. QED
    BY <2>1, RowSetsAre
<1>4. show.rows \in RowSets /\ show.next \in Cursors
  BY <1>3, PupilsAreNumbers DEF StudentsInv, ListTypes
<1>5. first \in DOMAIN answers => Holds(show.rows, f, 0, show.next)
  <2>1. first[1] = f /\ first[2] = 0
    OBVIOUS
  <2>2. QED
    BY <2>1 DEF StudentsInv, PagesHold
<1> HIDE DEF show, passing, first
<1>6. ListTypes'
  <2>1. leftAsked' \in SUBSET Keys
    BY <1>1, <1>2 DEF StudentsInv, ListTypes
  <2>2. QED
    BY <1>1, <1>4, <2>1, PupilsAreNumbers DEF StudentsInv, ListTypes
<1>7. \A g : Matching(g)' = Matching(g)
  BY <1>1 DEF Matching
<1>8. PagesHold'
  BY <1>1, <1>7 DEF StudentsInv, PagesHold, Holds
<1>9. ListHolds'
  <2>1. \A p \in Matching(f) : ~ (p <= 0)
    BY PupilsAreNumbers DEF Matching
  <2>2. first \in DOMAIN answers' => Holds(listed, filter, listCursor, listNext)'
    BY <1>1, <1>5, <1>7 DEF Holds
  <2>3. QED
    BY <1>1, <1>2, <1>7, <2>1, <2>2 DEF ListHolds
<1>10. QED
  BY <1>1, <1>6, <1>8, <1>9 DEF StudentsInv, DialogTypes, dialogVars

\* Nothing in the dialogs touches the list; what they have done changes students.
LEMMA StudentDialogKeeps ==
    ASSUME StudentsInv,
           \/ \E p \in Pupils : ToggleStatus(p) \/ Registered(p) \/ OpenReissue(p) \/ OpenSetPassword(p)
           \/ OpenRegister \/ EditRegister \/ Register \/ CloseRegister
           \/ Reissue \/ Reissued \/ CloseReissue
           \/ \E typing \in {"mismatch", "match"} : TypePasswords(typing)
           \/ SetPassword \/ PasswordSet \/ CloseSetPassword \/ DialogRefused
    PROVE  StudentsInv'
<1> DEFINE Still == UNCHANGED listVars /\ UNCHANGED <<statusOf, changed>>
           Moved == UNCHANGED listVars /\ \E p \in Pupils : \E status \in Statuses : ServerChanges(p, status)
<1>1. DialogTypes /\ None \in Cursors /\ Pupils \subseteq Cursors
  BY PupilsAreNumbers DEF StudentsInv, None
<1>2. ASSUME NEW p \in Pupils, ToggleStatus(p) PROVE Moved /\ DialogTypes'
  BY <1>1, <1>2 DEF ToggleStatus, Statuses, DialogTypes, dialogVars
<1>3. ASSUME NEW p \in Pupils, Registered(p) PROVE Moved /\ DialogTypes'
  BY <1>1, <1>3 DEF Registered, Statuses, DialogTypes
<1>4. ASSUME NEW p \in Pupils, OpenReissue(p) \/ OpenSetPassword(p) PROVE Still /\ DialogTypes'
  BY <1>1, <1>4 DEF OpenReissue, OpenSetPassword, DialogTypes
<1>5. ASSUME OpenRegister \/ EditRegister \/ Register \/ CloseRegister
      PROVE  Still /\ DialogTypes'
  <2>1. Still /\ UNCHANGED <<reissue, setPassword>>
    BY <1>5 DEF OpenRegister, EditRegister, Register, CloseRegister
  <2>2. registration' \in [open : BOOLEAN, form : {"empty", "complete"}, result : BOOLEAN, pending : BOOLEAN]
    BY <1>1, <1>5 DEF OpenRegister, EditRegister, Register, CloseRegister, NoRegistration, DialogTypes
  <2>3. QED
    BY <1>1, <2>1, <2>2 DEF DialogTypes
<1>6. ASSUME Reissue \/ Reissued \/ CloseReissue
      PROVE  Still /\ DialogTypes'
  <2>1. Still /\ UNCHANGED <<registration, setPassword>>
    BY <1>6 DEF Reissue, Reissued, CloseReissue
  <2>2. reissue' \in [target : Cursors, result : Cursors, pending : Cursors]
    BY <1>1, <1>6 DEF Reissue, Reissued, CloseReissue, NoReissue, DialogTypes
  <2>3. QED
    BY <1>1, <2>1, <2>2 DEF DialogTypes
<1>7. ASSUME SetPassword \/ PasswordSet \/ CloseSetPassword \/ \E typing \in {"mismatch", "match"} : TypePasswords(typing)
      PROVE  Still /\ DialogTypes'
  <2>1. Still /\ UNCHANGED <<registration, reissue>>
    BY <1>7 DEF SetPassword, PasswordSet, CloseSetPassword, TypePasswords
  <2>2. setPassword' \in [target : Cursors, typed : {"empty", "mismatch", "match"}, pending : Cursors]
    BY <1>1, <1>7 DEF SetPassword, PasswordSet, CloseSetPassword, TypePasswords, NoPassword, DialogTypes
  <2>3. QED
    BY <1>1, <2>1, <2>2 DEF DialogTypes
<1>8. ASSUME DialogRefused
      PROVE  Still /\ DialogTypes'
  <2>1. Still
    BY <1>8 DEF DialogRefused
  <2>2. ASSUME registration' = [registration EXCEPT !.pending = FALSE] /\ UNCHANGED <<reissue, setPassword>>
        PROVE  DialogTypes'
    BY <1>1, <2>2 DEF DialogTypes
  <2>3. ASSUME reissue' = [reissue EXCEPT !.pending = None] /\ UNCHANGED <<registration, setPassword>>
        PROVE  DialogTypes'
    BY <1>1, <2>3 DEF DialogTypes
  <2>4. ASSUME setPassword' = [setPassword EXCEPT !.pending = None] /\ UNCHANGED <<registration, reissue>>
        PROVE  DialogTypes'
    BY <1>1, <2>4 DEF DialogTypes
  <2>5. DialogTypes'
    BY <1>8, <2>2, <2>3, <2>4 DEF DialogRefused
  <2>6. QED
    BY <2>1, <2>5
<1>9. ASSUME Still \/ Moved, DialogTypes' PROVE StudentsInv'
  BY <1>9, ServerKeeps
<1> HIDE DEF Still, Moved
<1>10. QED
  BY <1>2, <1>3, <1>4, <1>5, <1>6, <1>7, <1>8, <1>9

LEMMA StudentsStep == ASSUME StudentsInv, [StudentsNext]_studentVars PROVE StudentsInv'
<1>1. CASE UNCHANGED studentVars
  <2>1. UNCHANGED listVars /\ UNCHANGED <<statusOf, changed>> /\ UNCHANGED dialogVars
    BY <1>1 DEF studentVars, listVars, dialogVars
  <2>2. DialogTypes'
    BY <2>1 DEF StudentsInv, DialogTypes, dialogVars
  <2>3. QED
    BY <2>1, <2>2, ServerKeeps
<1>2. QED
  BY <1>1, AnswerKeeps, LateAnswerKeeps, LoadMoreKeeps, ChangeFilterKeeps, StudentDialogKeeps DEF StudentsNext

LEMMA NobodyIsSkipped == ASSUME StudentsInv PROVE NoneSkipped
<1>1. SUFFICES ASSUME Key \in DOMAIN answers, NEW p \in Matching(filter) \ changed,
                      listNext = 0 \/ p <= listNext
               PROVE  p \in DOMAIN listed
  BY DEF NoneSkipped
<1>2. p \in Nat /\ listCursor \in Nat
  BY PupilsAreNumbers DEF Matching, StudentsInv, ListTypes
<1>3. p <= listCursor \/ listCursor < p
  BY <1>2
<1>4. QED
  BY <1>1, <1>3 DEF StudentsInv, ListHolds, Holds

\* The types of the students page, for any set of students and length of a page.
THEOREM StudentsTypesHold == StudentsSpec => []StudentsTypeOK
<1>1. StudentsInit => StudentsInv
  BY StudentsInitInv
<1>2. StudentsInv /\ [StudentsNext]_studentVars => StudentsInv'
  BY StudentsStep
<1>3. StudentsInv => StudentsTypeOK
  BY StudentsInvTypes
<1>4. QED
  BY <1>1, <1>2, <1>3, PTL DEF StudentsSpec

\* Whatever filters were chosen while answers were on their way, the list that
\* is there holds every student it should, as far as it was loaded.
THEOREM NobodySkipped == StudentsSpec => []NoneSkipped
<1>1. StudentsInit => StudentsInv
  BY StudentsInitInv
<1>2. StudentsInv /\ [StudentsNext]_studentVars => StudentsInv'
  BY StudentsStep
<1>3. StudentsInv => NoneSkipped
  BY NobodyIsSkipped
<1>4. QED
  BY <1>1, <1>2, <1>3, PTL DEF StudentsSpec

-------------------------------------------------------------------------------
(***************************************************************************)
(* The question editor                                                     *)
(***************************************************************************)

LEMMA RowBound == MaxRows \in Nat /\ MaxRows >= 2 /\ RowIds = 1..(3 * MaxRows) /\ RowIds \in SUBSET Nat /\ 0 \notin RowIds
BY QuestionConstants DEF RowIds

\* Sequences of at most MaxRows elements.
Short(S) == {s \in Seq(S) : Len(s) <= MaxRows}

LEMMA ShortSeqs == ASSUME NEW S PROVE UNION {[1..k -> S] : k \in 0..MaxRows} = Short(S)
<1>1. ASSUME NEW k \in 0..MaxRows, NEW s \in [1..k -> S] PROVE s \in Short(S)
  <2>1. k \in Nat /\ k <= MaxRows
    BY RowBound
  <2>2. s \in Seq(S) /\ Len(s) = k
    BY <2>1
  <2>3. QED
    BY <2>1, <2>2 DEF Short
<1>2. ASSUME NEW s \in Short(S) PROVE \E k \in 0..MaxRows : s \in [1..k -> S]
  <2>1. s \in Seq(S) /\ Len(s) \in Nat /\ Len(s) <= MaxRows
    BY DEF Short
  <2>2. Len(s) \in 0..MaxRows /\ s \in [1..Len(s) -> S]
    BY <2>1, RowBound
  <2>3. QED
    BY <2>2
<1>3. QED
  BY <1>1, <1>2

LEMMA ShortHas ==
    ASSUME NEW S, NEW s \in Short(S)
    PROVE  /\ s \in Seq(S) /\ Len(s) \in Nat /\ Len(s) <= MaxRows /\ DOMAIN s = 1..Len(s)
           /\ \A k \in DOMAIN s : s[k] \in S
BY DEF Short

QuestionSet == [format : Formats, body : Short(BlankTokens), correct : SUBSET Options,
                blanks : Short(RowIds), statements : Short(BOOLEAN)]

LEMMA QuestionsAre == Questions = QuestionSet /\ Bodies = Short(BlankTokens) /\ NoQuestion \notin Questions
<1>1. Bodies = Short(BlankTokens)
  BY ShortSeqs DEF Bodies
<1>2. Questions = QuestionSet
  BY <1>1, ShortSeqs DEF Questions, QuestionSet
<1>3. "none" \notin Formats
  BY DEF Formats
<1>4. NoQuestion \notin Questions
  BY <1>2, <1>3 DEF QuestionSet, NoQuestion
<1>5. QED
  BY <1>1, <1>2, <1>4

LEMMA AppendFits ==
    ASSUME NEW S, NEW s \in Short(S), Len(s) < MaxRows, NEW x \in S
    PROVE  Append(s, x) \in Short(S)
BY RowBound DEF Short

\* A sequence without its k-th element.
LEMMA DroppedFits ==
    ASSUME NEW S, NEW s \in Short(S), NEW k \in DOMAIN s
    PROVE  /\ Dropped(s, k) \in Short(S) /\ Len(Dropped(s, k)) = Len(s) - 1
           /\ \A i \in 1..(Len(s) - 1) : Dropped(s, k)[i] = (IF i < k THEN s[i] ELSE s[i + 1])
<1>1. s \in Seq(S) /\ Len(s) \in Nat /\ Len(s) <= MaxRows /\ k \in 1..Len(s)
  BY DEF Short
<1> DEFINE front == SubSeq(s, 1, k - 1)
           back  == SubSeq(s, k + 1, Len(s))
<1>2. front \in Seq(S) /\ Len(front) = k - 1 /\ \A i \in 1..(k - 1) : front[i] = s[i]
  BY <1>1
<1>3. back \in Seq(S) /\ Len(back) = Len(s) - k /\ \A i \in 1..(Len(s) - k) : back[i] = s[k + i]
  BY <1>1
<1>4. Dropped(s, k) = front \o back
  BY DEF Dropped
<1> HIDE DEF front, back
<1>5. /\ Dropped(s, k) \in Seq(S) /\ Len(Dropped(s, k)) = Len(front) + Len(back)
      /\ \A i \in 1..Len(front) : Dropped(s, k)[i] = front[i]
      /\ \A i \in 1..(Len(front) + Len(back)) : ~ (i <= Len(front)) => Dropped(s, k)[i] = back[i - Len(front)]
  <2>1. front \o back \in Seq(S) /\ Len(front \o back) = Len(front) + Len(back)
    BY <1>2, <1>3, ConcatProperties
  <2>2. \A i \in 1..Len(front) : (front \o back)[i] = front[i]
    BY <1>2, <1>3
  <2>3. \A i \in 1..(Len(front) + Len(back)) : ~ (i <= Len(front)) => (front \o back)[i] = back[i - Len(front)]
    BY <1>1, <1>2, <1>3, ConcatProperties
  <2>4. QED
    BY <1>4, <2>1, <2>2, <2>3
<1>6. Len(Dropped(s, k)) = Len(s) - 1
  BY <1>1, <1>2, <1>3, <1>5
<1>7. ASSUME NEW i \in 1..(Len(s) - 1) PROVE Dropped(s, k)[i] = (IF i < k THEN s[i] ELSE s[i + 1])
  <2>1. i \in 1..(Len(front) + Len(back))
    BY <1>1, <1>2, <1>3
  <2>2. CASE i < k
    <3>1. i \in 1..Len(front) /\ i \in 1..(k - 1)
      BY <1>1, <1>2, <2>2
    <3>2. QED
      BY <1>2, <1>5, <2>1, <2>2, <3>1
  <2>3. CASE ~ (i < k)
    <3>1. i - Len(front) \in 1..(Len(s) - k) /\ k + (i - Len(front)) = i + 1 /\ ~ (i <= Len(front))
      BY <1>1, <1>2, <2>3
    <3>2. Dropped(s, k)[i] = back[i - Len(front)]
      BY <1>5, <2>1, <3>1
    <3>3. QED
      BY <1>3, <2>3, <3>1, <3>2
  <2>4. QED
    BY <2>2, <2>3
<1>8. Dropped(s, k) \in Short(S)
  <2>1. Len(s) - 1 <= MaxRows
    BY <1>1, RowBound
  <2>2. QED
    BY <1>5, <1>6, <2>1 DEF Short
<1>9. QED
  BY <1>6, <1>7, <1>8

LEMMA IntervalCounts == ASSUME NEW n \in Nat PROVE IsFiniteSet(1..n) /\ Cardinality(1..n) = n
<1>1. Cardinality(1..n) = (IF 1 > n THEN 0 ELSE n - 1 + 1) /\ IsFiniteSet(1..n)
  BY FS_Interval
<1>2. QED
  BY <1>1

\* The tokens left are tokens of the body, none of them with the number removed.
LEMMA WithoutFits ==
    ASSUME NEW body \in Short(BlankTokens), NEW n
    PROVE  /\ BodyWithout(body, n) \in Short(BlankTokens)
           /\ \A j \in DOMAIN BodyWithout(body, n) :
                 \E k \in DOMAIN body : BodyWithout(body, n)[j] = body[k] /\ body[k].n # n
<1> DEFINE others == {k \in DOMAIN body : body[k].n # n}
           upto(k) == {i \in others : i <= k}
           rank == [k \in others |-> Cardinality(upto(k))]
           many == Cardinality(others)
<1>1. /\ body \in Seq(BlankTokens) /\ Len(body) \in Nat /\ Len(body) <= MaxRows
      /\ DOMAIN body = 1..Len(body) /\ MaxRows \in Nat
  BY RowBound DEF Short
<1>2. IsFiniteSet(1..Len(body)) /\ Cardinality(1..Len(body)) = Len(body)
  BY <1>1, IntervalCounts
<1>3. others \in SUBSET (1..Len(body)) /\ IsFiniteSet(others) /\ many \in Nat /\ many <= Len(body)
  BY <1>1, <1>2, FS_Subset, FS_CardinalityType
<1>4. ASSUME NEW k \in others PROVE IsFiniteSet(upto(k)) /\ Cardinality(upto(k)) \in 1..many
  <2>1. upto(k) \in SUBSET others /\ k \in upto(k)
    BY <1>3
  <2>2. IsFiniteSet(upto(k)) /\ Cardinality(upto(k)) <= many /\ Cardinality(upto(k)) \in Nat
    BY <1>3, <2>1, FS_Subset, FS_CardinalityType
  <2>3. Cardinality(upto(k)) # 0
    BY <2>1, <2>2, FS_EmptySet
  <2>4. QED
    BY <1>3, <2>2, <2>3
<1>5. rank \in [others -> 1..many]
  BY <1>4
<1>6. ASSUME NEW k \in others, NEW l \in others, k < l PROVE rank[k] # rank[l]
  <2>1. upto(k) \in SUBSET upto(l) /\ l \in upto(l) /\ l \notin upto(k)
    BY <1>3, <1>6
  <2>2. QED
    BY <1>4, <2>1, FS_Subset
<1>7. \A k, l \in others : rank[k] = rank[l] => k = l
  <2>1. \A k, l \in others : k < l \/ l < k \/ k = l
    BY <1>3
  <2>2. QED
    BY <1>6, <2>1
<1>8. rank \in Injection(others, 1..many)
  BY <1>5, <1>7 DEF Injection, IsInjective
<1>9. rank \in Surjection(others, 1..many)
  <2>1. IsFiniteSet(1..many) /\ Cardinality(1..many) = many
    BY <1>3, IntervalCounts
  <2>2. QED
    BY <1>8, <2>1, FS_Injection
<1>10. ASSUME NEW j \in 1..many PROVE (CHOOSE k \in others : Cardinality(upto(k)) = j) \in others
  <2>1. \E k \in others : rank[k] = j
    BY <1>9 DEF Surjection
  <2>2. QED
    BY <2>1
<1>11. BodyWithout(body, n) = [j \in 1..many |-> body[CHOOSE k \in others : Cardinality(upto(k)) = j]]
  BY DEF BodyWithout
<1>12. \A k \in others : body[k] \in BlankTokens
  BY <1>1
<1> DEFINE at(j) == CHOOSE k \in others : Cardinality(upto(k)) = j
<1>13. \A j \in 1..many : at(j) \in others
  BY <1>10
<1>14. BodyWithout(body, n) = [j \in 1..many |-> body[at(j)]]
  BY <1>11
<1>15. \A k \in others : k \in DOMAIN body /\ body[k].n # n
  OBVIOUS
<1> HIDE DEF others, upto, many, at
<1>16. BodyWithout(body, n) \in [1..many -> BlankTokens]
  BY <1>12, <1>13, <1>14
<1>17. BodyWithout(body, n) \in Seq(BlankTokens) /\ Len(BodyWithout(body, n)) = many
  BY <1>3, <1>16
<1>18. BodyWithout(body, n) \in Short(BlankTokens)
  BY <1>1, <1>3, <1>17 DEF Short
<1>19. ASSUME NEW j \in DOMAIN BodyWithout(body, n)
       PROVE  \E k \in DOMAIN body : BodyWithout(body, n)[j] = body[k] /\ body[k].n # n
  <2>1. j \in 1..many /\ BodyWithout(body, n)[j] = body[at(j)]
    BY <1>14
  <2>2. QED
    BY <1>13, <1>15, <2>1
<1>20. QED
  BY <1>18, <1>19

\* There is a row number left as long as fewer than all are in use.
LEMMA RowLeft ==
    ASSUME NEW used, NEW m \in Nat, m < 3 * MaxRows, NEW val,
           \A x \in used : \E i \in 1..m : val[i] = x
    PROVE  NewRow(used) \in RowIds
<1>1. RowIds \ used # {}
  <2>1. SUFFICES ASSUME RowIds \subseteq used PROVE FALSE
    OBVIOUS
  <2> DEFINE index == [r \in RowIds |-> CHOOSE i \in 1..m : val[i] = r]
  <2>2. \A r \in RowIds : index[r] \in 1..m /\ val[index[r]] = r
    BY <2>1
  <2>3. index \in [RowIds -> 1..m]
    BY <2>2
  <2>4. 3 * MaxRows \in Nat
    BY RowBound
  <2>5. IsFiniteSet(RowIds) /\ Cardinality(RowIds) = 3 * MaxRows
    BY <2>4, IntervalCounts DEF RowIds
  <2>6. IsFiniteSet(1..m) /\ Cardinality(1..m) = m
    BY IntervalCounts
  <2>7. \E r, q \in RowIds : r # q /\ index[r] = index[q]
    <3> HIDE DEF index
    <3>1. Cardinality(1..m) < Cardinality(RowIds)
      BY <2>5, <2>6
    <3>2. QED
      BY <2>3, <2>5, <2>6, <3>1, FS_PigeonHole
  <2>8. QED
    BY <2>2, <2>7
<1>2. RowIds \ used \in SUBSET Nat
  BY RowBound
<1>3. \E r \in RowIds \ used : \A q \in RowIds \ used : r <= q
  BY <1>1, <1>2, LeastOf
<1>4. QED
  BY <1>3 DEF NewRow

LEMMA RowLeftInDraft ==
    ASSUME NEW d \in QuestionSet, NEW old \in Short(BlankTokens), NEW extra \in {{}} \cup {{r} : r \in RowIds},
           Len(d.blanks) + Len(d.body) + Len(old) < 3 * MaxRows - 1
    PROVE  NewRow(Used(d, old) \cup extra) \in RowIds
<1> DEFINE a == Len(d.blanks)
           b == Len(d.body)
           c == Len(old)
           m == a + b + c + 1
           val == [i \in 1..m |-> IF i <= a THEN d.blanks[i] ELSE IF i <= a + b THEN d.body[i - a].of
                                  ELSE IF i <= a + b + c THEN old[i - a - b].of ELSE CHOOSE r : r \in extra]
<1>1. /\ a \in Nat /\ DOMAIN d.blanks = 1..a /\ b \in Nat /\ DOMAIN d.body = 1..b
      /\ c \in Nat /\ DOMAIN old = 1..c
  BY ShortHas DEF QuestionSet
<1>2. /\ val = [i \in 1..m |-> IF i <= a THEN d.blanks[i] ELSE IF i <= a + b THEN d.body[i - a].of
                               ELSE IF i <= a + b + c THEN old[i - a - b].of ELSE CHOOSE r : r \in extra]
      /\ m = a + b + c + 1 /\ a + b + c < 3 * MaxRows - 1
  OBVIOUS
<1>3. /\ \A k \in DOMAIN d.blanks : k \in 1..a
      /\ \A k \in DOMAIN d.body : k \in 1..b
      /\ \A k \in DOMAIN old : k \in 1..c
      /\ \A x \in Used(d, old) : \/ \E k \in DOMAIN d.blanks : x = d.blanks[k]
                                 \/ \E k \in DOMAIN d.body : x = d.body[k].of
                                 \/ \E k \in DOMAIN old : x = old[k].of
  BY <1>1 DEF Used, InRange
<1> HIDE DEF a, b, c, m, val
<1>4. m \in Nat /\ m < 3 * MaxRows
  <2>1. 3 * MaxRows \in Nat
    BY RowBound
  <2>2. QED
    BY <1>1, <1>2, <2>1
<1>5. ASSUME NEW k \in 1..a PROVE \E i \in 1..m : val[i] = d.blanks[k]
  <2>1. k \in 1..m /\ k <= a
    BY <1>1, <1>2
  <2>2. QED
    BY <1>2, <2>1
<1>6. ASSUME NEW k \in 1..b PROVE \E i \in 1..m : val[i] = d.body[k].of
  <2>1. k + a \in 1..m /\ ~ (k + a <= a) /\ k + a <= a + b /\ (k + a) - a = k
    BY <1>1, <1>2
  <2>2. QED
    BY <1>2, <2>1
<1>7. ASSUME NEW k \in 1..c PROVE \E i \in 1..m : val[i] = old[k].of
  <2>1. k + a + b \in 1..m /\ ~ (k + a + b <= a) /\ ~ (k + a + b <= a + b) /\ k + a + b <= a + b + c
        /\ (k + a + b) - a - b = k
    BY <1>1, <1>2
  <2>2. QED
    BY <1>2, <2>1
<1>8. ASSUME NEW x \in extra PROVE \E i \in 1..m : val[i] = x
  <2>1. m \in 1..m /\ ~ (m <= a) /\ ~ (m <= a + b) /\ ~ (m <= a + b + c)
    BY <1>1, <1>2
  <2>2. val[m] = (CHOOSE r : r \in extra)
    BY <1>2, <2>1
  <2>3. extra = {x}
    BY <1>8
  <2>4. QED
    BY <2>1, <2>2, <2>3
<1>9. ASSUME NEW x \in Used(d, old) PROVE \E i \in 1..m : val[i] = x
  BY <1>3, <1>5, <1>6, <1>7
<1>10. \A x \in Used(d, old) \cup extra : \E i \in 1..m : val[i] = x
  BY <1>8, <1>9
<1>11. QED
  BY <1>4, <1>10, RowLeft

Joined(body, blanks) ==
    \A k \in DOMAIN body : body[k].of # 0 => body[k].n \in DOMAIN blanks /\ blanks[body[k].n] = body[k].of

LEMMA PairedIsJoined == ASSUME NEW d PROVE Paired(d) <=> Joined(d.body, d.blanks)
BY DEF Paired, RowOf, Joined

\* The question edited, the one kept, its copy and what is being saved each have
\* their rows with their blanks until an undo.
RowsFollow ==
    ~undone =>
        /\ Paired(draft) /\ Paired(question) /\ Paired(questionSeen)
        /\ questionSaving # NoQuestion => Paired(questionSaving)
        /\ leftSaving # NoQuestion => Paired(leftSaving)

QuestionTypes ==
    /\ question \in QuestionSet /\ questionSeen \in QuestionSet /\ draft \in QuestionSet
    /\ questionsDue \in BOOLEAN /\ editorOpen \in BOOLEAN /\ undone \in BOOLEAN /\ bodyUpload \in BOOLEAN
    /\ draftEdits \in 0..QuestionEdits /\ beforeEdit \in Short(BlankTokens)
    /\ questionSaving \in QuestionSet \cup {NoQuestion} /\ leftSaving \in QuestionSet \cup {NoQuestion}

QuestionInv == QuestionTypes /\ RowsFollow

LEMMA QuestionInvTypes == ASSUME QuestionInv PROVE QuestionTypeOK
BY QuestionsAre DEF QuestionInv, QuestionTypes, QuestionTypeOK

LEMMA FirstQuestionFits ==
    /\ FirstQuestion \in QuestionSet /\ Paired(FirstQuestion)
    /\ <<>> \in Short(BlankTokens) /\ <<FALSE, FALSE>> \in Short(BOOLEAN) /\ FirstQuestion.correct \subseteq Options
<1> DEFINE one == [n |-> 1, of |-> 1]
           two == [n |-> 2, of |-> 2]
<1>1. /\ 1 \in RowIds /\ 2 \in RowIds /\ 1 \in 1..MaxRows /\ 2 \in 1..MaxRows /\ 2 <= MaxRows /\ 0 <= MaxRows
  BY RowBound
<1>2. one \in BlankTokens /\ two \in BlankTokens
  BY <1>1 DEF BlankTokens
<1>3. <<one, two>> \in Seq(BlankTokens) /\ Len(<<one, two>>) = 2
  BY <1>2
<1>4. <<one, two>> \in Short(BlankTokens)
  BY <1>1, <1>3 DEF Short
<1>5. <<1, 2>> \in Short(RowIds)
  BY <1>1 DEF Short
<1>6. <<FALSE, FALSE>> \in Short(BOOLEAN)
  BY <1>1 DEF Short
<1>7. <<>> \in Short(BlankTokens)
  BY <1>1 DEF Short
<1>8. {CHOOSE o \in Options : TRUE} \in SUBSET Options
  BY QuestionConstants
<1>9. FirstQuestion = [format |-> "multi_blank", body |-> <<one, two>>, correct |-> {CHOOSE o \in Options : TRUE},
                       blanks |-> <<1, 2>>, statements |-> <<FALSE, FALSE>>]
  BY DEF FirstQuestion
<1>10. FirstQuestion \in QuestionSet /\ FirstQuestion.body = <<one, two>> /\ FirstQuestion.blanks = <<1, 2>>
       /\ FirstQuestion.correct = {CHOOSE o \in Options : TRUE}
  BY <1>4, <1>5, <1>6, <1>8, <1>9 DEF QuestionSet, Formats
<1>11. Joined(<<one, two>>, <<1, 2>>)
  BY DEF Joined
<1>12. QED
  BY <1>6, <1>7, <1>8, <1>10, <1>11, PairedIsJoined

LEMMA QuestionInitInv == ASSUME QuestionInit PROVE QuestionInv
<1>1. QuestionEdits \in Nat
  BY QuestionConstants
<1>2. QuestionTypes
  <2>1. question = FirstQuestion /\ questionSeen = FirstQuestion /\ draft = FirstQuestion /\ questionsDue = FALSE
        /\ editorOpen = FALSE /\ draftEdits = 0 /\ beforeEdit = <<>> /\ undone = FALSE
        /\ bodyUpload = FALSE /\ questionSaving = NoQuestion /\ leftSaving = NoQuestion
    BY DEF QuestionInit
  <2>2. 0 \in 0..QuestionEdits
    BY <1>1
  <2>3. QED
    BY <2>1, <2>2, FirstQuestionFits DEF QuestionTypes
<1>3. RowsFollow
  BY FirstQuestionFits DEF QuestionInit, RowsFollow
<1>4. QED
  BY <1>2, <1>3 DEF QuestionInv

LEMMA DraftHas ==
    ASSUME NEW d \in QuestionSet
    PROVE  /\ d.format \in Formats /\ d.body \in Short(BlankTokens) /\ d.correct \in SUBSET Options
           /\ d.blanks \in Short(RowIds) /\ d.statements \in Short(BOOLEAN)
           /\ d = [format |-> d.format, body |-> d.body, correct |-> d.correct,
                   blanks |-> d.blanks, statements |-> d.statements]
BY DEF QuestionSet

\* An edit, whichever it is, that pairs the new draft if the old one was.
LEMMA EditKeepsRows ==
    ASSUME QuestionInv, NEW d \in QuestionSet, EditTo(d), Paired(draft) => Paired(d)
    PROVE  QuestionInv'
<1>1. /\ draftEdits < QuestionEdits /\ draftEdits' = draftEdits + 1 /\ draft' = d
      /\ beforeEdit' = (IF d.body = draft.body THEN beforeEdit ELSE draft.body)
      /\ UNCHANGED <<question, questionSeen, questionsDue, editorOpen, undone, bodyUpload, questionSaving, leftSaving>>
  BY DEF EditTo, MayEdit
<1>2. draft.body \in Short(BlankTokens)
  BY DraftHas DEF QuestionInv, QuestionTypes
<1>3. draftEdits' \in 0..QuestionEdits
  <2>1. QuestionEdits \in Nat /\ draftEdits \in 0..QuestionEdits
    BY QuestionConstants DEF QuestionInv, QuestionTypes
  <2>2. QED
    BY <1>1, <2>1
<1>4. QuestionTypes'
  BY <1>1, <1>2, <1>3 DEF QuestionInv, QuestionTypes
<1>5. RowsFollow'
  BY <1>1 DEF QuestionInv, RowsFollow
<1>6. QED
  BY <1>4, <1>5 DEF QuestionInv

\* Other fields than body and rows do not matter to the pairs.
LEMMA OtherFieldsFit ==
    ASSUME NEW d \in QuestionSet
    PROVE  /\ \A f \in Formats : LET e == [d EXCEPT !.format = f] IN e \in QuestionSet /\ (Paired(d) => Paired(e))
           /\ \A c \in SUBSET Options : LET e == [d EXCEPT !.correct = c] IN e \in QuestionSet /\ (Paired(d) => Paired(e))
           /\ \A s \in Short(BOOLEAN) : LET e == [d EXCEPT !.statements = s] IN e \in QuestionSet /\ (Paired(d) => Paired(e))
<1>1. ASSUME NEW f \in Formats PROVE [d EXCEPT !.format = f] \in QuestionSet /\ (Paired(d) => Paired([d EXCEPT !.format = f]))
  <2>1. [d EXCEPT !.format = f] \in QuestionSet
    BY DEF QuestionSet
  <2>2. [d EXCEPT !.format = f].body = d.body /\ [d EXCEPT !.format = f].blanks = d.blanks
    BY DEF QuestionSet
  <2>3. QED
    BY <2>1, <2>2, PairedIsJoined
<1>2. ASSUME NEW c \in SUBSET Options
      PROVE  [d EXCEPT !.correct = c] \in QuestionSet /\ (Paired(d) => Paired([d EXCEPT !.correct = c]))
  <2>1. [d EXCEPT !.correct = c] \in QuestionSet
    BY DEF QuestionSet
  <2>2. [d EXCEPT !.correct = c].body = d.body /\ [d EXCEPT !.correct = c].blanks = d.blanks
    BY DEF QuestionSet
  <2>3. QED
    BY <2>1, <2>2, PairedIsJoined
<1>3. ASSUME NEW s \in Short(BOOLEAN)
      PROVE  [d EXCEPT !.statements = s] \in QuestionSet /\ (Paired(d) => Paired([d EXCEPT !.statements = s]))
  <2>1. [d EXCEPT !.statements = s] \in QuestionSet
    BY DEF QuestionSet
  <2>2. [d EXCEPT !.statements = s].body = d.body /\ [d EXCEPT !.statements = s].blanks = d.blanks
    BY DEF QuestionSet
  <2>3. QED
    BY <2>1, <2>2, PairedIsJoined
<1>4. QED
  BY <1>1, <1>2, <1>3

LEMMA BodyFits ==
    ASSUME NEW d \in QuestionSet, NEW body \in Short(BlankTokens)
    PROVE  /\ [d EXCEPT !.body = body] \in QuestionSet
           /\ Paired([d EXCEPT !.body = body]) <=> Joined(body, d.blanks)
<1>1. [d EXCEPT !.body = body] \in QuestionSet
      /\ [d EXCEPT !.body = body].body = body /\ [d EXCEPT !.body = body].blanks = d.blanks
  BY DEF QuestionSet
<1>2. QED
  BY <1>1, PairedIsJoined

LEMMA RowsFit ==
    ASSUME NEW d \in QuestionSet, NEW body \in Short(BlankTokens), NEW blanks \in Short(RowIds)
    PROVE  /\ [d EXCEPT !.blanks = blanks, !.body = body] \in QuestionSet
           /\ Paired([d EXCEPT !.blanks = blanks, !.body = body]) <=> Joined(body, blanks)
<1> DEFINE e == [d EXCEPT !.blanks = blanks, !.body = body]
<1>1. e \in QuestionSet /\ e.body = body /\ e.blanks = blanks
  BY DEF QuestionSet
<1>2. QED
  BY <1>1, PairedIsJoined

\* A body that loses a token still goes with its rows.
LEMMA TokenDropped ==
    ASSUME NEW body \in Short(BlankTokens), NEW k \in DOMAIN body, NEW blanks, Joined(body, blanks)
    PROVE  Dropped(body, k) \in Short(BlankTokens) /\ Joined(Dropped(body, k), blanks)
<1>1. /\ Dropped(body, k) \in Short(BlankTokens) /\ Len(Dropped(body, k)) = Len(body) - 1
      /\ \A i \in 1..(Len(body) - 1) : Dropped(body, k)[i] = (IF i < k THEN body[i] ELSE body[i + 1])
  BY DroppedFits
<1>2. Len(body) \in Nat /\ DOMAIN body = 1..Len(body) /\ DOMAIN Dropped(body, k) = 1..(Len(body) - 1)
  BY <1>1, ShortHas
<1>3. ASSUME NEW i \in 1..(Len(body) - 1) PROVE \E j \in DOMAIN body : Dropped(body, k)[i] = body[j]
  <2>1. i \in DOMAIN body /\ i + 1 \in DOMAIN body
    BY <1>2
  <2>2. QED
    BY <1>1, <2>1
<1>4. QED
  BY <1>1, <1>2, <1>3 DEF Joined

\* A row that goes takes its tokens with it, and the rows after it and their
\* tokens go down together.
LEMMA RowRemoved ==
    ASSUME NEW body \in Short(BlankTokens), NEW blanks \in Short(RowIds), NEW k \in DOMAIN blanks
    PROVE  /\ Dropped(blanks, k) \in Short(RowIds) /\ Renumbered(body, k) \in Short(BlankTokens)
           /\ Joined(body, blanks) => Joined(Renumbered(body, k), Dropped(blanks, k))
<1> DEFINE kept == BodyWithout(body, k)
           new == Renumbered(body, k)
           rows == Dropped(blanks, k)
<1>1. /\ rows \in Short(RowIds) /\ Len(rows) = Len(blanks) - 1
      /\ \A i \in 1..(Len(blanks) - 1) : rows[i] = (IF i < k THEN blanks[i] ELSE blanks[i + 1])
  BY DroppedFits
<1>2. Len(blanks) \in Nat /\ DOMAIN blanks = 1..Len(blanks) /\ DOMAIN rows = 1..(Len(blanks) - 1)
  BY <1>1, ShortHas
<1>3. /\ kept \in Short(BlankTokens) /\ \A j \in DOMAIN kept : kept[j] \in BlankTokens
      /\ DOMAIN kept = 1..Len(kept) /\ Len(kept) \in Nat /\ Len(kept) <= MaxRows
      /\ \A j \in DOMAIN kept : \E i \in DOMAIN body : kept[j] = body[i] /\ body[i].n # k
  BY WithoutFits, ShortHas
<1>4. new = [j \in DOMAIN kept |-> IF kept[j].n > k THEN [kept[j] EXCEPT !.n = @ - 1] ELSE kept[j]]
  BY DEF Renumbered
<1>5. k \in Nat /\ 1 <= k /\ k <= Len(blanks) /\ MaxRows \in Nat
  BY <1>2, RowBound
<1> HIDE DEF kept, new, rows
<1>6. ASSUME NEW j \in DOMAIN kept
      PROVE  /\ new[j] \in BlankTokens /\ new[j].of = kept[j].of
             /\ new[j].n = (IF kept[j].n > k THEN kept[j].n - 1 ELSE kept[j].n)
             /\ kept[j].n \in Nat /\ kept[j].n >= 1
  <2>1. kept[j] \in [n : 1..MaxRows, of : RowIds \cup {0}] /\ kept[j].n \in 1..MaxRows
    BY <1>3 DEF BlankTokens
  <2>2. kept[j].n > k => [kept[j] EXCEPT !.n = @ - 1] \in [n : 1..MaxRows, of : RowIds \cup {0}]
                          /\ [kept[j] EXCEPT !.n = @ - 1].n = kept[j].n - 1
                          /\ [kept[j] EXCEPT !.n = @ - 1].of = kept[j].of
    BY <1>5, <2>1
  <2>3. QED
    BY <1>4, <1>5, <2>1, <2>2 DEF BlankTokens
<1>7. new \in Short(BlankTokens) /\ DOMAIN new = DOMAIN kept
  <2>1. new \in [1..Len(kept) -> BlankTokens] /\ DOMAIN new = 1..Len(kept)
    BY <1>3, <1>4, <1>6
  <2>2. new \in Seq(BlankTokens) /\ Len(new) = Len(kept)
    BY <1>3, <2>1
  <2>3. QED
    BY <1>3, <2>1, <2>2 DEF Short
<1>8. ASSUME Joined(body, blanks), NEW j \in DOMAIN new, new[j].of # 0
      PROVE  new[j].n \in DOMAIN rows /\ rows[new[j].n] = new[j].of
  <2>1. j \in DOMAIN kept /\ kept[j].of # 0
    BY <1>6, <1>7, <1>8
  <2>2. kept[j].n \in 1..Len(blanks) /\ blanks[kept[j].n] = kept[j].of /\ kept[j].n # k
    BY <1>2, <1>3, <1>8, <2>1 DEF Joined
  <2>3. CASE kept[j].n > k
    <3>1. new[j].n = kept[j].n - 1 /\ new[j].n \in 1..(Len(blanks) - 1) /\ ~ (new[j].n < k)
          /\ new[j].n + 1 = kept[j].n
      BY <1>2, <1>5, <1>6, <2>1, <2>2, <2>3
    <3>2. QED
      BY <1>1, <1>2, <1>6, <2>1, <2>2, <3>1
  <2>4. CASE ~ (kept[j].n > k)
    <3>1. new[j].n = kept[j].n /\ new[j].n \in 1..(Len(blanks) - 1) /\ new[j].n < k
      BY <1>2, <1>5, <1>6, <2>1, <2>2, <2>4
    <3>2. QED
      BY <1>1, <1>2, <1>6, <2>1, <2>2, <3>1
  <2>5. QED
    BY <2>3, <2>4
<1>9. QED
  BY <1>1, <1>7, <1>8 DEF Joined, new, rows

\* A question shown with two empty rows has no token that was put in for a row.
LEMMA WithRowsFits ==
    ASSUME NEW d \in QuestionSet
    PROVE  /\ WithRows(d) \in QuestionSet /\ WithRows(d).body \in Short(BlankTokens)
           /\ Paired(d) => Paired(WithRows(d))
<1>1. d.body \in Short(BlankTokens) /\ d.blanks \in Short(RowIds)
  BY DraftHas
<1>2. CASE d.blanks # <<>>
  <2>1. WithRows(d) = d
    BY <1>2 DEF WithRows
  <2>2. QED
    BY <1>1, <2>1
<1>3. CASE d.blanks = <<>>
  <2> DEFINE r == NewRow(Used(d, <<>>))
             q == NewRow(Used(d, <<>>) \cup {r})
  <2>1. MaxRows \in Nat /\ MaxRows >= 2 /\ Len(d.body) \in Nat /\ Len(d.body) <= MaxRows /\ Len(d.blanks) = 0
    BY <1>1, <1>3, RowBound, ShortHas
  <2>2. <<>> \in Short(BlankTokens) /\ Len(<<>>) = 0
    BY FirstQuestionFits
  <2>3. Len(d.blanks) + Len(d.body) + Len(<<>>) < 3 * MaxRows - 1
    BY <2>1, <2>2
  <2>4. r \in RowIds
    <3>1. Used(d, <<>>) \cup {} = Used(d, <<>>) /\ {} \in {{}} \cup {{x} : x \in RowIds}
      OBVIOUS
    <3>2. NewRow(Used(d, <<>>) \cup {}) \in RowIds
      BY <2>2, <2>3, <3>1, RowLeftInDraft
    <3>3. QED
      BY <3>1, <3>2
  <2>5. q \in RowIds
    <3>1. {r} \in {{}} \cup {{x} : x \in RowIds}
      BY <2>4
    <3>2. QED
      BY <2>2, <2>3, <3>1, RowLeftInDraft
  <2>6. WithRows(d) = [d EXCEPT !.blanks = <<r, q>>]
    BY <1>3 DEF WithRows
  <2> HIDE DEF r, q
  <2>7. <<r, q>> \in Short(RowIds)
    BY <2>1, <2>4, <2>5 DEF Short
  <2>8. WithRows(d) \in QuestionSet /\ WithRows(d).body = d.body /\ WithRows(d).blanks = <<r, q>>
    BY <2>6, <2>7 DEF QuestionSet
  <2>9. Joined(d.body, d.blanks) => Joined(d.body, <<r, q>>)
    BY <1>3, PairedIsJoined DEF Joined
  <2>10. QED
    BY <1>1, <2>8, <2>9, PairedIsJoined
<1>4. QED
  BY <1>2, <1>3

\* What the server keeps of a question has its rows too.
LEMMA InputFits ==
    ASSUME NEW d \in QuestionSet
    PROVE  InputOf(d) \in QuestionSet /\ (Paired(d) => Paired(InputOf(d)))
<1> DEFINE cleared == [k \in DOMAIN d.body |-> [d.body[k] EXCEPT !.of = 0]]
           blanks == IF d.format = "multi_blank" THEN d.blanks ELSE <<>>
           body == IF d.format = "multi_blank" THEN d.body ELSE cleared
           correct == IF d.format \in {"mcq", "multi_answer"} THEN d.correct ELSE FirstQuestion.correct
           statements == IF d.format = "true_false" THEN d.statements ELSE <<FALSE, FALSE>>
<1>1. /\ d.format \in Formats /\ d.body \in Short(BlankTokens) /\ d.correct \in SUBSET Options
      /\ d.blanks \in Short(RowIds) /\ d.statements \in Short(BOOLEAN)
  BY DraftHas
<1>2. /\ d.body \in Seq(BlankTokens) /\ Len(d.body) \in Nat /\ Len(d.body) <= MaxRows /\ DOMAIN d.body = 1..Len(d.body)
      /\ \A k \in DOMAIN d.body : d.body[k] \in BlankTokens
  BY <1>1, ShortHas
<1>3. cleared \in Short(BlankTokens) /\ \A k \in DOMAIN cleared : cleared[k].of = 0
  <2>1. \A k \in DOMAIN d.body : /\ [d.body[k] EXCEPT !.of = 0] \in BlankTokens
                                 /\ [d.body[k] EXCEPT !.of = 0].of = 0
    BY <1>2 DEF BlankTokens
  <2>2. cleared \in [1..Len(d.body) -> BlankTokens] /\ \A k \in DOMAIN cleared : cleared[k].of = 0
    BY <1>2, <2>1
  <2>3. cleared \in Seq(BlankTokens) /\ Len(cleared) = Len(d.body)
    BY <1>2, <2>2
  <2>4. QED
    BY <1>2, <2>2, <2>3 DEF Short
<1>4. <<>> \in Short(RowIds)
  BY RowBound DEF Short
<1>5. /\ blanks \in Short(RowIds) /\ body \in Short(BlankTokens) /\ correct \in SUBSET Options
      /\ statements \in Short(BOOLEAN)
  BY <1>1, <1>3, <1>4, FirstQuestionFits
<1>6. Joined(d.body, d.blanks) => Joined(body, blanks)
  BY <1>3 DEF Joined
<1>7. InputOf(d) = [d EXCEPT !.blanks = blanks, !.body = body, !.correct = correct, !.statements = statements]
  BY <1>1 DEF InputOf, QuestionSet
<1> HIDE DEF blanks, body, correct, statements, cleared
<1>8. InputOf(d) \in QuestionSet /\ InputOf(d).body = body /\ InputOf(d).blanks = blanks
  BY <1>5, <1>7 DEF QuestionSet
<1>9. QED
  BY <1>6, <1>8, PairedIsJoined

\* What a step that leaves undone alone must still show of the rows.
LEMMA RowsStand ==
    ASSUME QuestionInv, UNCHANGED undone,
           NEW A \in QuestionSet, draft' = A, Paired(draft) /\ Paired(question) /\ Paired(questionSeen) => Paired(A),
           question' = question \/ \E s \in {questionSaving, leftSaving} : s \in QuestionSet /\ question' = InputOf(s),
           questionSeen' \in {questionSeen, question},
           questionSaving' \in {questionSaving, draft, NoQuestion},
           leftSaving' \in {leftSaving, questionSaving, NoQuestion}
    PROVE  RowsFollow'
<1>1. SUFFICES ASSUME ~undone PROVE /\ Paired(A) /\ Paired(question') /\ Paired(questionSeen')
                                    /\ questionSaving' # NoQuestion => Paired(questionSaving')
                                    /\ leftSaving' # NoQuestion => Paired(leftSaving')
  BY DEF RowsFollow
<1>2. /\ Paired(draft) /\ Paired(question) /\ Paired(questionSeen)
      /\ questionSaving # NoQuestion => Paired(questionSaving)
      /\ leftSaving # NoQuestion => Paired(leftSaving)
  BY <1>1 DEF QuestionInv, RowsFollow
<1>3. Paired(question')
  <2>1. CASE question' = question
    BY <1>2, <2>1
  <2>2. CASE question' # question
    <3>1. PICK s \in {questionSaving, leftSaving} : s \in QuestionSet /\ question' = InputOf(s)
      BY <2>2
    <3>2. s # NoQuestion
      BY <3>1, QuestionsAre
    <3>3. QED
      BY <1>2, <3>1, <3>2, InputFits
  <2>3. QED
    BY <2>1, <2>2
<1>4. QED
  BY <1>2, <1>3

LEMMA FlipFits ==
    ASSUME NEW s \in Short(BOOLEAN), NEW k \in DOMAIN s PROVE [s EXCEPT ![k] = ~ s[k]] \in Short(BOOLEAN)
<1>1. /\ s \in [1..Len(s) -> BOOLEAN] /\ Len(s) \in Nat /\ Len(s) <= MaxRows /\ k \in 1..Len(s)
  BY ShortHas
<1>2. [s EXCEPT ![k] = ~ s[k]] \in [1..Len(s) -> BOOLEAN]
  BY <1>1
<1>3. [s EXCEPT ![k] = ~ s[k]] \in Seq(BOOLEAN) /\ Len([s EXCEPT ![k] = ~ s[k]]) = Len(s)
  BY <1>1, <1>2
<1>4. QED
  BY <1>1, <1>3 DEF Short

\* The token of a new row bears the number the row gets.
LEMMA BlankAdded ==
    ASSUME QuestionInv, AddBlank PROVE QuestionInv'
<1> DEFINE r == NewRow(Used(draft, beforeEdit))
           n == Len(draft.blanks) + 1
           rows == Append(draft.blanks, r)
           body == Append(draft.body, [n |-> n, of |-> r])
           new == [draft EXCEPT !.blanks = rows, !.body = body]
<1>1. /\ draft \in QuestionSet /\ draft.body \in Short(BlankTokens) /\ draft.blanks \in Short(RowIds)
      /\ beforeEdit \in Short(BlankTokens)
  BY DraftHas DEF QuestionInv, QuestionTypes
<1>2. Len(draft.blanks) < MaxRows /\ Len(draft.body) < MaxRows /\ EditTo(new)
  BY <1>1 DEF AddBlank, QuestionSet
<1>3. /\ Len(draft.blanks) \in Nat /\ DOMAIN draft.blanks = 1..Len(draft.blanks) /\ draft.blanks \in Seq(RowIds)
      /\ Len(draft.body) \in Nat /\ DOMAIN draft.body = 1..Len(draft.body) /\ draft.body \in Seq(BlankTokens)
      /\ Len(beforeEdit) \in Nat /\ Len(beforeEdit) <= MaxRows /\ MaxRows \in Nat /\ MaxRows >= 2
  BY <1>1, ShortHas, RowBound
<1>4. r \in RowIds
  <2>1. Used(draft, beforeEdit) \cup {} = Used(draft, beforeEdit) /\ {} \in {{}} \cup {{x} : x \in RowIds}
    OBVIOUS
  <2>2. Len(draft.blanks) + Len(draft.body) + Len(beforeEdit) < 3 * MaxRows - 1
    <3>1. \A a, b, c, m \in Nat : a < m /\ b < m /\ c <= m => a + b + c < 3 * m - 1
      OBVIOUS
    <3>2. QED
      BY <1>2, <1>3, <3>1
  <2>3. NewRow(Used(draft, beforeEdit) \cup {}) \in RowIds
    BY <1>1, <2>1, <2>2, RowLeftInDraft
  <2>4. QED
    BY <2>1, <2>3
<1> HIDE DEF r
<1>5. n \in 1..MaxRows /\ [n |-> n, of |-> r] \in BlankTokens
  <2>1. n \in 1..MaxRows
    BY <1>2, <1>3
  <2>2. QED
    BY <1>4, <2>1 DEF BlankTokens
<1>6. rows \in Short(RowIds) /\ body \in Short(BlankTokens)
  BY <1>1, <1>2, <1>4, <1>5, AppendFits
<1>7. Joined(draft.body, draft.blanks) => Joined(body, rows)
  <2>1. /\ DOMAIN rows = 1..n /\ rows[n] = r /\ \A i \in DOMAIN draft.blanks : rows[i] = draft.blanks[i] /\ i \in 1..n
    BY <1>3
  <2>2. /\ DOMAIN body = 1..(Len(draft.body) + 1) /\ body[Len(draft.body) + 1] = [n |-> n, of |-> r]
        /\ \A k \in DOMAIN draft.body : body[k] = draft.body[k]
    BY <1>3
  <2>3. \A k \in 1..(Len(draft.body) + 1) : k \in DOMAIN draft.body \/ k = Len(draft.body) + 1
    BY <1>3
  <2>4. n \in 1..n
    BY <1>3
  <2> HIDE DEF rows, body, n
  <2>5. SUFFICES ASSUME Joined(draft.body, draft.blanks), NEW k \in DOMAIN body, body[k].of # 0
                 PROVE  body[k].n \in DOMAIN rows /\ rows[body[k].n] = body[k].of
    BY DEF Joined
  <2>6. CASE k \in DOMAIN draft.body
    BY <2>1, <2>2, <2>5, <2>6 DEF Joined
  <2>7. CASE k = Len(draft.body) + 1
    BY <2>1, <2>2, <2>4, <2>7
  <2>8. QED
    BY <2>2, <2>3, <2>6, <2>7
<1> HIDE DEF rows, body
<1>8. new \in QuestionSet /\ (Paired(draft) => Paired(new))
  BY <1>1, <1>6, <1>7, RowsFit, PairedIsJoined
<1> HIDE DEF new
<1>9. QED
  BY <1>2, <1>8, EditKeepsRows

LEMMA BlankRemoved ==
    ASSUME QuestionInv, NEW k, RemoveBlank(k) PROVE QuestionInv'
<1> DEFINE rows == Dropped(draft.blanks, k)
           body == Renumbered(draft.body, k)
           new == [draft EXCEPT !.blanks = rows, !.body = body]
<1>1. /\ draft \in QuestionSet /\ draft.body \in Short(BlankTokens) /\ draft.blanks \in Short(RowIds)
  BY DraftHas DEF QuestionInv, QuestionTypes
<1>2. k \in DOMAIN draft.blanks /\ EditTo(new)
  BY <1>1 DEF RemoveBlank, QuestionSet
<1>3. /\ rows \in Short(RowIds) /\ body \in Short(BlankTokens)
      /\ Joined(draft.body, draft.blanks) => Joined(body, rows)
  BY <1>1, <1>2, RowRemoved
<1> HIDE DEF rows, body
<1>4. new \in QuestionSet /\ (Paired(draft) => Paired(new))
  BY <1>1, <1>3, RowsFit, PairedIsJoined
<1> HIDE DEF new
<1>5. QED
  BY <1>2, <1>4, EditKeepsRows

\* A token typed by hand stands for the row that bears its number.
LEMMA TokenTyped ==
    ASSUME QuestionInv, NEW n \in 1..MaxRows, TypeToken(n) PROVE QuestionInv'
<1> DEFINE of == RowOf(draft, n)
           body == Append(draft.body, [n |-> n, of |-> of])
           new == [draft EXCEPT !.body = body]
<1>1. /\ draft \in QuestionSet /\ draft.body \in Short(BlankTokens) /\ draft.blanks \in Short(RowIds)
  BY DraftHas DEF QuestionInv, QuestionTypes
<1>2. Len(draft.body) < MaxRows /\ EditTo(new)
  BY <1>1 DEF TypeToken, QuestionSet
<1>3. /\ DOMAIN draft.blanks = 1..Len(draft.blanks) /\ \A i \in DOMAIN draft.blanks : draft.blanks[i] \in RowIds
      /\ Len(draft.body) \in Nat /\ DOMAIN draft.body = 1..Len(draft.body) /\ draft.body \in Seq(BlankTokens)
  BY <1>1, ShortHas
<1>4. of \in RowIds \cup {0} /\ (of # 0 => n \in DOMAIN draft.blanks /\ draft.blanks[n] = of)
  BY <1>3 DEF RowOf
<1> HIDE DEF of
<1>5. [n |-> n, of |-> of] \in BlankTokens
  BY <1>4 DEF BlankTokens
<1>6. body \in Short(BlankTokens)
  BY <1>1, <1>2, <1>5, AppendFits
<1>7. Joined(draft.body, draft.blanks) => Joined(body, draft.blanks)
  <2>1. /\ DOMAIN body = 1..(Len(draft.body) + 1) /\ body[Len(draft.body) + 1] = [n |-> n, of |-> of]
        /\ \A k \in DOMAIN draft.body : body[k] = draft.body[k]
    BY <1>3
  <2>2. \A k \in 1..(Len(draft.body) + 1) : k \in DOMAIN draft.body \/ k = Len(draft.body) + 1
    BY <1>3
  <2> HIDE DEF body
  <2>3. SUFFICES ASSUME Joined(draft.body, draft.blanks), NEW k \in DOMAIN body, body[k].of # 0
                 PROVE  body[k].n \in DOMAIN draft.blanks /\ draft.blanks[body[k].n] = body[k].of
    BY DEF Joined
  <2>4. CASE k \in DOMAIN draft.body
    BY <2>1, <2>3, <2>4 DEF Joined
  <2>5. CASE k = Len(draft.body) + 1
    BY <1>4, <2>1, <2>3, <2>5
  <2>6. QED
    BY <2>1, <2>2, <2>4, <2>5
<1> HIDE DEF body
<1>8. new \in QuestionSet /\ (Paired(draft) => Paired(new))
  BY <1>1, <1>6, <1>7, BodyFits, PairedIsJoined
<1> HIDE DEF new
<1>9. QED
  BY <1>2, <1>8, EditKeepsRows

LEMMA BodyShortened ==
    ASSUME NEW d \in QuestionSet, NEW k \in DOMAIN d.body
    PROVE  /\ Dropped(d.body, k) \in Short(BlankTokens) /\ [d EXCEPT !.body = Dropped(d.body, k)] \in QuestionSet
           /\ Paired(d) => Paired([d EXCEPT !.body = Dropped(d.body, k)])
<1>1. d.body \in Short(BlankTokens)
  BY DraftHas
<1>2. Dropped(d.body, k) \in Short(BlankTokens)
  BY <1>1, DroppedFits
<1>3. Joined(d.body, d.blanks) => Joined(Dropped(d.body, k), d.blanks)
  BY <1>1, TokenDropped
<1>4. QED
  BY <1>2, <1>3, BodyFits, PairedIsJoined

LEMMA TokenDeleted ==
    ASSUME QuestionInv, NEW k, DeleteToken(k) PROVE QuestionInv'
<1>1. draft \in QuestionSet /\ k \in DOMAIN draft.body /\ EditTo([draft EXCEPT !.body = Dropped(draft.body, k)])
  BY DEF DeleteToken, QuestionInv, QuestionTypes, QuestionSet
<1>2. QED
  BY <1>1, BodyShortened, EditKeepsRows

LEMMA FieldsEdited ==
    ASSUME QuestionInv,
           \/ \E f \in Formats : ChooseFormat(f)
           \/ \E o \in Options : SetCorrect(o)
           \/ AddStatement
           \/ \E k \in 1..MaxRows : EditStatement(k)
    PROVE  QuestionInv'
<1>1. /\ draft \in QuestionSet /\ draft.correct \in SUBSET Options /\ draft.statements \in Short(BOOLEAN)
  BY DraftHas DEF QuestionInv, QuestionTypes
<1>2. CASE \E f \in Formats : ChooseFormat(f)
  <2>1. PICK f \in Formats : EditTo([draft EXCEPT !.format = f])
    BY <1>2 DEF ChooseFormat
  <2>2. QED
    BY <1>1, <2>1, OtherFieldsFit, EditKeepsRows
<1>3. CASE \E o \in Options : SetCorrect(o)
  <2>1. PICK o \in Options : SetCorrect(o)
    BY <1>3
  <2>2. \E c \in SUBSET Options : EditTo([draft EXCEPT !.correct = c])
    <3>1. CASE EditTo([draft EXCEPT !.correct = {o}])
      BY <3>1
    <3>2. CASE EditTo([draft EXCEPT !.correct = (@ \cup {o}) \ (@ \cap {o})])
      <4>1. [draft EXCEPT !.correct = (@ \cup {o}) \ (@ \cap {o})]
              = [draft EXCEPT !.correct = (draft.correct \cup {o}) \ (draft.correct \cap {o})]
        BY <1>1 DEF QuestionSet
      <4>2. (draft.correct \cup {o}) \ (draft.correct \cap {o}) \in SUBSET Options
        BY <1>1
      <4>3. QED
        BY <3>2, <4>1, <4>2
    <3>3. QED
      BY <2>1, <3>1, <3>2 DEF SetCorrect
  <2>3. PICK c \in SUBSET Options : EditTo([draft EXCEPT !.correct = c])
    BY <2>2
  <2>4. QED
    BY <1>1, <2>3, OtherFieldsFit, EditKeepsRows
<1>4. CASE AddStatement \/ \E k \in 1..MaxRows : EditStatement(k)
  <2>1. \E s \in Short(BOOLEAN) : EditTo([draft EXCEPT !.statements = s])
    <3>1. CASE AddStatement
      <4>1. Len(draft.statements) < MaxRows /\ EditTo([draft EXCEPT !.statements = Append(draft.statements, FALSE)])
        BY <1>1, <3>1 DEF AddStatement, QuestionSet
      <4>2. Append(draft.statements, FALSE) \in Short(BOOLEAN)
        BY <1>1, <4>1, AppendFits
      <4>3. QED
        BY <4>1, <4>2
    <3>2. ASSUME NEW k \in 1..MaxRows, EditStatement(k)
          PROVE  \E s \in Short(BOOLEAN) : EditTo([draft EXCEPT !.statements = s])
      <4>1. /\ k \in DOMAIN draft.statements
            /\ \/ EditTo([draft EXCEPT !.statements = [draft.statements EXCEPT ![k] = ~ draft.statements[k]]])
               \/ EditTo([draft EXCEPT !.statements = Dropped(draft.statements, k)])
        BY <1>1, <3>2 DEF EditStatement, QuestionSet
      <4>2. Dropped(draft.statements, k) \in Short(BOOLEAN)
        BY <1>1, <4>1, DroppedFits
      <4>3. [draft.statements EXCEPT ![k] = ~ draft.statements[k]] \in Short(BOOLEAN)
        BY <1>1, <4>1, FlipFits
      <4>4. QED
        BY <4>1, <4>2, <4>3
    <3>3. QED
      BY <1>4, <3>1, <3>2
  <2>2. PICK s \in Short(BOOLEAN) : EditTo([draft EXCEPT !.statements = s])
    BY <2>1
  <2>3. QED
    BY <1>1, <2>2, OtherFieldsFit, EditKeepsRows
<1>5. QED
  BY <1>2, <1>3, <1>4

LEMMA BodyUndone == ASSUME QuestionInv, UndoBody PROVE QuestionInv'
<1>1. /\ draft' = [draft EXCEPT !.body = beforeEdit] /\ beforeEdit' = draft.body /\ undone' = TRUE
      /\ draftEdits' = draftEdits + 1 /\ draftEdits < QuestionEdits
      /\ UNCHANGED <<question, questionSeen, questionsDue, editorOpen, bodyUpload, questionSaving, leftSaving>>
  BY DEF UndoBody, MayEdit
<1>2. /\ draft \in QuestionSet /\ beforeEdit \in Short(BlankTokens) /\ draft.body \in Short(BlankTokens)
      /\ QuestionEdits \in Nat /\ draftEdits \in 0..QuestionEdits
  BY DraftHas, QuestionConstants DEF QuestionInv, QuestionTypes
<1>3. draft' \in QuestionSet /\ draftEdits' \in 0..QuestionEdits
  BY <1>1, <1>2, BodyFits
<1>4. QED
  BY <1>1, <1>2, <1>3 DEF QuestionInv, QuestionTypes, RowsFollow

LEMMA PictureArrived == ASSUME QuestionInv, PictureArrives PROVE QuestionInv'
<1>1. /\ bodyUpload' = FALSE
      /\ UNCHANGED <<question, questionSeen, questionsDue, editorOpen, undone, questionSaving, leftSaving>>
  BY DEF PictureArrives
<1>2. /\ draft \in QuestionSet /\ draft.body \in Short(BlankTokens)
      /\ QuestionEdits \in Nat /\ draftEdits \in 0..QuestionEdits
  BY DraftHas, QuestionConstants DEF QuestionInv, QuestionTypes
<1>3. /\ draft' \in QuestionSet /\ beforeEdit' \in Short(BlankTokens) /\ draftEdits' \in 0..QuestionEdits
      /\ Paired(draft) => Paired(draft')
  <2>1. CASE UNCHANGED <<draft, beforeEdit, draftEdits>>
    BY <2>1 DEF QuestionInv, QuestionTypes
  <2>2. CASE /\ draftEdits < QuestionEdits /\ draftEdits' = draftEdits + 1 /\ beforeEdit' = draft.body
             /\ \E k \in DOMAIN draft.body : draft' = [draft EXCEPT !.body = Dropped(@, k)]
    <3>1. PICK k \in DOMAIN draft.body : draft' = [draft EXCEPT !.body = Dropped(draft.body, k)]
      BY <1>2, <2>2 DEF QuestionSet
    <3>2. draft' \in QuestionSet /\ (Paired(draft) => Paired(draft'))
      BY <1>2, <3>1, BodyShortened
    <3>3. QED
      BY <1>2, <2>2, <3>2
  <2>3. QED
    BY <2>1, <2>2 DEF PictureArrives
<1>4. QuestionTypes'
  BY <1>1, <1>3 DEF QuestionInv, QuestionTypes
<1>5. RowsFollow'
  BY <1>1, <1>2, <1>3, RowsStand DEF QuestionInv
<1>6. QED
  BY <1>4, <1>5 DEF QuestionInv

LEMMA QuestionOpened == ASSUME QuestionInv, OpenQuestion PROVE QuestionInv'
<1>1. /\ editorOpen' = TRUE /\ draft' = WithRows(questionSeen) /\ beforeEdit' = draft'.body /\ bodyUpload' = FALSE
      /\ UNCHANGED <<question, questionSeen, questionsDue, draftEdits, undone, questionSaving, leftSaving>>
  BY DEF OpenQuestion
<1>2. questionSeen \in QuestionSet
  BY DEF QuestionInv, QuestionTypes
<1>3. draft' \in QuestionSet /\ beforeEdit' \in Short(BlankTokens)
  BY <1>1, <1>2, WithRowsFits
<1>4. Paired(questionSeen) => Paired(draft')
  BY <1>1, <1>2, WithRowsFits
<1>5. QuestionTypes'
  BY <1>1, <1>3 DEF QuestionInv, QuestionTypes
<1>6. RowsFollow'
  BY <1>1, <1>3, <1>4, RowsStand DEF QuestionInv
<1>7. QED
  BY <1>5, <1>6 DEF QuestionInv

LEMMA SavedAndArrived ==
    ASSUME QuestionInv,
           \/ QuestionSaved \/ SaveRefused \/ LeftSaved \/ LeftRefused
           \/ QuestionsArrive \/ PressSave \/ CloseQuestion \/ ChoosePicture
    PROVE  QuestionInv'
<1>1. CASE QuestionSaved \/ LeftSaved
  <2>1. PICK s \in {questionSaving, leftSaving} :
            /\ s # NoQuestion /\ question' = InputOf(s)
            /\ questionSaving' = NoQuestion /\ leftSaving' \in {leftSaving, questionSaving}
            /\ questionsDue' = TRUE /\ editorOpen' = FALSE /\ bodyUpload' = FALSE /\ draft' = FirstQuestion
            /\ beforeEdit' = <<>> /\ UNCHANGED <<questionSeen, draftEdits, undone>>
    BY <1>1 DEF QuestionSaved, LeftSaved, CloseEditor
  <2>2. s \in QuestionSet
    BY <2>1 DEF QuestionInv, QuestionTypes
  <2>3. question' \in QuestionSet
    BY <2>1, <2>2, InputFits
  <2>4. QuestionTypes'
    BY <2>1, <2>3, FirstQuestionFits DEF QuestionInv, QuestionTypes
  <2>5. RowsFollow'
    BY <2>1, <2>2, FirstQuestionFits, RowsStand
  <2>6. QED
    BY <2>4, <2>5 DEF QuestionInv
<1>2. CASE CloseQuestion
  <2>1. /\ editorOpen' = FALSE /\ bodyUpload' = FALSE /\ draft' = FirstQuestion /\ beforeEdit' = <<>>
        /\ questionSaving' = NoQuestion /\ leftSaving' \in {leftSaving, questionSaving}
        /\ UNCHANGED <<question, questionSeen, questionsDue, draftEdits, undone>>
    BY <1>2 DEF CloseQuestion, CloseEditor
  <2>2. QuestionTypes'
    BY <2>1, FirstQuestionFits DEF QuestionInv, QuestionTypes
  <2>3. RowsFollow'
    BY <2>1, FirstQuestionFits, RowsStand
  <2>4. QED
    BY <2>2, <2>3 DEF QuestionInv
<1>3. CASE SaveRefused \/ LeftRefused \/ QuestionsArrive \/ PressSave \/ ChoosePicture
  <2>1. /\ UNCHANGED <<question, editorOpen, draft, draftEdits, beforeEdit, undone>>
        /\ questionSeen' \in {questionSeen, question} /\ questionSaving' \in {questionSaving, draft, NoQuestion}
        /\ leftSaving' \in {leftSaving, NoQuestion}
        /\ questionsDue' \in {questionsDue, FALSE} /\ bodyUpload' \in {bodyUpload, TRUE}
    BY <1>3 DEF SaveRefused, LeftRefused, QuestionsArrive, PressSave, ChoosePicture
  <2>2. QuestionTypes'
    BY <2>1 DEF QuestionInv, QuestionTypes
  <2>3. draft \in QuestionSet
    BY DEF QuestionInv, QuestionTypes
  <2>4. RowsFollow'
    BY <2>1, <2>3, RowsStand
  <2>5. QED
    BY <2>2, <2>4 DEF QuestionInv
<1>4. QED
  BY <1>1, <1>2, <1>3

LEMMA QuestionStep == ASSUME QuestionInv, [QuestionNext]_questionVars PROVE QuestionInv'
<1>1. CASE OpenQuestion
  BY <1>1, QuestionOpened
<1>2. CASE UndoBody
  BY <1>2, BodyUndone
<1>3. CASE PictureArrives
  BY <1>3, PictureArrived
<1>4. CASE \/ CloseQuestion \/ ChoosePicture \/ PressSave \/ QuestionSaved \/ SaveRefused
           \/ LeftSaved \/ LeftRefused \/ QuestionsArrive
  BY <1>4, SavedAndArrived
<1>5. CASE \/ \E f \in Formats : ChooseFormat(f)
           \/ \E o \in Options : SetCorrect(o)
           \/ AddStatement
           \/ \E k \in 1..MaxRows : EditStatement(k)
  BY <1>5, FieldsEdited
<1>6. CASE AddBlank
  BY <1>6, BlankAdded
<1>7. CASE \E k \in 1..MaxRows : RemoveBlank(k) \/ TypeToken(k) \/ DeleteToken(k)
  BY <1>7, BlankRemoved, TokenTyped, TokenDeleted
<1>8. CASE UNCHANGED questionVars
  BY <1>8 DEF questionVars, QuestionInv, QuestionTypes, RowsFollow, Paired, RowOf
<1>9. QED
  BY <1>1, <1>2, <1>3, <1>4, <1>5, <1>6, <1>7, <1>8 DEF QuestionNext

LEMMA QuestionInvHolds == QuestionSpec => []QuestionInv
<1>1. QuestionInit => QuestionInv
  BY QuestionInitInv
<1>2. QuestionInv /\ [QuestionNext]_questionVars => QuestionInv'
  BY QuestionStep
<1>3. QED
  BY <1>1, <1>2, PTL DEF QuestionSpec

\* The editor's fields, its copy of the question and the save under way keep their shapes; the
\* supply of row numbers never runs out, so NewRow always finds one.
THEOREM QuestionTypesHold == QuestionSpec => []QuestionTypeOK
<1>1. QuestionInv => QuestionTypeOK
  BY QuestionInvTypes
<1>2. QED
  BY <1>1, QuestionInvHolds, PTL

\* Until the first undo of a body every token and the row with its number belong together, in the
\* editor and in the question the server keeps: renumberTokensInBody and the rows never drift
\* apart, whatever is added, removed, typed, switched, closed or saved, for any number of rows.
THEOREM BlanksKeepTheirAnswers == QuestionSpec => []AnswersFollowTheirBlank
<1>1. QuestionInv => AnswersFollowTheirBlank
  BY DEF QuestionInv, RowsFollow, AnswersFollowTheirBlank
<1>2. QED
  BY <1>1, QuestionInvHolds, PTL
===============================================================================
