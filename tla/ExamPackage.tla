----------------------------- MODULE ExamPackage ------------------------------
(***************************************************************************)
(* The page of one exam: the tests attached to it, its switches and the    *)
(* dialog that edits it; the certificate's studio; and the grading of      *)
(* essays, session by session.  Each is filled by an effect from a query's *)
(* data, which may arrive again while somebody is typing.                  *)
(*                                                                         *)
(* Bound: one of the three is looked at at a time (packageTab).            *)
(***************************************************************************)
EXTENDS Naturals, FiniteSets

CONSTANTS
    ExamTests,         \* tests that can be attached
    Layers,            \* layers a certificate can have
    Sittings, Essays,  \* positive numbers
    MaxScore,          \* an essay's points
    PackageWrites,     \* bound: changes the server takes
    GradesSent         \* bound: grades under way together

ASSUME PackageConstants ==
    /\ Sittings \cup Essays \subseteq Nat \ {0} /\ MaxScore \in Nat
    /\ {PackageWrites, GradesSent} \subseteq Nat

VARIABLES
    packageTab, packageWrites,
    exam, examSeen, examDue,             \* server; the page's data; to be read again
    attachedIds, replacing,              \* the tests picked; the list under way
    examEdit, examSaving, toggling,      \* the dialog; its request; a switch under way
    design, designSeen, designDue,       \* the certificate's layers, as the exam
    layout, dirty, imageUpload, designSaving,
    grade, essaysSeen, essaysDue,        \* scores on the server; essays by session
    gradingSession, scoreInputs, grades, \* selectedSessionId; the cards; grades under way
    online                               \* the browser has a network

testVars    == <<exam, examSeen, examDue, attachedIds, replacing, examEdit, examSaving, toggling>>
designVars  == <<design, designSeen, designDue, layout, dirty, imageUpload, designSaving>>
gradeVars   == <<grade, essaysSeen, essaysDue, gradingSession, scoreInputs, grades, online>>
packageVars == <<packageTab, packageWrites, testVars, designVars, gradeVars>>

NoSet     == {"none"}                                       \* no list, no layers
Exams     == [tests : SUBSET ExamTests, certificate : BOOLEAN, title : {"a", "b"}]
NoEdit    == [open |-> FALSE, title |-> ""]
NoScore   == MaxScore + 1                                   \* not graded yet, nothing typed
Scores    == 0..(MaxScore + 2)                              \* typed: the last is too many
ScoreCard == [score : Scores, of : Sittings \cup {0}]       \* of: history, the session it is from
Grades    == [sitting : Sittings \cup {0}, essay : Essays, score : 0..MaxScore,
              of : Sittings \cup {0}, covers : Sittings \cup {0}, latest : BOOLEAN,
              net : {"sent", "waits", "resumed"}]

PackageTypeOK ==
    /\ packageTab \in {"tests", "certificate", "grading"} /\ packageWrites \in 0..PackageWrites
    /\ {exam, examSeen} \subseteq Exams /\ attachedIds \subseteq ExamTests
    /\ replacing = NoSet \/ replacing \subseteq ExamTests
    /\ examEdit \in [open : BOOLEAN, title : {"", "a", "b"}] /\ examSaving \in {"", "a", "b"}
    /\ {examDue, designDue, toggling, dirty} \subseteq BOOLEAN
    /\ {design, designSeen, layout} \subseteq SUBSET Layers
    /\ \A s \in {imageUpload, designSaving} : s = NoSet \/ s \subseteq Layers
    /\ grade \in [Sittings \X Essays -> 0..NoScore] /\ online \in BOOLEAN
    /\ DOMAIN essaysSeen \subseteq Sittings /\ essaysDue \subseteq Sittings
    /\ gradingSession \in Sittings \cup {0}
    /\ scoreInputs \in [Essays -> ScoreCard] /\ grades \subseteq Grades

PackageTakes ==
    /\ packageWrites < PackageWrites /\ packageWrites' = packageWrites + 1

-----------------------------------------------------------------------------
(* The tests, the switches and the dialog *)

testsShown == packageTab = "tests" /\ UNCHANGED <<packageTab, designVars, gradeVars>>

\* The exam arrives.  When it differs from what was there, the effects fill the
\* list and the open dialog from it, whatever was picked or typed.
ExamArrives ==
    /\ testsShown /\ examDue /\ examDue' = FALSE /\ examSeen' = exam
    /\ attachedIds' = IF exam = examSeen THEN attachedIds ELSE exam.tests
    /\ examEdit' = IF examEdit.open /\ exam # examSeen THEN [examEdit EXCEPT !.title = exam.title]
                   ELSE examEdit
    /\ UNCHANGED <<packageWrites, exam, replacing, examSaving, toggling>>

\* handleAddTest and handleRemoveTest.
PickTest(x) ==
    /\ testsShown /\ ~examEdit.open
    /\ attachedIds' = IF x \in attachedIds THEN attachedIds \ {x} ELSE attachedIds \cup {x}
    /\ UNCHANGED <<packageWrites, exam, examSeen, examDue, replacing, examEdit, examSaving, toggling>>

\* handleSaveTests: the whole list.
SaveTests ==
    /\ testsShown /\ ~examEdit.open /\ replacing = NoSet /\ replacing' = attachedIds
    /\ UNCHANGED <<packageWrites, exam, examSeen, examDue, attachedIds, examEdit, examSaving, toggling>>

TestsSaved ==
    /\ testsShown /\ replacing # NoSet /\ replacing' = NoSet
    /\ \/ PackageTakes /\ exam' = [exam EXCEPT !.tests = replacing] /\ examDue' = TRUE
       \/ UNCHANGED <<packageWrites, exam, examDue>>                 \* refused
    /\ UNCHANGED <<examSeen, attachedIds, examEdit, examSaving, toggling>>

\* The card's switch, and the certificate's, which asks before it switches off.
Switch ==
    /\ testsShown /\ ~examEdit.open /\ ~toggling /\ toggling' = TRUE
    /\ UNCHANGED <<packageWrites, exam, examSeen, examDue, attachedIds, replacing, examEdit, examSaving>>

Switched ==
    /\ testsShown /\ toggling /\ toggling' = FALSE
    /\ \/ PackageTakes /\ exam' = [exam EXCEPT !.certificate = ~@] /\ examDue' = TRUE
       \/ UNCHANGED <<packageWrites, exam, examDue>>
    /\ UNCHANGED <<examSeen, attachedIds, replacing, examEdit, examSaving>>

\* ExamModal: filled when it opens.
OpenExamEdit ==
    /\ testsShown /\ ~examEdit.open
    /\ examEdit' = [open |-> TRUE, title |-> examSeen.title]
    /\ UNCHANGED <<packageWrites, exam, examSeen, examDue, attachedIds, replacing, examSaving, toggling>>

TypeTitle(title) ==
    /\ testsShown /\ examEdit.open /\ examSaving = "" /\ examEdit.title # title
    /\ examEdit' = [examEdit EXCEPT !.title = title]
    /\ UNCHANGED <<packageWrites, exam, examSeen, examDue, attachedIds, replacing, examSaving, toggling>>

\* handleSubmit needs a title (and a duration, and an end after the start).
SubmitExam ==
    /\ testsShown /\ examEdit.open /\ examSaving = "" /\ examEdit.title # ""
    /\ examSaving' = examEdit.title
    /\ UNCHANGED <<packageWrites, exam, examSeen, examDue, attachedIds, replacing, examEdit, toggling>>

CloseExamEdit ==
    /\ testsShown /\ examEdit.open /\ examEdit' = NoEdit
    /\ UNCHANGED <<packageWrites, exam, examSeen, examDue, attachedIds, replacing, examSaving, toggling>>

ExamSaved ==
    /\ testsShown /\ examSaving # "" /\ examSaving' = ""
    /\ \/ PackageTakes /\ exam' = [exam EXCEPT !.title = examSaving] /\ examDue' = TRUE
          /\ examEdit' = NoEdit
       \/ UNCHANGED <<packageWrites, exam, examDue, examEdit>>
    /\ UNCHANGED <<examSeen, attachedIds, replacing, toggling>>

-----------------------------------------------------------------------------
(* The certificate's studio *)

studioShown == packageTab = "certificate" /\ UNCHANGED <<packageTab, testVars, gradeVars>>

DesignArrives ==
    /\ studioShown /\ designDue /\ designDue' = FALSE /\ designSeen' = design
    /\ IF design # designSeen THEN layout' = design /\ dirty' = FALSE ELSE UNCHANGED <<layout, dirty>>
    /\ UNCHANGED <<packageWrites, design, imageUpload, designSaving>>

\* setFields: a layer is added, changed or removed.
EditLayer(x) ==
    /\ studioShown
    /\ layout' = (IF x \in layout THEN layout \ {x} ELSE layout \cup {x}) /\ dirty' = TRUE
    /\ UNCHANGED <<packageWrites, design, designSeen, designDue, imageUpload, designSaving>>

\* imageChanged: the layers of the moment the file was chosen are the ones the
\* image is added to when it has been uploaded.
ChooseImage ==
    /\ studioShown /\ imageUpload = NoSet /\ imageUpload' = layout
    /\ UNCHANGED <<packageWrites, design, designSeen, designDue, layout, dirty, designSaving>>

ImageUploaded(x) ==
    /\ studioShown /\ imageUpload # NoSet /\ imageUpload' = NoSet
    /\ \/ layout' = imageUpload \cup {x} /\ dirty' = TRUE
       \/ UNCHANGED <<layout, dirty>>
    /\ UNCHANGED <<packageWrites, design, designSeen, designDue, designSaving>>

SaveDesign ==
    /\ studioShown /\ dirty /\ imageUpload = NoSet /\ designSaving = NoSet
    /\ designSaving' = layout
    /\ UNCHANGED <<packageWrites, design, designSeen, designDue, layout, dirty, imageUpload>>

\* Success clears dirty, whatever was changed meanwhile.
DesignSaved ==
    /\ studioShown /\ designSaving # NoSet /\ designSaving' = NoSet
    /\ \/ PackageTakes /\ design' = designSaving /\ designDue' = TRUE /\ dirty' = FALSE
       \/ UNCHANGED <<packageWrites, design, designDue, dirty>>
    /\ UNCHANGED <<designSeen, layout, imageUpload>>

-----------------------------------------------------------------------------
(* Grading *)

gradingShown == packageTab = "grading" /\ UNCHANGED <<packageTab, testVars, designVars>>

EssaysOf(s) == [e \in Essays |-> grade[<<s, e>>]]

\* The effect on the essays of session s: every card shows what is stored.
CardsFrom(s, scores) == [e \in Essays |-> [score |-> scores[e], of |-> s]]

CardsShown == gradingSession # 0 /\ gradingSession \in DOMAIN essaysSeen

\* A session's button, or back to the list (0).  useGradeEssay is rendered with the
\* session shown now, and the mutation under way that was started last takes its
\* functions: one that waits for the network will be sent for this session, and a
\* sent one will have this session's essays read again.
SelectSitting(s) ==
    /\ gradingShown /\ s # gradingSession /\ gradingSession' = s
    /\ scoreInputs' = IF s \in DOMAIN essaysSeen THEN CardsFrom(s, essaysSeen[s]) ELSE scoreInputs
    /\ grades' = {[g EXCEPT !.covers = IF g.latest THEN s ELSE @,
                            !.sitting = IF g.latest /\ g.net = "waits" THEN s ELSE @] : g \in grades}
    /\ essaysDue' \in {essaysDue, essaysDue \cup ({s} \ {0})}          \* older than 30 s
    /\ UNCHANGED <<packageWrites, grade, essaysSeen, online>>

WithEssays(s) ==
    [k \in DOMAIN essaysSeen \cup {s} |-> IF k = s THEN EssaysOf(s) ELSE essaysSeen[k]]

\* EssaysArrive, when a score that was typed is left alone.
EssaysArrive_TypedStay ==
    /\ gradingShown /\ gradingSession # 0
    /\ gradingSession \in essaysDue \/ gradingSession \notin DOMAIN essaysSeen
    /\ LET s == gradingSession
       IN  /\ essaysSeen' = WithEssays(s) /\ essaysDue' = essaysDue \ {s}
           /\ scoreInputs' = [e \in Essays |-> IF scoreInputs[e].score # NoScore THEN scoreInputs[e]
                                               ELSE CardsFrom(s, EssaysOf(s))[e]]
    /\ UNCHANGED <<packageWrites, grade, gradingSession, grades, online>>

\* The essays of the session shown arrive, first or again; when they changed, the
\* cards are filled anew.
EssaysArrive ==
    /\ gradingShown /\ gradingSession # 0
    /\ gradingSession \in essaysDue \/ gradingSession \notin DOMAIN essaysSeen
    /\ LET s == gradingSession
       IN  /\ essaysSeen' = WithEssays(s) /\ essaysDue' = essaysDue \ {s}
           /\ scoreInputs' = IF s \in DOMAIN essaysSeen /\ essaysSeen[s] = EssaysOf(s) THEN scoreInputs
                             ELSE CardsFrom(s, EssaysOf(s))
    /\ UNCHANGED <<packageWrites, grade, gradingSession, grades, online>>

\* The card of the grade sent last is disabled, and no other.
CardPending(e) == \E g \in grades : g.latest /\ g.essay = e

TypeScore(e, score) ==
    /\ gradingShown /\ CardsShown /\ ~CardPending(e) /\ scoreInputs[e].score # score
    /\ scoreInputs' = [scoreInputs EXCEPT ![e] = [score |-> score, of |-> gradingSession]]
    /\ UNCHANGED <<packageWrites, grade, essaysSeen, essaysDue, gradingSession, grades, online>>

\* handleSaveEssay: a whole number of points, and no more than the essay's.  The
\* mutation's function runs at once, or when there is a network again.
SaveEssay(e) ==
    /\ gradingShown /\ CardsShown /\ ~CardPending(e) /\ Cardinality(grades) < GradesSent
    /\ scoreInputs[e].score \in 0..MaxScore
    /\ grades' = {[g EXCEPT !.latest = FALSE] : g \in grades}
                 \cup {[sitting |-> gradingSession, essay |-> e, score |-> scoreInputs[e].score,
                        of |-> scoreInputs[e].of, covers |-> gradingSession, latest |-> TRUE,
                        net |-> IF online THEN "sent" ELSE "waits"]}
    /\ UNCHANGED <<packageWrites, grade, essaysSeen, essaysDue, gradingSession, scoreInputs, online>>

\* The network goes, or comes back: then what waits is sent.
NetworkChanges ==
    /\ gradingShown /\ online' = ~online
    /\ grades' = {[g EXCEPT !.net = IF g.net = "waits" THEN "resumed" ELSE @] : g \in grades}
    /\ UNCHANGED <<packageWrites, grade, essaysSeen, essaysDue, gradingSession, scoreInputs>>

EssayGraded(g) ==
    /\ gradingShown /\ g.net # "waits" /\ grades' = grades \ {g}
    /\ \/ /\ PackageTakes /\ g.sitting # 0 /\ grade' = [grade EXCEPT ![<<g.sitting, g.essay>>] = g.score]
          /\ essaysDue' = essaysDue \cup ({g.covers} \ {0})
       \/ UNCHANGED <<packageWrites, grade, essaysDue>>              \* refused
    /\ UNCHANGED <<essaysSeen, gradingSession, scoreInputs, online>>

-----------------------------------------------------------------------------
PackageInit ==
    /\ packageTab \in {"tests", "certificate", "grading"} /\ packageWrites = 0
    /\ exam = [tests |-> {}, certificate |-> TRUE, title |-> "a"] /\ examSeen = exam
    /\ examDue = FALSE /\ attachedIds = {} /\ replacing = NoSet
    /\ examEdit = NoEdit /\ examSaving = "" /\ toggling = FALSE
    /\ design = {} /\ designSeen = {} /\ designDue = FALSE /\ layout = {} /\ dirty = FALSE
    /\ imageUpload = NoSet /\ designSaving = NoSet
    /\ grade = [k \in Sittings \X Essays |-> NoScore] /\ essaysSeen = [s \in {} |-> <<>>]
    /\ essaysDue = {} /\ gradingSession = 0
    /\ scoreInputs = [e \in Essays |-> [score |-> NoScore, of |-> 0]]
    /\ grades = {} /\ online = TRUE

PackageNext ==
    \/ ExamArrives \/ SaveTests \/ TestsSaved \/ Switch \/ Switched
    \/ \E x \in ExamTests : PickTest(x)
    \/ OpenExamEdit \/ SubmitExam \/ CloseExamEdit \/ ExamSaved
    \/ \E title \in {"", "b"} : TypeTitle(title)
    \/ DesignArrives \/ ChooseImage \/ SaveDesign \/ DesignSaved
    \/ \E x \in Layers : EditLayer(x) \/ ImageUploaded(x)
    \/ \E s \in Sittings \cup {0} : SelectSitting(s)
    \/ EssaysArrive \/ NetworkChanges
    \/ \E e \in Essays : SaveEssay(e) \/ \E score \in Scores : TypeScore(e, score)
    \/ \E g \in grades : EssayGraded(g)

PackageSpec == PackageInit /\ [][PackageNext]_packageVars

-----------------------------------------------------------------------------
\* A score that is sent for a session was typed, or loaded, on that session's
\* card: whatever sessions were opened, and whatever essays arrived or changed
\* meanwhile, no student gets another one's score; but for a score that had to wait
\* for the network while another session was opened, and while nothing newer was
\* saved it is the session on the screen that gets that.
ScoresStayWithTheirSession ==
    \A g \in grades :
       /\ g.net = "sent" => g.of = g.sitting
       /\ g.net = "waits" /\ g.latest => g.sitting = gradingSession

=============================================================================
