---------------------------- MODULE EssayGrading ------------------------------
(***************************************************************************)
(* What becomes of a sitting after it: essays graded by hand, the total of *)
(* the session, and the certificate that shows it.                         *)
(*                                                                         *)
(* GradeEssayAnswer adds up answers it read before its transaction.  The   *)
(* certificate is a cache of the session, the grades and the exam's        *)
(* design: every write that may change it inserts a CertificateNeeded row  *)
(* in its own transaction, and the worker, which alone renders, decides    *)
(* from timestamps whether the stored PDF is out of date.                  *)
(*                                                                         *)
(* Timestamps are kept as what they are compared for: whether the latest   *)
(* grade, or the latest change of the design, is after the stored PDF.     *)
(* Variables marked "history" are read by no action; they say which writes *)
(* went on at the same time.  X_Slip is X with a plausible bug.            *)
(***************************************************************************)
EXTENDS Integers, FiniteSets

CONSTANTS
    Submissions,   \* exam sessions of one exam
    EssayItems,    \* its essay questions
    Graders,       \* grading requests that can be in flight at once
    MaxPoints,     \* point_correct of an essay
    MachinePoints, \* what the other questions add up to; penalties may make it negative
    NoGrade,       \* a score not given: NULL
    Designs,       \* saved certificate designs with their template
    Scored,        \* those that show a score
    NoDesign,      \* certificate_template_html IS NULL
    NoPdf,         \* certificate_key IS NULL
    GradingWrites  \* bound: grades and saves of the exam that are sent

ASSUME GradingConstants ==
    /\ IsFiniteSet(EssayItems)
    /\ Scored \subseteq Designs /\ NoDesign \notin Designs
    /\ MaxPoints \in Nat /\ MachinePoints \in Int /\ GradingWrites \in Nat
    /\ NoGrade \notin Int
    /\ NoPdf \notin [design : Designs, total : Int \cup {NoGrade}]

VARIABLES
    submitted,     \* sessions whose status is 'submitted'
    essayScore,    \* exam_session_answer.score of the essays; graded_at is set with it
    sessionTotal,  \* exam_session.score
    certDesign,    \* exam.certificate_design and certificate_template_html
    certEnabled,   \* exam.certificate_enabled
    certificate,   \* the PDF stored: what it shows
    gradeNewer,    \* PDFs (by session) older than a graded_at of their session
    designNewer,   \* PDFs older than certificate_design_updated_at
    needed,        \* CertificateNeeded rows not processed, by session
    grading,       \* the GradeEssayAnswer requests in flight
    examSave,      \* the UpdateExam or SetExamCertificateEnabled in flight
    render,        \* the CertificateNeeded row the worker is at
    gradingWrites, \* counts to the bound
    totalCrossed,  \* history: sessions whose total was added up from rows changed since
    pdfCrossed     \* history: sessions changed while their PDF, or the change, was under way

rowVars     == <<submitted, essayScore, sessionTotal>>
examVars    == <<certDesign, certEnabled>>
pdfVars     == <<certificate, gradeNewer, designNewer>>
gradingVars == <<rowVars, examVars, pdfVars, needed, grading, examSave, render,
                 gradingWrites, totalCrossed, pdfCrossed>>

-----------------------------------------------------------------------------
(* Types and helpers *)

Points   == 0..MaxPoints
NoGrading == [op |-> "none"]
Grading  == {NoGrading} \cup
            [op : {"grade"}, of : Submissions, item : EssayItems, points : Points,
             total : Int, crossed : BOOLEAN, rendered : BOOLEAN]
NoSave   == [op |-> "none"]
ExamSave == {NoSave} \cup
            [op : {"design"}, design : Designs \cup {NoDesign}, listed : SUBSET Submissions,
             rendered : SUBSET Submissions]
            \cup
            [op : {"enable"}, on : BOOLEAN, fanOut : BOOLEAN, listed : SUBSET Submissions]
NoRender == [at |-> "idle"]
\* The row's session and what was read of it, step by step; crossed is history.
Render   == {NoRender} \cup [at : {"done"}, of : Submissions] \cup
            [at : {"exam", "answers", "stamp"}, of : Submissions,
             total : Int \cup {NoGrade}, design : Designs \cup {NoDesign},
             designNewer : BOOLEAN, crossed : BOOLEAN]
Pdfs     == [design : Designs, total : Int \cup {NoGrade}]

GradingTypeOK ==
    /\ submitted \subseteq Submissions
    /\ essayScore \in [Submissions -> [EssayItems -> Points \cup {NoGrade}]]
    /\ sessionTotal \in [Submissions -> Int \cup {NoGrade}]
    /\ certDesign \in Designs \cup {NoDesign} /\ certEnabled \in BOOLEAN
    /\ certificate \in [Submissions -> Pdfs \cup {NoPdf}]
    /\ gradeNewer \subseteq Submissions /\ designNewer \subseteq Submissions
    /\ needed \in [Submissions -> Nat]
    /\ grading \in [Graders -> Grading]
    /\ examSave \in ExamSave /\ render \in Render
    /\ gradingWrites \in 0..GradingWrites
    /\ totalCrossed \subseteq Submissions /\ pdfCrossed \subseteq Submissions

\* The points a session's essays were given.
Given(scores) ==
    Cardinality({x \in EssayItems \X (1..MaxPoints) :
                   scores[x[1]] # NoGrade /\ x[2] <= scores[x[1]]})

\* computeSessionTotal: the machine has graded when the session was closed; a
\* score not given counts nothing; the sum is clamped at 0.
SumOf(closed, scores) ==
    LET sum == (IF closed THEN MachinePoints ELSE 0) + Given(scores)
    IN  IF sum > 0 THEN sum ELSE 0

\* isFullyGraded
FullyGraded(scores) == \A i \in EssayItems : scores[i] # NoGrade

HasPdf(s) == certificate[s] # NoPdf

\* What a PDF rendered from this design and total shows.
Shows(d, total) == [design |-> d, total |-> IF d \in Scored THEN total ELSE NoGrade]

\* CertificateNeeded for the sessions S, in the transaction of the writer.
Enqueue(S) == needed' = [s \in Submissions |-> needed[s] + IF s \in S THEN 1 ELSE 0]

Sends == gradingWrites < GradingWrites /\ gradingWrites' = gradingWrites + 1

\* History: the requests and the rendering that have read what is written now.
CrossGrading(s) ==
    [g \in Graders |-> IF grading[g].op = "grade" /\ grading[g].of = s
                       THEN [grading[g] EXCEPT !.crossed = TRUE] ELSE grading[g]]
CrossRender(S) ==
    render' = IF render.at \in {"exam", "answers", "stamp"} /\ render.of \in S
              THEN [render EXCEPT !.crossed = TRUE] ELSE render

GradingInit ==
    /\ submitted = {}
    /\ essayScore = [s \in Submissions |-> [i \in EssayItems |-> NoGrade]]
    /\ sessionTotal = [s \in Submissions |-> NoGrade]
    /\ certDesign \in Designs \cup {NoDesign} /\ certEnabled \in BOOLEAN
    /\ certificate = [s \in Submissions |-> NoPdf]
    /\ gradeNewer = {} /\ designNewer = {}
    /\ needed = [s \in Submissions |-> 0]
    /\ grading = [g \in Graders |-> NoGrading]
    /\ examSave = NoSave /\ render = NoRender
    /\ gradingWrites = 0 /\ totalCrossed = {} /\ pdfCrossed = {}

-----------------------------------------------------------------------------
(* Sessions and graders *)

\* An answer to an essay saved while the session is open clears its grade and
\* leaves the session's score.
SaveEssay(s, i) ==
    /\ s \notin submitted /\ essayScore[s][i] # NoGrade
    /\ essayScore' = [essayScore EXCEPT ![s][i] = NoGrade]
    /\ UNCHANGED <<submitted, sessionTotal, examVars, pdfVars, needed, grading, examSave, render,
                   gradingWrites, totalCrossed, pdfCrossed>>

\* finalizeLockedSessionTx, by whoever closes the session: the essays' grades
\* are cleared, the total is the machine's, a certificate is asked for.
SubmitSitting(s) ==
    /\ s \notin submitted
    /\ submitted' = submitted \cup {s}
    /\ essayScore' = [essayScore EXCEPT ![s] = [i \in EssayItems |-> NoGrade]]
    /\ sessionTotal' = [sessionTotal EXCEPT ![s] = SumOf(TRUE, essayScore'[s])]
    /\ Enqueue({s})
    /\ grading' = CrossGrading(s)
    /\ totalCrossed' = totalCrossed \ {s}
    /\ UNCHANGED <<examVars, pdfVars, examSave, render, gradingWrites, pdfCrossed>>

\* GradeEssayAnswer up to its transaction: the essay is one of the session's,
\* whatever the session's status; the grade is in range; the total is added up
\* from the answers read now with the new grade in place.
BeginGrade(g, s, i, p) ==
    /\ grading[g] = NoGrading /\ Sends
    /\ grading' = [grading EXCEPT ![g] =
         [op |-> "grade", of |-> s, item |-> i, points |-> p,
          total |-> SumOf(s \in submitted, [essayScore[s] EXCEPT ![i] = p]), crossed |-> FALSE,
          rendered |-> FALSE]]
    /\ UNCHANGED <<rowVars, examVars, pdfVars, needed, examSave, render, totalCrossed, pdfCrossed>>

\* GradeEssayAnswer's transaction: the grade, the total added up before it, and
\* the request for a certificate.  graded_at is the time the transaction began:
\* a PDF stored since may be after it, and the answer's earlier graded_at is gone.
CommitGrade(g) ==
    LET w == grading[g] IN
    /\ w.op = "grade"
    /\ essayScore' = [essayScore EXCEPT ![w.of][w.item] = w.points]
    /\ sessionTotal' = [sessionTotal EXCEPT ![w.of] = w.total]
    /\ \/ /\ gradeNewer' = IF HasPdf(w.of) THEN gradeNewer \cup {w.of} ELSE gradeNewer
          /\ UNCHANGED pdfCrossed
       \/ /\ w.rendered
          /\ gradeNewer' \in {gradeNewer, gradeNewer \ {w.of}}
          /\ pdfCrossed' = pdfCrossed \cup {w.of}
    /\ Enqueue({w.of})
    /\ totalCrossed' = IF w.crossed THEN totalCrossed \cup {w.of} ELSE totalCrossed \ {w.of}
    /\ grading' = [CrossGrading(w.of) EXCEPT ![g] = NoGrading]
    /\ CrossRender({w.of})
    /\ UNCHANGED <<submitted, examVars, certificate, designNewer, examSave, gradingWrites>>

\* The request dies before it commits, or loses a deadlock with a submit.
DropGrade(g) ==
    /\ grading[g] # NoGrading
    /\ grading' = [grading EXCEPT ![g] = NoGrading]
    /\ UNCHANGED <<rowVars, examVars, pdfVars, needed, examSave, render, gradingWrites,
                   totalCrossed, pdfCrossed>>

-----------------------------------------------------------------------------
(* The administrator's exam.  Bound: one such request at a time. *)

\* UpdateExam with another design or template, up to ListSubmittedSessionIDsTx
\* in its transaction.  The new time of change is taken on the way: a PDF stored
\* from here on is not older than it.
BeginDesign(d) ==
    /\ examSave = NoSave /\ d # certDesign /\ Sends
    /\ examSave' = [op |-> "design", design |-> d, listed |-> submitted, rendered |-> {}]
    /\ UNCHANGED <<rowVars, examVars, pdfVars, needed, grading, render, totalCrossed, pdfCrossed>>

\* SetExamCertificateEnabled, up to the listing: only the switch from off to on
\* fans out.
BeginEnable(on) ==
    /\ examSave = NoSave /\ Sends
    /\ examSave' = [op |-> "enable", on |-> on, fanOut |-> on /\ ~certEnabled,
                    listed |-> submitted]
    /\ UNCHANGED <<rowVars, examVars, pdfVars, needed, grading, render, totalCrossed, pdfCrossed>>

\* The transaction commits.  History: it missed the sessions rendered since it
\* began and those submitted since it listed them.
CommitDesign ==
    /\ examSave.op = "design"
    /\ certDesign' = examSave.design
    /\ designNewer' = {s \in Submissions : HasPdf(s)} \ examSave.rendered
    /\ Enqueue(examSave.listed)
    /\ examSave' = NoSave
    /\ CrossRender(Submissions)
    /\ pdfCrossed' = pdfCrossed \cup examSave.rendered \cup (submitted \ examSave.listed)
    /\ UNCHANGED <<rowVars, certEnabled, certificate, gradeNewer, grading, gradingWrites,
                   totalCrossed>>

CommitEnable ==
    /\ examSave.op = "enable"
    /\ certEnabled' = examSave.on
    /\ Enqueue(IF examSave.fanOut THEN examSave.listed ELSE {})
    /\ examSave' = NoSave
    /\ pdfCrossed' = IF examSave.fanOut THEN pdfCrossed \cup (submitted \ examSave.listed)
                                        ELSE pdfCrossed
    /\ UNCHANGED <<rowVars, certDesign, pdfVars, grading, render, gradingWrites, totalCrossed>>

DropExamSave ==
    /\ examSave # NoSave
    /\ examSave' = NoSave
    /\ UNCHANGED <<rowVars, examVars, pdfVars, needed, grading, render, gradingWrites,
                   totalCrossed, pdfCrossed>>

-----------------------------------------------------------------------------
(* The worker: handleCertificateNeeded and GenerateCertificatePDF *)

renderOnly == <<rowVars, examVars, pdfVars, needed, grading, examSave, gradingWrites,
                totalCrossed, pdfCrossed>>

\* A row is taken up and its session read; of one not submitted nothing is made.
RenderBegin(s) ==
    /\ render = NoRender /\ needed[s] > 0
    /\ render' = IF s \in submitted
                 THEN [at |-> "exam", of |-> s, total |-> sessionTotal[s], design |-> NoDesign,
                       designNewer |-> FALSE, crossed |-> FALSE]
                 ELSE [at |-> "done", of |-> s]
    /\ UNCHANGED renderOnly

\* GetExamForSession: certificates are on and there is a template.
RenderExam ==
    /\ render.at = "exam"
    /\ render' = IF certEnabled /\ certDesign # NoDesign
                 THEN [render EXCEPT !.at = "answers", !.design = certDesign,
                                     !.designNewer = render.of \in designNewer]
                 ELSE [at |-> "done", of |-> render.of]
    /\ UNCHANGED renderOnly

\* certificateNeedsRegeneration: no PDF, a later grade, or a later design.
Regenerate(s, newer) == ~HasPdf(s) \/ s \in gradeNewer \/ newer

\* GetSessionAnswers: a design that shows a score waits for the last grade, and
\* a PDF that is up to date is kept.
RenderAnswers ==
    /\ render.at = "answers"
    /\ LET s == render.of
           ready == render.design \in Scored => FullyGraded(essayScore[s])
       IN  render' = IF ready /\ Regenerate(s, render.designNewer)
                     THEN [render EXCEPT !.at = "stamp"] ELSE [at |-> "done", of |-> s]
    /\ UNCHANGED renderOnly

\* The PDF is rendered, uploaded and stored with the time at the end of it;
\* what is in flight is told.
RenderStamp ==
    /\ render.at = "stamp"
    /\ LET s == render.of IN
       /\ certificate' = [certificate EXCEPT ![s] = Shows(render.design, render.total)]
       /\ gradeNewer' = gradeNewer \ {s} /\ designNewer' = designNewer \ {s}
       /\ grading' = [g \in Graders |-> IF grading[g].op = "grade" /\ grading[g].of = s
                                         THEN [grading[g] EXCEPT !.rendered = TRUE] ELSE grading[g]]
       /\ examSave' = IF examSave.op = "design"
                      THEN [examSave EXCEPT !.rendered = @ \cup {s}] ELSE examSave
       /\ pdfCrossed' = IF render.crossed THEN pdfCrossed \cup {s} ELSE pdfCrossed \ {s}
    /\ render' = [at |-> "done", of |-> render.of]
    /\ UNCHANGED <<rowVars, examVars, needed, gradingWrites, totalCrossed>>

RenderProcessed_Slip ==
    /\ render.at = "done"
    /\ needed' = [needed EXCEPT ![render.of] = 0]
    /\ render' = NoRender
    /\ UNCHANGED <<rowVars, examVars, pdfVars, grading, examSave, gradingWrites, totalCrossed,
                   pdfCrossed>>

\* The row is marked processed, in a transaction of its own.
RenderProcessed ==
    /\ render.at = "done"
    /\ needed' = [needed EXCEPT ![render.of] = @ - 1]
    /\ render' = NoRender
    /\ UNCHANGED <<rowVars, examVars, pdfVars, grading, examSave, gradingWrites, totalCrossed,
                   pdfCrossed>>

\* A step fails or the worker dies: the row is taken up again.
RenderFails ==
    /\ render # NoRender
    /\ render' = NoRender
    /\ UNCHANGED renderOnly

-----------------------------------------------------------------------------

GradingNext ==
    \/ \E s \in Submissions : SubmitSitting(s) \/ RenderBegin(s)
    \/ \E s \in Submissions, i \in EssayItems : SaveEssay(s, i)
    \/ \E g \in Graders, s \in Submissions, i \in EssayItems, p \in Points : BeginGrade(g, s, i, p)
    \/ \E g \in Graders : CommitGrade(g) \/ DropGrade(g)
    \/ \E d \in Designs \cup {NoDesign} : BeginDesign(d)
    \/ \E on \in BOOLEAN : BeginEnable(on)
    \/ CommitDesign \/ CommitEnable \/ DropExamSave
    \/ RenderExam \/ RenderAnswers \/ RenderStamp \/ RenderProcessed \/ RenderFails

GradingSpec == GradingInit /\ [][GradingNext]_gradingVars

-----------------------------------------------------------------------------
(* What makes results and certificates right *)

\* The session's total is the sum of its marks, unless the grade that wrote it
\* was given while another grade or the submit went on.
TotalsAddUp ==
    \A s \in submitted \ totalCrossed : sessionTotal[s] = SumOf(TRUE, essayScore[s])

Due(s) ==
    /\ certEnabled /\ certDesign # NoDesign
    /\ certDesign \in Scored => FullyGraded(essayScore[s])

\* When no CertificateNeeded row of a session is left, its certificate shows
\* the design and the total as they are, whatever grades, designs, switches,
\* failures and repeated rows came in between; unless the last change of them
\* and the rendering went on at the same time.
CertificatesAreCurrent ==
    \A s \in submitted \ pdfCrossed :
        Due(s) /\ needed[s] = 0 => certificate[s] = Shows(certDesign, sessionTotal[s])

\* The results that are settled are right: totals and certificates.
SettledIsCurrent == TotalsAddUp /\ CertificatesAreCurrent

===============================================================================
