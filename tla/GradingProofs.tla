----------------------------- MODULE GradingProofs -----------------------------
(***************************************************************************)
(* Totals add up and certificates are current, for every number of         *)
(* sessions, essays, graders and designs.                                  *)
(***************************************************************************)
EXTENDS ExamLife, FiniteSetTheorems, TLAPS

\* The row being rendered is still there: only the worker removes rows.
RowsRemain == render.at # "idle" => needed[render.of] > 0

\* Only an exam with a template gets as far as its answers.
RendersADesign == render.at \in {"answers", "stamp"} => render.design \in Designs

\* The row of session s is being worked on; it has read rows and not stored yet.
Held(s) == IF render.at # "idle" /\ render.of = s THEN 1 ELSE 0
Busy    == render.at \in {"exam", "answers", "stamp"}

\* A total that no write crossed is the sum of the marks as they are, with the
\* new one.
TotalsRead ==
    \A g \in Graders :
        LET w == grading[g] IN
        w.op = "grade" /\ w.of \in submitted =>
            w.crossed \/ w.total = SumOf(TRUE, [essayScore[w.of] EXCEPT ![w.item] = w.points])

\* Only sessions that are submitted have a certificate or are rendered.
PdfsOfSubmitted ==
    /\ \A s \in Submissions : HasPdf(s) => s \in submitted
    /\ Busy => render.of \in submitted

\* What the worker has read and no write crossed is what is stored.
RendersWhatIs ==
    Busy /\ ~render.crossed =>
        /\ render.total = sessionTotal[render.of]
        /\ render.at # "exam" => render.design = certDesign
        /\ render.at # "exam" => (render.designNewer <=> render.of \in designNewer)

\* A PDF that no time of change is after shows what is stored.
UpToDateIsCurrent ==
    \A s \in submitted \ pdfCrossed :
        HasPdf(s) /\ s \notin gradeNewer /\ s \notin designNewer =>
            certificate[s] = Shows(certDesign, sessionTotal[s])

\* A switch on that does not fan out found it on.
EnableSeen == examSave.op = "enable" => ~examSave.on \/ examSave.fanOut \/ certEnabled

\* A certificate that is due and not current has a row nobody took up, or is
\* being rendered from what is stored.
StaleIsOwed ==
    \A s \in submitted \ pdfCrossed :
        Due(s) /\ certificate[s] # Shows(certDesign, sessionTotal[s]) =>
            \/ needed[s] > Held(s)
            \/ Busy /\ render.of = s /\ ~render.crossed

GradingInv ==
    /\ GradingTypeOK /\ RowsRemain /\ RendersADesign
    /\ TotalsRead /\ TotalsAddUp
    /\ PdfsOfSubmitted /\ RendersWhatIs /\ UpToDateIsCurrent /\ EnableSeen /\ StaleIsOwed

-----------------------------------------------------------------------------
(* Types *)

\* The points given are a number, so a total is one.
LEMMA SumIsNumber ==
    ASSUME NEW closed \in BOOLEAN, NEW scores
    PROVE  SumOf(closed, scores) \in Int
<1> DEFINE S == {x \in EssayItems \X (1..MaxPoints) :
                   scores[x[1]] # NoGrade /\ x[2] <= scores[x[1]]}
<1>a. IsFiniteSet(EssayItems) /\ MaxPoints \in Int
  BY GradingConstants
<1>b. IsFiniteSet(1..MaxPoints)
  BY <1>a, FS_Interval
<1>1. IsFiniteSet(EssayItems \X (1..MaxPoints))
  BY <1>a, <1>b, FS_Product
<1>2. S \subseteq EssayItems \X (1..MaxPoints)
  OBVIOUS
<1>3. Cardinality(S) \in Nat
  BY <1>1, <1>2, FS_Subset, FS_CardinalityType
<1>4. Given(scores) \in Nat
  BY <1>3 DEF Given
<1> QED
  BY <1>4, GradingConstants DEF SumOf

\* The initial state has the types.
LEMMA TypesInit == GradingInit => GradingTypeOK
BY GradingConstants
   DEF GradingInit, GradingTypeOK, Grading, ExamSave, Render, NoGrading, NoSave, NoRender

\* What the writers do to the requests and to the rendering keeps their types.
LEMMA CrossTypes ==
    ASSUME GradingTypeOK, NEW s \in Submissions, NEW S \in SUBSET Submissions
    PROVE  /\ CrossGrading(s) \in [Graders -> Grading]
           /\ CrossRender(S) => render' \in Render
           /\ Enqueue(S) => needed' \in [Submissions -> Nat]
<1>1. CrossGrading(s) \in [Graders -> Grading]
  <2> SUFFICES ASSUME NEW g \in Graders
               PROVE  (IF grading[g].op = "grade" /\ grading[g].of = s
                       THEN [grading[g] EXCEPT !.crossed = TRUE] ELSE grading[g]) \in Grading
    BY DEF CrossGrading
  <2>1. grading[g] \in Grading
    BY DEF GradingTypeOK
  <2>2. CASE grading[g].op = "grade"
    <3>1. grading[g] \in [op : {"grade"}, of : Submissions, item : EssayItems, points : Points,
                          total : Int, crossed : BOOLEAN, rendered : BOOLEAN]
      BY <2>1, <2>2 DEF Grading, NoGrading
    <3>2. [grading[g] EXCEPT !.crossed = TRUE]
            \in [op : {"grade"}, of : Submissions, item : EssayItems, points : Points,
                 total : Int, crossed : BOOLEAN, rendered : BOOLEAN]
      BY <3>1
    <3> QED
      BY <2>1, <3>2 DEF Grading
  <2>3. CASE grading[g].op # "grade"
    BY <2>1, <2>3
  <2> QED
    BY <2>2, <2>3
<1>2. CrossRender(S) => render' \in Render
  BY DEF CrossRender, GradingTypeOK, Render, NoRender
<1>3. Enqueue(S) => needed' \in [Submissions -> Nat]
  BY DEF Enqueue, GradingTypeOK
<1> QED
  BY <1>1, <1>2, <1>3

\* What a PDF stored tells a request in flight.
Told(s) == [g \in Graders |-> IF grading[g].op = "grade" /\ grading[g].of = s
                              THEN [grading[g] EXCEPT !.rendered = TRUE] ELSE grading[g]]

\* It changes nothing else.
LEMMA ToldTypes ==
    ASSUME GradingTypeOK, NEW s
    PROVE  /\ Told(s) \in [Graders -> Grading]
           /\ \A g \in Graders :
                /\ Told(s)[g].op = grading[g].op
                /\ grading[g].op = "grade" =>
                     /\ Told(s)[g].of = grading[g].of /\ Told(s)[g].item = grading[g].item
                     /\ Told(s)[g].points = grading[g].points
                     /\ Told(s)[g].total = grading[g].total
                     /\ Told(s)[g].crossed = grading[g].crossed
<1> SUFFICES ASSUME NEW g \in Graders
             PROVE  /\ Told(s)[g] \in Grading
                    /\ Told(s)[g].op = grading[g].op
                    /\ grading[g].op = "grade" =>
                         /\ Told(s)[g].of = grading[g].of /\ Told(s)[g].item = grading[g].item
                         /\ Told(s)[g].points = grading[g].points
                         /\ Told(s)[g].total = grading[g].total
                         /\ Told(s)[g].crossed = grading[g].crossed
  BY DEF Told
<1>1. grading[g] \in Grading
  BY DEF GradingTypeOK
<1>2. CASE grading[g].op = "grade" /\ grading[g].of = s
  <2>1. grading[g] \in [op : {"grade"}, of : Submissions, item : EssayItems, points : Points,
                        total : Int, crossed : BOOLEAN, rendered : BOOLEAN]
    BY <1>1, <1>2 DEF Grading, NoGrading
  <2>2. Told(s)[g] = [grading[g] EXCEPT !.rendered = TRUE]
    BY <1>2 DEF Told
  <2>3. Told(s)[g] \in [op : {"grade"}, of : Submissions, item : EssayItems, points : Points,
                        total : Int, crossed : BOOLEAN, rendered : BOOLEAN]
    BY <2>1, <2>2
  <2> QED
    BY <2>1, <2>2, <2>3 DEF Grading
<1>3. CASE ~(grading[g].op = "grade" /\ grading[g].of = s)
  BY <1>1, <1>3 DEF Told
<1> QED
  BY <1>2, <1>3

\* Every action keeps the types.
LEMMA TypesStep ==
    ASSUME GradingTypeOK, RowsRemain, RendersADesign, [GradingNext]_gradingVars
    PROVE  GradingTypeOK'
<1> USE GradingConstants
<1> USE DEF rowVars, examVars, pdfVars, renderOnly
<1>1. ASSUME NEW s \in Submissions, SubmitSitting(s) PROVE GradingTypeOK'
  <2>1. SumOf(TRUE, essayScore'[s]) \in Int
    BY SumIsNumber
  <2>2. CrossGrading(s) \in [Graders -> Grading] /\ needed' \in [Submissions -> Nat]
    BY <1>1, CrossTypes, {s} \in SUBSET Submissions DEF SubmitSitting
  <2> QED
    BY <1>1, <2>1, <2>2 DEF SubmitSitting, GradingTypeOK
<1>2. ASSUME NEW s \in Submissions, RenderBegin(s) PROVE GradingTypeOK'
  BY <1>2 DEF RenderBegin, GradingTypeOK, Render
<1>3. ASSUME NEW s \in Submissions, NEW i \in EssayItems, SaveEssay(s, i) PROVE GradingTypeOK'
  BY <1>3 DEF SaveEssay, GradingTypeOK
<1>4. ASSUME NEW g \in Graders, NEW s \in Submissions, NEW i \in EssayItems, NEW p \in Points,
             BeginGrade(g, s, i, p)
      PROVE  GradingTypeOK'
  <2> DEFINE total == SumOf(s \in submitted, [essayScore[s] EXCEPT ![i] = p])
  <2>1. total \in Int
    <3>1. (s \in submitted) \in BOOLEAN
      OBVIOUS
    <3> QED
      BY <3>1, SumIsNumber
  <2> HIDE DEF total
  <2>2. gradingWrites' \in 0..GradingWrites
    BY <1>4 DEF BeginGrade, Sends, GradingTypeOK
  <2>3. grading' \in [Graders -> Grading]
    <3>1. grading' = [grading EXCEPT ![g] =
             [op |-> "grade", of |-> s, item |-> i, points |-> p, total |-> total,
              crossed |-> FALSE, rendered |-> FALSE]]
      BY <1>4 DEF BeginGrade, total
    <3> QED
      BY <2>1, <3>1 DEF GradingTypeOK, Grading
  <2> QED
    BY <1>4, <2>2, <2>3 DEF BeginGrade, GradingTypeOK
<1>5. ASSUME NEW g \in Graders, CommitGrade(g) PROVE GradingTypeOK'
  <2>1. /\ grading[g].of \in Submissions /\ grading[g].item \in EssayItems
        /\ grading[g].points \in Points /\ grading[g].total \in Int
    BY <1>5 DEF CommitGrade, GradingTypeOK, Grading, NoGrading
  <2>2. /\ CrossGrading(grading[g].of) \in [Graders -> Grading]
        /\ render' \in Render /\ needed' \in [Submissions -> Nat]
    BY <1>5, <2>1, CrossTypes, {grading[g].of} \in SUBSET Submissions DEF CommitGrade
  <2>3. grading' \in [Graders -> Grading]
    BY <1>5, <2>2 DEF CommitGrade, Grading
  <2>4. /\ essayScore' \in [Submissions -> [EssayItems -> Points \cup {NoGrade}]]
        /\ sessionTotal' \in [Submissions -> Int \cup {NoGrade}]
    BY <1>5, <2>1 DEF CommitGrade, GradingTypeOK
  <2> QED
    BY <1>5, <2>1, <2>2, <2>3, <2>4 DEF CommitGrade, GradingTypeOK
<1>6. ASSUME NEW g \in Graders, DropGrade(g) PROVE GradingTypeOK'
  BY <1>6 DEF DropGrade, GradingTypeOK, Grading
<1>7. ASSUME NEW d \in Designs \cup {NoDesign}, BeginDesign(d) PROVE GradingTypeOK'
  BY <1>7 DEF BeginDesign, Sends, GradingTypeOK, ExamSave
<1>8. ASSUME NEW on \in BOOLEAN, BeginEnable(on) PROVE GradingTypeOK'
  BY <1>8 DEF BeginEnable, Sends, GradingTypeOK, ExamSave
<1>9. CASE CommitDesign
  <2>1. examSave.design \in Designs \cup {NoDesign} /\ examSave.listed \in SUBSET Submissions
        /\ examSave.rendered \in SUBSET Submissions
    BY <1>9 DEF CommitDesign, GradingTypeOK, ExamSave, NoSave
  <2>2. render' \in Render /\ needed' \in [Submissions -> Nat]
    <3>1. render' \in Render
      BY <1>9 DEF CommitDesign, CrossRender, GradingTypeOK, Render, NoRender
    <3>2. needed' \in [Submissions -> Nat]
      BY <1>9 DEF CommitDesign, Enqueue, GradingTypeOK
    <3> QED
      BY <3>1, <3>2
  <2> QED
    BY <1>9, <2>1, <2>2 DEF CommitDesign, GradingTypeOK, ExamSave
<1>10. CASE CommitEnable
  <2>1. examSave.on \in BOOLEAN /\ examSave.listed \in SUBSET Submissions
    BY <1>10 DEF CommitEnable, GradingTypeOK, ExamSave, NoSave
  <2>2. needed' \in [Submissions -> Nat]
    BY <1>10 DEF CommitEnable, Enqueue, GradingTypeOK
  <2> QED
    BY <1>10, <2>1, <2>2 DEF CommitEnable, GradingTypeOK, ExamSave
<1>11. CASE DropExamSave
  BY <1>11 DEF DropExamSave, GradingTypeOK, ExamSave
<1>12. CASE RenderExam
  <2>1. render \in [at : {"exam", "answers", "stamp"}, of : Submissions, total : Int \cup {NoGrade},
                    design : Designs \cup {NoDesign}, designNewer : BOOLEAN, crossed : BOOLEAN]
    BY <1>12 DEF RenderExam, GradingTypeOK, Render, NoRender
  <2>2. render' \in Render
    <3>1. CASE certEnabled /\ certDesign # NoDesign
      <4> DEFINE next == [render EXCEPT !.at = "answers", !.design = certDesign,
                                        !.designNewer = render.of \in designNewer]
      <4>1. render' = next
        BY <1>12, <3>1 DEF RenderExam
      <4>2. certDesign \in Designs \cup {NoDesign} /\ (render.of \in designNewer) \in BOOLEAN
        BY DEF GradingTypeOK
      <4>3. next \in [at : {"exam", "answers", "stamp"}, of : Submissions,
                      total : Int \cup {NoGrade}, design : Designs \cup {NoDesign},
                      designNewer : BOOLEAN, crossed : BOOLEAN]
        BY <2>1, <4>2
      <4> QED
        BY <4>1, <4>3 DEF Render
    <3>2. CASE ~(certEnabled /\ certDesign # NoDesign)
      BY <1>12, <2>1, <3>2 DEF RenderExam, Render
    <3> QED
      BY <3>1, <3>2
  <2> QED
    BY <1>12, <2>2 DEF RenderExam, GradingTypeOK
<1>13. CASE RenderAnswers
  <2>1. render \in [at : {"exam", "answers", "stamp"}, of : Submissions, total : Int \cup {NoGrade},
                    design : Designs \cup {NoDesign}, designNewer : BOOLEAN, crossed : BOOLEAN]
    BY <1>13 DEF RenderAnswers, GradingTypeOK, Render, NoRender
  <2>2. render' \in Render
    BY <1>13, <2>1 DEF RenderAnswers, Render
  <2> QED
    BY <1>13, <2>2 DEF RenderAnswers, GradingTypeOK
<1>14. CASE RenderStamp
  <2>1. render \in [at : {"exam", "answers", "stamp"}, of : Submissions, total : Int \cup {NoGrade},
                    design : Designs \cup {NoDesign}, designNewer : BOOLEAN, crossed : BOOLEAN]
    BY <1>14 DEF RenderStamp, GradingTypeOK, Render, NoRender
  <2>2. examSave' \in ExamSave
    BY <1>14, <2>1 DEF RenderStamp, GradingTypeOK, ExamSave, NoSave
  <2>6. grading' \in [Graders -> Grading]
    <3>1. grading' = Told(render.of)
      BY <1>14 DEF RenderStamp, Told
    <3> QED
      BY <3>1, ToldTypes
  <2>3. Shows(render.design, render.total) \in Pdfs
    BY <1>14, <2>1 DEF RenderStamp, RendersADesign, Shows, Pdfs
  <2>4. certificate' \in [Submissions -> Pdfs \cup {NoPdf}]
    BY <1>14, <2>1, <2>3 DEF RenderStamp, GradingTypeOK
  <2>5. gradeNewer' \subseteq Submissions /\ designNewer' \subseteq Submissions
        /\ pdfCrossed' \subseteq Submissions /\ render' \in Render
    BY <1>14, <2>1 DEF RenderStamp, GradingTypeOK, Render
  <2> QED
    BY <1>14, <2>2, <2>4, <2>5, <2>6 DEF RenderStamp, GradingTypeOK
<1>15. CASE RenderProcessed
  <2>1. render.of \in Submissions /\ needed[render.of] > 0
    BY <1>15 DEF RenderProcessed, RowsRemain, GradingTypeOK, Render, NoRender
  <2> QED
    BY <1>15, <2>1 DEF RenderProcessed, GradingTypeOK, Render
<1>16. CASE RenderFails
  BY <1>16 DEF RenderFails, GradingTypeOK, Render
<1>17. CASE UNCHANGED gradingVars
  BY <1>17 DEF gradingVars, GradingTypeOK
<1> QED
  BY <1>1, <1>2, <1>3, <1>4, <1>5, <1>6, <1>7, <1>8, <1>9, <1>10, <1>11, <1>12, <1>13, <1>14,
     <1>15, <1>16, <1>17 DEF GradingNext

-----------------------------------------------------------------------------
(* Facts about the writers *)

\* A write leaves the rendering's row and readings; the sessions it changes are crossed.
LEMMA CrossedRender ==
    ASSUME GradingTypeOK, NEW S \in SUBSET Submissions, CrossRender(S)
    PROVE  /\ render'.at = render.at
           /\ render.at # "idle" => render'.of = render.of
           /\ Busy => /\ render'.total = render.total /\ render'.design = render.design
                      /\ render'.designNewer = render.designNewer
                      /\ ~render'.crossed => ~render.crossed /\ render.of \notin S
BY DEF CrossRender, GradingTypeOK, Render, NoRender, Busy

\* The same for the requests.
LEMMA CrossedGrading ==
    ASSUME GradingTypeOK, NEW s \in Submissions, NEW g \in Graders
    PROVE  LET w == CrossGrading(s)[g] IN
           /\ w.op = grading[g].op
           /\ w.op = "grade" =>
                /\ w.of = grading[g].of /\ w.item = grading[g].item
                /\ w.points = grading[g].points /\ w.total = grading[g].total
                /\ ~w.crossed => ~grading[g].crossed /\ w.of # s
<1>1. grading[g] \in Grading
  BY DEF GradingTypeOK
<1>2. CrossGrading(s)[g] = IF grading[g].op = "grade" /\ grading[g].of = s
                           THEN [grading[g] EXCEPT !.crossed = TRUE] ELSE grading[g]
  BY DEF CrossGrading
<1>3. CASE grading[g].op = "grade"
  BY <1>1, <1>2, <1>3 DEF Grading, NoGrading
<1>4. CASE grading[g].op # "grade"
  BY <1>2, <1>4
<1> QED
  BY <1>3, <1>4

\* The row a busy worker is at, and what it read.
LEMMA RenderTypes ==
    ASSUME GradingTypeOK
    PROVE  /\ render.at # "idle" => render.of \in Submissions
           /\ Busy => /\ render.total \in Int \cup {NoGrade}
                      /\ render.design \in Designs \cup {NoDesign}
                      /\ render.designNewer \in BOOLEAN /\ render.crossed \in BOOLEAN
           /\ render = NoRender => ~Busy
           /\ render.at = "idle" => render = NoRender
BY DEF GradingTypeOK, Render, NoRender, Busy

-----------------------------------------------------------------------------
(* The worker's row *)

\* Only the worker removes rows, one it holds.
LEMMA RowsStep ==
    ASSUME GradingTypeOK, RowsRemain, RendersADesign, [GradingNext]_gradingVars
    PROVE  RowsRemain' /\ RendersADesign'
<1> USE DEF rowVars, examVars, pdfVars, renderOnly
<1> USE RenderTypes
<1>1. ASSUME NEW s \in Submissions, SubmitSitting(s) PROVE RowsRemain' /\ RendersADesign'
  BY <1>1 DEF SubmitSitting, Enqueue, GradingTypeOK, RowsRemain, RendersADesign
<1>2. ASSUME NEW s \in Submissions, RenderBegin(s) PROVE RowsRemain' /\ RendersADesign'
  BY <1>2 DEF RenderBegin, RowsRemain, RendersADesign
<1>3. ASSUME NEW g \in Graders, CommitGrade(g) PROVE RowsRemain' /\ RendersADesign'
  <2>1. grading[g].of \in Submissions
    BY <1>3 DEF CommitGrade, GradingTypeOK, Grading, NoGrading
  <2>2. /\ render'.at = render.at
        /\ render.at # "idle" => render'.of = render.of
        /\ Busy => render'.design = render.design
    BY <1>3, <2>1, CrossedRender, {grading[g].of} \in SUBSET Submissions DEF CommitGrade
  <2> QED
    BY <1>3, <2>1, <2>2 DEF CommitGrade, Enqueue, GradingTypeOK, RowsRemain, RendersADesign, Busy
<1>4. CASE CommitDesign
  <2>1. /\ render'.at = render.at
        /\ render.at # "idle" => render'.of = render.of
        /\ Busy => render'.design = render.design
    BY <1>4, CrossedRender, Submissions \in SUBSET Submissions DEF CommitDesign
  <2> QED
    BY <1>4, <2>1 DEF CommitDesign, Enqueue, GradingTypeOK, RowsRemain, RendersADesign, Busy
<1>5. CASE CommitEnable
  BY <1>5 DEF CommitEnable, Enqueue, GradingTypeOK, RowsRemain, RendersADesign
<1>6. CASE RenderExam
  BY <1>6 DEF RenderExam, RowsRemain, RendersADesign, GradingTypeOK, Render, NoRender
<1>7. CASE RenderAnswers
  BY <1>7 DEF RenderAnswers, RowsRemain, RendersADesign, GradingTypeOK, Render, NoRender
<1>8. CASE RenderStamp
  BY <1>8 DEF RenderStamp, RowsRemain, RendersADesign
<1>9. CASE RenderProcessed \/ RenderFails
  BY <1>9 DEF RenderProcessed, RenderFails, RowsRemain, RendersADesign, NoRender
<1>10. ASSUME UNCHANGED <<needed, render>> PROVE RowsRemain' /\ RendersADesign'
  BY <1>10 DEF RowsRemain, RendersADesign
<1>11. ASSUME NEW s \in Submissions, NEW i \in EssayItems, SaveEssay(s, i)
       PROVE  UNCHANGED <<needed, render>>
  BY <1>11 DEF SaveEssay
<1>12. ASSUME NEW g \in Graders, NEW s \in Submissions, NEW i \in EssayItems, NEW p \in Points,
              BeginGrade(g, s, i, p)
       PROVE  UNCHANGED <<needed, render>>
  BY <1>12 DEF BeginGrade
<1>13. ASSUME NEW g \in Graders, DropGrade(g) PROVE UNCHANGED <<needed, render>>
  BY <1>13 DEF DropGrade
<1>14. ASSUME NEW d \in Designs \cup {NoDesign}, BeginDesign(d) PROVE UNCHANGED <<needed, render>>
  BY <1>14 DEF BeginDesign
<1>15. ASSUME NEW on \in BOOLEAN, BeginEnable(on) PROVE UNCHANGED <<needed, render>>
  BY <1>15 DEF BeginEnable
<1>16. CASE DropExamSave
  BY <1>16, <1>10 DEF DropExamSave
<1>17. CASE UNCHANGED gradingVars
  BY <1>17, <1>10 DEF gradingVars
<1> QED
  BY <1>1, <1>2, <1>3, <1>4, <1>5, <1>6, <1>7, <1>8, <1>9, <1>10, <1>11, <1>12, <1>13, <1>14,
     <1>15, <1>16, <1>17 DEF GradingNext

-----------------------------------------------------------------------------
(* Totals *)

\* A total is written from rows that no write changed since, or its session is crossed.
LEMMA TotalsStep ==
    ASSUME GradingTypeOK, TotalsRead, TotalsAddUp, [GradingNext]_gradingVars
    PROVE  TotalsRead' /\ TotalsAddUp'
<1> USE DEF rowVars, examVars, pdfVars, renderOnly
<1>1. ASSUME NEW s \in Submissions, SubmitSitting(s) PROVE TotalsRead' /\ TotalsAddUp'
  <2>1. TotalsRead'
    <3> SUFFICES ASSUME NEW g \in Graders, grading'[g].op = "grade",
                        grading'[g].of \in submitted', ~grading'[g].crossed
                 PROVE  grading'[g].total = SumOf(TRUE, [essayScore'[grading'[g].of]
                                              EXCEPT ![grading'[g].item] = grading'[g].points])
      BY DEF TotalsRead
    <3>1. /\ grading[g].op = "grade" /\ grading'[g].of = grading[g].of
          /\ grading'[g].item = grading[g].item /\ grading'[g].points = grading[g].points
          /\ grading'[g].total = grading[g].total
          /\ ~grading[g].crossed /\ grading[g].of # s
      BY <1>1, CrossedGrading DEF SubmitSitting
    <3>2. grading[g].of \in submitted /\ essayScore'[grading[g].of] = essayScore[grading[g].of]
      BY <1>1, <3>1 DEF SubmitSitting, GradingTypeOK
    <3> QED
      BY <3>1, <3>2 DEF TotalsRead
  <2>2. TotalsAddUp'
    <3> SUFFICES ASSUME NEW x \in submitted' \ totalCrossed'
                 PROVE  sessionTotal'[x] = SumOf(TRUE, essayScore'[x])
      BY DEF TotalsAddUp
    <3>1. CASE x = s
      BY <1>1, <3>1 DEF SubmitSitting, GradingTypeOK
    <3>2. CASE x # s
      BY <1>1, <3>2 DEF SubmitSitting, GradingTypeOK, TotalsAddUp
    <3> QED
      BY <3>1, <3>2
  <2> QED
    BY <2>1, <2>2
<1>2. ASSUME NEW s \in Submissions, NEW i \in EssayItems, SaveEssay(s, i)
      PROVE  TotalsRead' /\ TotalsAddUp'
  <2>1. \A x \in submitted : essayScore'[x] = essayScore[x]
    BY <1>2 DEF SaveEssay, GradingTypeOK
  <2> QED
    BY <1>2, <2>1 DEF SaveEssay, TotalsRead, TotalsAddUp
<1>3. ASSUME NEW g \in Graders, NEW s \in Submissions, NEW i \in EssayItems, NEW p \in Points,
             BeginGrade(g, s, i, p)
      PROVE  TotalsRead' /\ TotalsAddUp'
  <2>1. TotalsAddUp'
    BY <1>3 DEF BeginGrade, TotalsAddUp
  <2>2. TotalsRead'
    <3> SUFFICES ASSUME NEW h \in Graders, grading'[h].op = "grade",
                        grading'[h].of \in submitted', ~grading'[h].crossed
                 PROVE  grading'[h].total = SumOf(TRUE, [essayScore'[grading'[h].of]
                                              EXCEPT ![grading'[h].item] = grading'[h].points])
      BY DEF TotalsRead
    <3>1. submitted' = submitted /\ essayScore' = essayScore
      BY <1>3 DEF BeginGrade
    <3>2. CASE h = g
      <4> DEFINE total == SumOf(s \in submitted, [essayScore[s] EXCEPT ![i] = p])
      <4>1. /\ grading'[h].of = s /\ grading'[h].item = i /\ grading'[h].points = p
            /\ grading'[h].total = total
        BY <1>3, <3>2 DEF BeginGrade, GradingTypeOK
      <4>2. (s \in submitted) = TRUE
        BY <3>1, <4>1
      <4> QED
        BY <3>1, <4>1, <4>2
    <3>3. CASE h # g
      BY <1>3, <3>1, <3>3 DEF BeginGrade, GradingTypeOK, TotalsRead
    <3> QED
      BY <3>2, <3>3
  <2> QED
    BY <2>1, <2>2
<1>4. ASSUME NEW g \in Graders, CommitGrade(g) PROVE TotalsRead' /\ TotalsAddUp'
  <2> DEFINE w == grading[g]
  <2>1. w.op = "grade" /\ w.of \in Submissions
    BY <1>4 DEF CommitGrade, GradingTypeOK, Grading, NoGrading
  <2>2. TotalsRead'
    <3> SUFFICES ASSUME NEW h \in Graders, grading'[h].op = "grade",
                        grading'[h].of \in submitted', ~grading'[h].crossed
                 PROVE  grading'[h].total = SumOf(TRUE, [essayScore'[grading'[h].of]
                                              EXCEPT ![grading'[h].item] = grading'[h].points])
      BY DEF TotalsRead
    <3>1. h # g /\ grading'[h] = CrossGrading(w.of)[h]
      BY <1>4 DEF CommitGrade, CrossGrading, NoGrading
    <3>2. /\ grading[h].op = "grade" /\ grading'[h].of = grading[h].of
          /\ grading'[h].item = grading[h].item /\ grading'[h].points = grading[h].points
          /\ grading'[h].total = grading[h].total
          /\ ~grading[h].crossed /\ grading[h].of # w.of
      BY <2>1, <3>1, CrossedGrading
    <3>3. grading[h].of \in submitted /\ essayScore'[grading[h].of] = essayScore[grading[h].of]
      BY <1>4, <3>2 DEF CommitGrade, GradingTypeOK
    <3> QED
      BY <3>2, <3>3 DEF TotalsRead
  <2>3. TotalsAddUp'
    <3> SUFFICES ASSUME NEW x \in submitted' \ totalCrossed'
                 PROVE  sessionTotal'[x] = SumOf(TRUE, essayScore'[x])
      BY DEF TotalsAddUp
    <3>1. x \in submitted /\ x \in Submissions
      BY <1>4 DEF CommitGrade, GradingTypeOK
    <3>2. CASE x = w.of
      <4>1. ~w.crossed
        BY <1>4, <3>2 DEF CommitGrade
      <4>2. w.total = SumOf(TRUE, [essayScore[x] EXCEPT ![w.item] = w.points])
        BY <2>1, <3>1, <3>2, <4>1 DEF TotalsRead
      <4>3. /\ sessionTotal'[x] = w.total
            /\ essayScore'[x] = [essayScore[x] EXCEPT ![w.item] = w.points]
        BY <1>4, <3>1, <3>2 DEF CommitGrade, GradingTypeOK
      <4> QED
        BY <4>2, <4>3
    <3>3. CASE x # w.of
      BY <1>4, <3>1, <3>3 DEF CommitGrade, GradingTypeOK, TotalsAddUp
    <3> QED
      BY <3>2, <3>3
  <2> QED
    BY <2>2, <2>3
<1>5. ASSUME NEW g \in Graders, DropGrade(g) PROVE TotalsRead' /\ TotalsAddUp'
  BY <1>5 DEF DropGrade, NoGrading, GradingTypeOK, TotalsRead, TotalsAddUp
<1>6. ASSUME UNCHANGED <<submitted, essayScore, sessionTotal, grading, totalCrossed>>
      PROVE  TotalsRead' /\ TotalsAddUp'
  BY <1>6 DEF TotalsRead, TotalsAddUp
<1>7. ASSUME NEW s \in Submissions, RenderBegin(s) PROVE TotalsRead' /\ TotalsAddUp'
  BY <1>6, <1>7 DEF RenderBegin
<1>8. ASSUME NEW d \in Designs \cup {NoDesign}, BeginDesign(d) PROVE TotalsRead' /\ TotalsAddUp'
  BY <1>6, <1>8 DEF BeginDesign
<1>9. ASSUME NEW on \in BOOLEAN, BeginEnable(on) PROVE TotalsRead' /\ TotalsAddUp'
  BY <1>6, <1>9 DEF BeginEnable
<1>10. CASE CommitDesign \/ CommitEnable \/ DropExamSave
  BY <1>6, <1>10 DEF CommitDesign, CommitEnable, DropExamSave
<1>11. CASE RenderExam \/ RenderAnswers \/ RenderProcessed \/ RenderFails
  BY <1>6, <1>11 DEF RenderExam, RenderAnswers, RenderProcessed, RenderFails
<1>13. CASE RenderStamp
  <2>1. UNCHANGED <<submitted, essayScore, sessionTotal, totalCrossed>>
    BY <1>13 DEF RenderStamp
  <2>2. grading' = Told(render.of)
    BY <1>13 DEF RenderStamp, Told
  <2>3. TotalsAddUp'
    BY <2>1 DEF TotalsAddUp
  <2>4. TotalsRead'
    <3> SUFFICES ASSUME NEW g \in Graders, grading'[g].op = "grade",
                        grading'[g].of \in submitted', ~grading'[g].crossed
                 PROVE  grading'[g].total = SumOf(TRUE, [essayScore'[grading'[g].of]
                                              EXCEPT ![grading'[g].item] = grading'[g].points])
      BY DEF TotalsRead
    <3>1. /\ grading[g].op = "grade" /\ grading'[g].of = grading[g].of
          /\ grading'[g].item = grading[g].item /\ grading'[g].points = grading[g].points
          /\ grading'[g].total = grading[g].total /\ ~grading[g].crossed
      BY <2>2, ToldTypes
    <3> QED
      BY <2>1, <3>1 DEF TotalsRead
  <2> QED
    BY <2>3, <2>4
<1>12. CASE UNCHANGED gradingVars
  BY <1>6, <1>12 DEF gradingVars
<1> QED
  BY <1>1, <1>2, <1>3, <1>4, <1>5, <1>7, <1>8, <1>9, <1>10, <1>11, <1>12, <1>13
     DEF GradingNext

-----------------------------------------------------------------------------
(* Certificates *)

\* Certificates are of submitted sessions, and a switch on knows what it found.
LEMMA PdfsStep ==
    ASSUME GradingTypeOK, PdfsOfSubmitted, EnableSeen, [GradingNext]_gradingVars
    PROVE  PdfsOfSubmitted' /\ EnableSeen'
<1> USE DEF rowVars, examVars, pdfVars, renderOnly
<1> USE RenderTypes
<1>1. ASSUME NEW s \in Submissions, SubmitSitting(s) PROVE PdfsOfSubmitted' /\ EnableSeen'
  BY <1>1 DEF SubmitSitting, PdfsOfSubmitted, HasPdf, Busy, EnableSeen
<1>2. ASSUME NEW s \in Submissions, RenderBegin(s) PROVE PdfsOfSubmitted' /\ EnableSeen'
  BY <1>2 DEF RenderBegin, PdfsOfSubmitted, HasPdf, Busy, EnableSeen
<1>3. ASSUME NEW s \in Submissions, NEW i \in EssayItems, SaveEssay(s, i)
      PROVE  PdfsOfSubmitted' /\ EnableSeen'
  BY <1>3 DEF SaveEssay, PdfsOfSubmitted, HasPdf, Busy, EnableSeen
<1>4. ASSUME NEW g \in Graders, NEW s \in Submissions, NEW i \in EssayItems, NEW p \in Points,
             BeginGrade(g, s, i, p)
      PROVE  PdfsOfSubmitted' /\ EnableSeen'
  BY <1>4 DEF BeginGrade, PdfsOfSubmitted, HasPdf, Busy, EnableSeen
<1>5. ASSUME NEW g \in Graders, CommitGrade(g) PROVE PdfsOfSubmitted' /\ EnableSeen'
  <2>1. grading[g].of \in Submissions
    BY <1>5 DEF CommitGrade, GradingTypeOK, Grading, NoGrading
  <2>2. render'.at = render.at /\ (render.at # "idle" => render'.of = render.of)
    BY <1>5, <2>1, CrossedRender, {grading[g].of} \in SUBSET Submissions DEF CommitGrade
  <2> QED
    BY <1>5, <2>2 DEF CommitGrade, PdfsOfSubmitted, HasPdf, Busy, EnableSeen
<1>6. ASSUME NEW g \in Graders, DropGrade(g) PROVE PdfsOfSubmitted' /\ EnableSeen'
  BY <1>6 DEF DropGrade, PdfsOfSubmitted, HasPdf, Busy, EnableSeen
<1>7. ASSUME NEW d \in Designs \cup {NoDesign}, BeginDesign(d)
      PROVE  PdfsOfSubmitted' /\ EnableSeen'
  BY <1>7 DEF BeginDesign, PdfsOfSubmitted, HasPdf, Busy, EnableSeen
<1>8. ASSUME NEW on \in BOOLEAN, BeginEnable(on) PROVE PdfsOfSubmitted' /\ EnableSeen'
  BY <1>8 DEF BeginEnable, PdfsOfSubmitted, HasPdf, Busy, EnableSeen, GradingTypeOK
<1>9. CASE CommitDesign
  <2>1. render'.at = render.at /\ (render.at # "idle" => render'.of = render.of)
    BY <1>9, CrossedRender, Submissions \in SUBSET Submissions DEF CommitDesign
  <2> QED
    BY <1>9, <2>1 DEF CommitDesign, NoSave, PdfsOfSubmitted, HasPdf, Busy, EnableSeen
<1>10. CASE CommitEnable
  BY <1>10 DEF CommitEnable, NoSave, PdfsOfSubmitted, HasPdf, Busy, EnableSeen
<1>11. CASE DropExamSave
  BY <1>11 DEF DropExamSave, NoSave, PdfsOfSubmitted, HasPdf, Busy, EnableSeen
<1>12. CASE RenderExam
  <2>1. render'.of = render.of
    BY <1>12 DEF RenderExam, GradingTypeOK, Render, NoRender
  <2> QED
    BY <1>12, <2>1 DEF RenderExam, PdfsOfSubmitted, HasPdf, Busy, EnableSeen
<1>13. CASE RenderAnswers
  <2>1. render'.of = render.of
    BY <1>13 DEF RenderAnswers, GradingTypeOK, Render, NoRender
  <2> QED
    BY <1>13, <2>1 DEF RenderAnswers, PdfsOfSubmitted, HasPdf, Busy, EnableSeen
<1>14. CASE RenderStamp
  <2>1. \A s \in Submissions : certificate'[s] # certificate[s] => s = render.of
    BY <1>14 DEF RenderStamp, GradingTypeOK
  <2>2. PdfsOfSubmitted'
    BY <1>14, <2>1 DEF RenderStamp, PdfsOfSubmitted, HasPdf, Busy
  <2>3. EnableSeen'
    BY <1>14 DEF RenderStamp, EnableSeen, GradingTypeOK, ExamSave, NoSave
  <2> QED
    BY <2>2, <2>3
<1>15. CASE RenderProcessed \/ RenderFails
  BY <1>15 DEF RenderProcessed, RenderFails, NoRender, PdfsOfSubmitted, HasPdf, Busy, EnableSeen
<1>16. CASE UNCHANGED gradingVars
  BY <1>16 DEF gradingVars, PdfsOfSubmitted, HasPdf, Busy, EnableSeen
<1> QED
  BY <1>1, <1>2, <1>3, <1>4, <1>5, <1>6, <1>7, <1>8, <1>9, <1>10, <1>11, <1>12, <1>13, <1>14,
     <1>15, <1>16 DEF GradingNext

\* What the worker read stays what is stored until a write crosses it.
LEMMA ReadsStep ==
    ASSUME GradingTypeOK, PdfsOfSubmitted, RendersWhatIs, [GradingNext]_gradingVars
    PROVE  RendersWhatIs'
<1> USE DEF rowVars, examVars, pdfVars, renderOnly
<1> USE RenderTypes
<1>1. ASSUME NEW s \in Submissions, SubmitSitting(s) PROVE RendersWhatIs'
  <2>1. Busy => sessionTotal'[render.of] = sessionTotal[render.of]
    BY <1>1 DEF SubmitSitting, PdfsOfSubmitted, GradingTypeOK
  <2> QED
    BY <1>1, <2>1 DEF SubmitSitting, RendersWhatIs, Busy
<1>2. ASSUME NEW s \in Submissions, RenderBegin(s) PROVE RendersWhatIs'
  BY <1>2 DEF RenderBegin, RendersWhatIs, Busy
<1>3. ASSUME NEW g \in Graders, CommitGrade(g) PROVE RendersWhatIs'
  <2> DEFINE s == grading[g].of
  <2>1. s \in Submissions
    BY <1>3 DEF CommitGrade, GradingTypeOK, Grading, NoGrading
  <2>2. /\ render'.at = render.at
        /\ render.at # "idle" => render'.of = render.of
        /\ Busy => /\ render'.total = render.total /\ render'.design = render.design
                   /\ render'.designNewer = render.designNewer
                   /\ ~render'.crossed => ~render.crossed /\ render.of # s
    BY <1>3, <2>1, CrossedRender, {s} \in SUBSET Submissions DEF CommitGrade
  <2>3. Busy /\ render.of # s => sessionTotal'[render.of] = sessionTotal[render.of]
    BY <1>3 DEF CommitGrade, GradingTypeOK
  <2> QED
    BY <1>3, <2>2, <2>3 DEF CommitGrade, RendersWhatIs, Busy
<1>4. CASE CommitDesign
  <2>1. /\ render'.at = render.at
        /\ Busy => (~render'.crossed => render.of \notin Submissions)
    BY <1>4, CrossedRender, Submissions \in SUBSET Submissions DEF CommitDesign
  <2> QED
    BY <2>1 DEF RendersWhatIs, Busy
<1>5. CASE RenderExam
  <2>1. render'.at # "done" => /\ render'.of = render.of /\ render'.total = render.total
                               /\ render'.crossed = render.crossed
                               /\ render'.design = certDesign
                               /\ render'.designNewer = (render.of \in designNewer)
    BY <1>5 DEF RenderExam, GradingTypeOK, Render, NoRender
  <2> QED
    BY <1>5, <2>1 DEF RenderExam, RendersWhatIs, Busy
<1>6. CASE RenderAnswers
  <2>1. render'.at # "done" => /\ render'.of = render.of /\ render'.total = render.total
                               /\ render'.crossed = render.crossed
                               /\ render'.design = render.design
                               /\ render'.designNewer = render.designNewer
    BY <1>6 DEF RenderAnswers, GradingTypeOK, Render, NoRender
  <2> QED
    BY <1>6, <2>1 DEF RenderAnswers, RendersWhatIs, Busy
<1>7. CASE RenderStamp \/ RenderProcessed \/ RenderFails
  BY <1>7 DEF RenderStamp, RenderProcessed, RenderFails, NoRender, RendersWhatIs, Busy
<1>8. ASSUME UNCHANGED <<sessionTotal, certDesign, designNewer, render>> PROVE RendersWhatIs'
  BY <1>8 DEF RendersWhatIs, Busy
<1>9. ASSUME NEW s \in Submissions, NEW i \in EssayItems, SaveEssay(s, i) PROVE RendersWhatIs'
  BY <1>8, <1>9 DEF SaveEssay
<1>10. ASSUME NEW g \in Graders, NEW s \in Submissions, NEW i \in EssayItems, NEW p \in Points,
              BeginGrade(g, s, i, p)
       PROVE  RendersWhatIs'
  BY <1>8, <1>10 DEF BeginGrade
<1>11. ASSUME NEW g \in Graders, DropGrade(g) PROVE RendersWhatIs'
  BY <1>8, <1>11 DEF DropGrade
<1>12. ASSUME NEW d \in Designs \cup {NoDesign}, BeginDesign(d) PROVE RendersWhatIs'
  BY <1>8, <1>12 DEF BeginDesign
<1>13. ASSUME NEW on \in BOOLEAN, BeginEnable(on) PROVE RendersWhatIs'
  BY <1>8, <1>13 DEF BeginEnable
<1>14. CASE CommitEnable \/ DropExamSave
  BY <1>8, <1>14 DEF CommitEnable, DropExamSave
<1>15. CASE UNCHANGED gradingVars
  BY <1>8, <1>15 DEF gradingVars
<1> QED
  BY <1>1, <1>2, <1>3, <1>4, <1>5, <1>6, <1>7, <1>9, <1>10, <1>11, <1>12, <1>13, <1>14, <1>15
     DEF GradingNext

\* The sessions submitted are sessions.
LEMMA SubmittedStays ==
    ASSUME GradingTypeOK, [GradingNext]_gradingVars
    PROVE  submitted' \subseteq Submissions
<1> USE DEF rowVars, examVars, pdfVars, renderOnly
<1>1. CASE \E s \in Submissions : SubmitSitting(s)
  BY <1>1 DEF SubmitSitting, GradingTypeOK
<1>2. CASE UNCHANGED submitted
  BY <1>2 DEF GradingTypeOK
<1> QED
  BY <1>1, <1>2 DEF GradingNext, gradingVars, RenderBegin, SaveEssay, BeginGrade, CommitGrade,
     DropGrade, BeginDesign, BeginEnable, CommitDesign, CommitEnable, DropExamSave, RenderExam,
     RenderAnswers, RenderStamp, RenderProcessed, RenderFails

\* What UpToDateIsCurrent asks of one session.
Fresh(s) == HasPdf(s) /\ s \notin gradeNewer /\ s \notin designNewer =>
                certificate[s] = Shows(certDesign, sessionTotal[s])

\* A write that makes a PDF stale is after it.
LEMMA UpToDateStep ==
    ASSUME GradingTypeOK, RendersADesign, PdfsOfSubmitted, RendersWhatIs, UpToDateIsCurrent,
           [GradingNext]_gradingVars
    PROVE  UpToDateIsCurrent'
<1> USE DEF rowVars, examVars, pdfVars, renderOnly
<1> USE RenderTypes
<1> SUFFICES ASSUME NEW x \in Submissions, x \in submitted', x \notin pdfCrossed'
             PROVE  Fresh(x)'
  BY SubmittedStays DEF UpToDateIsCurrent, Fresh
<1>0. x \in submitted /\ x \notin pdfCrossed => Fresh(x)
  BY DEF UpToDateIsCurrent, Fresh
<1>1. ASSUME NEW s \in Submissions, SubmitSitting(s) PROVE Fresh(x)'
  <2>1. CASE x = s
    BY <1>1, <2>1 DEF SubmitSitting, PdfsOfSubmitted, Fresh, HasPdf
  <2>2. CASE x # s
    <3>1. sessionTotal'[x] = sessionTotal[x] /\ x \in submitted
      BY <1>1, <2>2 DEF SubmitSitting, GradingTypeOK
    <3> QED
      BY <1>0, <1>1, <3>1 DEF SubmitSitting, Fresh, HasPdf
  <2> QED
    BY <2>1, <2>2
<1>2. ASSUME NEW g \in Graders, CommitGrade(g) PROVE Fresh(x)'
  <2>1. CASE x = grading[g].of
    BY <1>2, <2>1 DEF CommitGrade, Fresh, HasPdf
  <2>2. CASE x # grading[g].of
    <3>1. sessionTotal'[x] = sessionTotal[x]
      BY <1>2, <2>2 DEF CommitGrade, GradingTypeOK
    <3>2. x \in gradeNewer <=> x \in gradeNewer'
      BY <1>2, <2>2 DEF CommitGrade
    <3> QED
      BY <1>0, <1>2, <3>1, <3>2 DEF CommitGrade, Fresh, HasPdf
  <2> QED
    BY <2>1, <2>2
<1>3. CASE CommitDesign
  BY <1>3 DEF CommitDesign, Fresh, HasPdf
<1>4. CASE CommitEnable
  <2>1. x \notin pdfCrossed
    BY <1>4 DEF CommitEnable
  <2> QED
    BY <1>0, <1>4, <2>1 DEF CommitEnable, Fresh, HasPdf
<1>5. CASE RenderStamp
  <2>1. CASE x = render.of
    <3>1. ~render.crossed
      BY <1>5, <2>1 DEF RenderStamp
    <3>2. render.total = sessionTotal[x] /\ render.design = certDesign
      <4>1. Busy /\ render.at # "exam"
        BY <1>5 DEF RenderStamp, Busy
      <4> QED
        BY <2>1, <3>1, <4>1 DEF RendersWhatIs
    <3>3. certificate'[x] = Shows(render.design, render.total)
      BY <1>5, <2>1 DEF RenderStamp, GradingTypeOK
    <3>4. certDesign' = certDesign /\ sessionTotal' = sessionTotal
      BY <1>5 DEF RenderStamp
    <3> QED
      BY <3>2, <3>3, <3>4 DEF Fresh, Shows
  <2>2. CASE x # render.of
    <3>1. /\ certificate'[x] = certificate[x] /\ x \notin pdfCrossed /\ x \in submitted
          /\ (x \in gradeNewer <=> x \in gradeNewer')
          /\ (x \in designNewer <=> x \in designNewer')
          /\ certDesign' = certDesign /\ sessionTotal' = sessionTotal
      <4>1. certificate'[x] = certificate[x]
        BY <1>5, <2>2 DEF RenderStamp, GradingTypeOK
      <4> QED
        BY <1>5, <2>2, <4>1 DEF RenderStamp
    <3>2. Fresh(x)
      BY <1>0, <3>1
    <3> QED
      BY <3>1, <3>2 DEF Fresh, HasPdf, Shows
  <2> QED
    BY <2>1, <2>2
<1>6. ASSUME UNCHANGED <<submitted, sessionTotal, certDesign, pdfVars, pdfCrossed>>
      PROVE  Fresh(x)'
  BY <1>0, <1>6 DEF Fresh, HasPdf, Shows
<1>7. ASSUME NEW s \in Submissions, RenderBegin(s) PROVE Fresh(x)'
  BY <1>6, <1>7 DEF RenderBegin
<1>8. ASSUME NEW s \in Submissions, NEW i \in EssayItems, SaveEssay(s, i) PROVE Fresh(x)'
  BY <1>6, <1>8 DEF SaveEssay
<1>9. ASSUME NEW g \in Graders, NEW s \in Submissions, NEW i \in EssayItems, NEW p \in Points,
             BeginGrade(g, s, i, p)
      PROVE  Fresh(x)'
  BY <1>6, <1>9 DEF BeginGrade
<1>10. ASSUME NEW g \in Graders, DropGrade(g) PROVE Fresh(x)'
  BY <1>6, <1>10 DEF DropGrade
<1>11. ASSUME NEW d \in Designs \cup {NoDesign}, BeginDesign(d) PROVE Fresh(x)'
  BY <1>6, <1>11 DEF BeginDesign
<1>12. ASSUME NEW on \in BOOLEAN, BeginEnable(on) PROVE Fresh(x)'
  BY <1>6, <1>12 DEF BeginEnable
<1>13. CASE DropExamSave \/ RenderExam \/ RenderAnswers \/ RenderProcessed \/ RenderFails
  BY <1>6, <1>13 DEF DropExamSave, RenderExam, RenderAnswers, RenderProcessed, RenderFails
<1>14. CASE UNCHANGED gradingVars
  BY <1>6, <1>14 DEF gradingVars
<1> QED
  BY <1>1, <1>2, <1>3, <1>4, <1>5, <1>7, <1>8, <1>9, <1>10, <1>11, <1>12, <1>13, <1>14
     DEF GradingNext

\* What StaleIsOwed asks of one session.
Current(s) == certificate[s] = Shows(certDesign, sessionTotal[s])
Owed(s)    == \/ needed[s] > Held(s)
              \/ Busy /\ render.of = s /\ ~render.crossed

\* A write that makes a certificate stale leaves a row for it; a rendering that ends
\* without storing found it current.
LEMMA OwedStep ==
    ASSUME GradingTypeOK, RowsRemain, PdfsOfSubmitted, RendersWhatIs, UpToDateIsCurrent,
           EnableSeen, StaleIsOwed, [GradingNext]_gradingVars
    PROVE  StaleIsOwed'
<1> USE DEF rowVars, examVars, pdfVars, renderOnly
<1> USE RenderTypes
<1> SUFFICES ASSUME NEW x \in Submissions, x \in submitted', x \notin pdfCrossed',
                    Due(x)', ~Current(x)'
             PROVE  Owed(x)'
  BY SubmittedStays DEF StaleIsOwed, Owed, Current
<1>0. x \in submitted /\ x \notin pdfCrossed /\ Due(x) /\ ~Current(x) => Owed(x)
  BY DEF StaleIsOwed, Owed, Current
<1>a. needed \in [Submissions -> Nat] /\ Held(x) \in 0..1 /\ needed[x] >= Held(x)
  BY DEF Held, RowsRemain, GradingTypeOK
<1>1. ASSUME NEW s \in Submissions, SubmitSitting(s) PROVE Owed(x)'
  <2>1. CASE x = s
    BY <1>1, <1>a, <2>1 DEF SubmitSitting, Enqueue, Owed, Held
  <2>2. CASE x # s
    <3>1. /\ sessionTotal'[x] = sessionTotal[x] /\ essayScore'[x] = essayScore[x]
          /\ x \in submitted /\ x \notin pdfCrossed
      BY <1>1, <2>2 DEF SubmitSitting, GradingTypeOK
    <3>2. Due(x) /\ ~Current(x)
      BY <1>1, <3>1 DEF SubmitSitting, Due, FullyGraded, Current, Shows
    <3>3. Owed(x)
      BY <1>0, <3>1, <3>2
    <3> QED
      BY <1>1, <1>a, <2>2, <3>3 DEF SubmitSitting, Enqueue, Owed, Held, Busy
  <2> QED
    BY <2>1, <2>2
<1>2. ASSUME NEW g \in Graders, CommitGrade(g) PROVE Owed(x)'
  <2> DEFINE s == grading[g].of
  <2>1. s \in Submissions
    BY <1>2 DEF CommitGrade, GradingTypeOK, Grading, NoGrading
  <2>2. /\ render'.at = render.at
        /\ render.at # "idle" => render'.of = render.of
    BY <1>2, <2>1, CrossedRender, {s} \in SUBSET Submissions DEF CommitGrade
  <2>3. CASE x = s
    BY <1>2, <1>a, <2>2, <2>3 DEF CommitGrade, Enqueue, Owed, Held
  <2>4. CASE x # s
    <3>1. /\ sessionTotal'[x] = sessionTotal[x] /\ essayScore'[x] = essayScore[x]
          /\ x \in submitted /\ x \notin pdfCrossed
      BY <1>2, <2>4 DEF CommitGrade, GradingTypeOK
    <3>2. Due(x) /\ ~Current(x)
      BY <1>2, <3>1 DEF CommitGrade, Due, FullyGraded, Current, Shows
    <3>3. Owed(x)
      BY <1>0, <3>1, <3>2
    <3>4. render.of = x /\ Busy => render' = render
      BY <1>2, <2>4 DEF CommitGrade, CrossRender, Busy
    <3>5. needed'[x] = needed[x]
      BY <1>2, <1>a, <2>4 DEF CommitGrade, Enqueue
    <3> QED
      BY <2>2, <3>3, <3>4, <3>5 DEF Owed, Held, Busy
  <2> QED
    BY <2>3, <2>4
<1>3. CASE CommitDesign
  <2>1. /\ render'.at = render.at
        /\ render.at # "idle" => render'.of = render.of
    BY <1>3, CrossedRender, Submissions \in SUBSET Submissions DEF CommitDesign
  <2>2. x \in examSave.listed
    BY <1>3 DEF CommitDesign
  <2> QED
    BY <1>3, <1>a, <2>1, <2>2 DEF CommitDesign, Enqueue, Owed, Held
<1>4. CASE CommitEnable
  <2>1. examSave.on = TRUE
    BY <1>4 DEF CommitEnable, Due
  <2>2. CASE examSave.fanOut
    <3>1. x \in examSave.listed
      BY <1>4, <2>2 DEF CommitEnable
    <3> QED
      BY <1>4, <1>a, <2>2, <3>1 DEF CommitEnable, Enqueue, Owed, Held
  <2>3. CASE ~examSave.fanOut
    <3>1. certEnabled = TRUE
      BY <1>4, <2>1, <2>3 DEF CommitEnable, EnableSeen, GradingTypeOK
    <3>2. x \in submitted /\ x \notin pdfCrossed /\ Due(x) /\ ~Current(x)
      BY <1>4, <2>3, <3>1 DEF CommitEnable, Due, FullyGraded, Current, Shows
    <3>3. Owed(x)
      BY <1>0, <3>2
    <3>4. needed'[x] = needed[x] /\ render' = render
      BY <1>4, <1>a, <2>3 DEF CommitEnable, Enqueue
    <3> QED
      BY <3>3, <3>4 DEF Owed, Held, Busy
  <2> QED
    BY <2>2, <2>3
<1>5. ASSUME UNCHANGED <<submitted, sessionTotal, essayScore, examVars, certificate, pdfCrossed>>
      PROVE  Owed(x)
  <2>1. Due(x) /\ ~Current(x)
    BY <1>5 DEF Due, FullyGraded, Current, Shows
  <2> QED
    BY <1>0, <1>5, <2>1
<1>6. ASSUME NEW s \in Submissions, RenderBegin(s) PROVE Owed(x)'
  <2>1. Owed(x) /\ needed' = needed
    BY <1>5, <1>6 DEF RenderBegin
  <2>2. needed[x] > 0
    BY <1>6, <1>a, <2>1 DEF RenderBegin, Owed
  <2>3. CASE x # s
    BY <1>6, <2>1, <2>2, <2>3 DEF RenderBegin, Owed, Held
  <2>4. CASE x = s
    <3>1. x \in submitted
      BY <1>6 DEF RenderBegin
    <3> QED
      BY <1>6, <2>4, <3>1 DEF RenderBegin, Owed, Busy
  <2> QED
    BY <2>3, <2>4
<1>7. CASE RenderExam
  <2>1. Owed(x) /\ needed' = needed /\ certEnabled /\ certDesign # NoDesign
    BY <1>5, <1>7 DEF RenderExam, Due
  <2>2. render'.at = "answers" /\ render'.of = render.of /\ render'.crossed = render.crossed
    BY <1>7, <2>1 DEF RenderExam, GradingTypeOK, Render, NoRender
  <2> QED
    BY <1>7, <2>1, <2>2 DEF RenderExam, Owed, Held, Busy
<1>8. CASE RenderAnswers
  <2>1. Owed(x) /\ needed' = needed /\ x \in submitted /\ x \notin pdfCrossed
    BY <1>5, <1>8 DEF RenderAnswers
  <2>2. render'.of = render.of /\ render'.at \in {"stamp", "done"}
    BY <1>8 DEF RenderAnswers, GradingTypeOK, Render, NoRender
  <2>3. CASE needed[x] > Held(x)
    BY <1>8, <2>1, <2>2, <2>3 DEF RenderAnswers, Owed, Held
  <2>4. CASE Busy /\ render.of = x /\ ~render.crossed
    <3>1. render.design = certDesign /\ (render.designNewer <=> x \in designNewer)
      BY <1>8, <2>4 DEF RenderAnswers, RendersWhatIs
    <3>2. certDesign \in Scored => FullyGraded(essayScore[x])
      BY <1>8 DEF RenderAnswers, Due, FullyGraded
    <3>3. ~Current(x)
      BY <1>8 DEF RenderAnswers, Current, Shows
    <3>4. Regenerate(x, render.designNewer)
      BY <2>1, <3>1, <3>3 DEF UpToDateIsCurrent, Regenerate, Current
    <3>5. render' = [render EXCEPT !.at = "stamp"]
      BY <1>8, <2>4, <3>1, <3>2, <3>4 DEF RenderAnswers
    <3>6. render'.at = "stamp" /\ render'.crossed = render.crossed
      BY <1>8, <3>5 DEF RenderAnswers, GradingTypeOK, Render, NoRender
    <3> QED
      BY <2>2, <2>4, <3>6 DEF Owed, Busy
  <2> QED
    BY <2>1, <2>3, <2>4 DEF Owed
<1>9. CASE RenderStamp
  <2>1. x # render.of
    <3>1. SUFFICES ASSUME x = render.of PROVE FALSE
      OBVIOUS
    <3>2. ~render.crossed
      BY <1>9, <3>1 DEF RenderStamp
    <3>3. Busy /\ render.at # "exam"
      BY <1>9 DEF RenderStamp, Busy
    <3>4. render.total = sessionTotal[x] /\ render.design = certDesign
      BY <3>1, <3>2, <3>3 DEF RendersWhatIs
    <3>5. certificate'[x] = Shows(render.design, render.total)
      BY <1>9, <3>1 DEF RenderStamp, GradingTypeOK
    <3>6. certDesign' = certDesign /\ sessionTotal' = sessionTotal
      BY <1>9 DEF RenderStamp
    <3> QED
      BY <3>4, <3>5, <3>6 DEF Current, Shows
  <2>2. certificate'[x] = certificate[x]
    BY <1>9, <2>1 DEF RenderStamp, GradingTypeOK
  <2>3. x \in submitted /\ x \notin pdfCrossed /\ Due(x) /\ ~Current(x)
    BY <1>9, <2>1, <2>2 DEF RenderStamp, Due, FullyGraded, Current, Shows
  <2>4. Owed(x)
    BY <1>0, <2>3
  <2> QED
    BY <1>9, <2>1, <2>4 DEF RenderStamp, Owed, Held
<1>10. CASE RenderProcessed
  <2>1. Owed(x)
    BY <1>5, <1>10 DEF RenderProcessed
  <2>2. needed[x] > Held(x)
    BY <1>10, <2>1 DEF RenderProcessed, Owed, Busy
  <2>3. render.of \in Submissions /\ render'.at = "idle"
    BY <1>10 DEF RenderProcessed, NoRender
  <2> QED
    BY <1>10, <1>a, <2>2, <2>3 DEF RenderProcessed, Owed, Held
<1>11. CASE RenderFails
  <2>1. Owed(x) /\ needed' = needed /\ render'.at = "idle"
    BY <1>5, <1>11 DEF RenderFails, NoRender
  <2>2. needed[x] > 0
    BY <1>a, <2>1 DEF Owed, RowsRemain, Busy
  <2> QED
    BY <2>1, <2>2 DEF Owed, Held
<1>12. ASSUME UNCHANGED <<submitted, sessionTotal, essayScore, examVars, certificate, pdfCrossed,
                         needed, render>>
       PROVE  Owed(x)'
  BY <1>5, <1>12 DEF Owed, Held, Busy
<1>13. ASSUME NEW s \in Submissions, NEW i \in EssayItems, SaveEssay(s, i) PROVE Owed(x)'
  <2>1. essayScore'[x] = essayScore[x] /\ x \in submitted /\ x \notin pdfCrossed
    BY <1>13 DEF SaveEssay, GradingTypeOK
  <2>2. Due(x) /\ ~Current(x)
    BY <1>13, <2>1 DEF SaveEssay, Due, FullyGraded, Current, Shows
  <2> QED
    BY <1>0, <1>13, <2>1, <2>2 DEF SaveEssay, Owed, Held, Busy
<1>14. ASSUME NEW g \in Graders, NEW s \in Submissions, NEW i \in EssayItems, NEW p \in Points,
              BeginGrade(g, s, i, p)
       PROVE  Owed(x)'
  BY <1>12, <1>14 DEF BeginGrade
<1>15. ASSUME NEW g \in Graders, DropGrade(g) PROVE Owed(x)'
  BY <1>12, <1>15 DEF DropGrade
<1>16. ASSUME NEW d \in Designs \cup {NoDesign}, BeginDesign(d) PROVE Owed(x)'
  BY <1>12, <1>16 DEF BeginDesign
<1>17. ASSUME NEW on \in BOOLEAN, BeginEnable(on) PROVE Owed(x)'
  BY <1>12, <1>17 DEF BeginEnable
<1>18. CASE DropExamSave
  BY <1>12, <1>18 DEF DropExamSave
<1>19. CASE UNCHANGED gradingVars
  BY <1>12, <1>19 DEF gradingVars
<1> QED
  BY <1>1, <1>2, <1>3, <1>4, <1>6, <1>7, <1>8, <1>9, <1>10, <1>11, <1>13, <1>14, <1>15, <1>16,
     <1>17, <1>18, <1>19 DEF GradingNext

-----------------------------------------------------------------------------

\* The invariant holds at first.
LEMMA InvInit == GradingInit => GradingInv
<1> SUFFICES ASSUME GradingInit PROVE GradingInv
  OBVIOUS
<1>1. GradingTypeOK
  BY TypesInit
<1> QED
  BY <1>1 DEF GradingInit, GradingInv, RowsRemain, RendersADesign, TotalsRead, TotalsAddUp,
     PdfsOfSubmitted, HasPdf, RendersWhatIs, UpToDateIsCurrent, EnableSeen, StaleIsOwed, Busy,
     NoGrading, NoSave, NoRender

\* Every action keeps the invariant.
LEMMA InvStep == GradingInv /\ [GradingNext]_gradingVars => GradingInv'
<1> SUFFICES ASSUME GradingInv, [GradingNext]_gradingVars PROVE GradingInv'
  OBVIOUS
<1>1. GradingTypeOK' /\ RowsRemain' /\ RendersADesign'
  BY TypesStep, RowsStep DEF GradingInv
<1>2. TotalsRead' /\ TotalsAddUp'
  BY TotalsStep DEF GradingInv
<1>3. PdfsOfSubmitted' /\ EnableSeen' /\ RendersWhatIs'
  BY PdfsStep, ReadsStep DEF GradingInv
<1>4. UpToDateIsCurrent' /\ StaleIsOwed'
  BY UpToDateStep, OwedStep DEF GradingInv
<1> QED
  BY <1>1, <1>2, <1>3, <1>4 DEF GradingInv

\* A row nobody took up is a row left; so is the one being rendered.
LEMMA InvSettled == GradingInv => SettledIsCurrent
<1> SUFFICES ASSUME GradingInv,
                    NEW s \in submitted \ pdfCrossed, Due(s), needed[s] = 0
             PROVE  certificate[s] = Shows(certDesign, sessionTotal[s])
  BY DEF SettledIsCurrent, CertificatesAreCurrent, GradingInv
<1>1. s \in Submissions
  BY DEF GradingInv, GradingTypeOK
<1>2. ~(needed[s] > Held(s))
  BY DEF Held
<1>3. ~(Busy /\ render.of = s)
  BY DEF GradingInv, RowsRemain, Busy
<1> QED
  BY <1>2, <1>3 DEF GradingInv, StaleIsOwed

\* Totals are the sums of their marks and certificates show what is stored, for
\* every number of sessions, essays, grading requests and designs: GradeEssayAnswer
\* and GenerateCertificatePDF, but for what went on at the same time.
THEOREM SettledResults == GradingSpec => []SettledIsCurrent
<1>1. GradingInit => GradingInv
  BY InvInit
<1>2. GradingInv /\ [GradingNext]_gradingVars => GradingInv'
  BY InvStep
<1>3. GradingInv => SettledIsCurrent
  BY InvSettled
<1> QED
  BY <1>1, <1>2, <1>3, PTL DEF GradingSpec

\* So they are in the exam's life, where the sitting changes none of them.
COROLLARY SettledInLife == LifeSpec => []SettledIsCurrent
<1>1. LifeInit => GradingInv
  BY InvInit DEF LifeInit
<1>2. GradingInv /\ [LifeNext]_lifeVars => GradingInv'
  <2>1. [LifeNext]_lifeVars => [GradingNext]_gradingVars
    BY DEF LifeNext, lifeVars
  <2> QED
    BY <2>1, InvStep
<1>3. GradingInv => SettledIsCurrent
  BY InvSettled
<1> QED
  BY <1>1, <1>2, <1>3, PTL DEF LifeSpec
===============================================================================
