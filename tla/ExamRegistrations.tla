------------------------- MODULE ExamRegistrations --------------------------
(***************************************************************************)
(* The registrations tab of an exam: the roster, and the dialog in which a *)
(* school previews and orders seats and the super admin grants access, to  *)
(* picked students or to a CSV's.  Closing the dialog starts a new         *)
(* generation; what is under way then must not surface in the next one.    *)
(*                                                                         *)
(* The roster is read page by page, by participant number, and only the    *)
(* page last asked for is read again.  Numbers are given in order, under a *)
(* lock, so what the server answered earlier is what it would answer with  *)
(* fewer registered: a page in the query cache is known by their number.   *)
(***************************************************************************)
EXTENDS Naturals, FiniteSets, Functions

CONSTANTS
    Participants,      \* the students that can be picked
    CsvParticipants,   \* those the CSV file names
    RosterRows,        \* rows of a page of the roster
    Others,            \* bound: students registered elsewhere
    Uploads,           \* bound: submissions of the CSV form, by number
    GenerationBound    \* bound: times the dialog is closed

ASSUME RegistrationConstants ==
    /\ IsFiniteSet(Participants) /\ CsvParticipants \subseteq Participants
    /\ RosterRows \in Nat \ {0} /\ Others \in Nat
    /\ Uploads \subseteq Nat \ {0} /\ GenerationBound \in Nat

VARIABLES
    adminRole,         \* "super_admin", "admin_school" or "admin_exam"
    modalOpen, flowGeneration,
    picked,            \* selectedStudentIds
    grantMode, csvFile, csvJobId,
    previewResult, createdOrder, grantResult,
    sent,              \* the preview, create and grant mutations under way
    upload,            \* each submission of the form: its generation and step
    jobs,              \* server: the import job of each submission
    jobSeen,           \* the status last polled of the job shown
    numberOf, given,   \* server: the participant number of who may sit the exam, 0 of
                       \* others; the last number given
    rosterSort, rosterCursor, rosterNext,   \* cursors are numbers, 0 for none
    rosterRows,        \* the numbers listed
    rosterShown, rosterAt,   \* the page at the cursor is there, as of so many registered
    rosterFetching, rosterAskedAt,   \* its request is under way, since so many were
    rosterSince        \* so many were registered when the roster was last invalidated

rosterVars == <<rosterSort, rosterCursor, rosterNext, rosterRows, rosterShown, rosterAt,
                rosterFetching, rosterAskedAt, rosterSince>>
registrationVars == <<adminRole, modalOpen, flowGeneration, picked, grantMode, csvFile,
    csvJobId, previewResult, createdOrder, grantResult, sent, upload, jobs, jobSeen,
    numberOf, given, rosterVars>>

Nothing     == [generation |-> 0, students |-> {}]
Generations == 1..(GenerationBound + 1)
Outcomes    == [generation : Generations, students : SUBSET Participants]
NotSent     == [m \in {"preview", "create", "grant"} |-> Nothing]

RegistrationTypeOK ==
    /\ adminRole \in {"super_admin", "admin_school", "admin_exam"}
    /\ modalOpen \in BOOLEAN /\ flowGeneration \in Generations
    /\ picked \subseteq Participants /\ grantMode \in {"manual", "csv"}
    /\ csvFile \in BOOLEAN /\ csvJobId \in Uploads \cup {0}
    /\ {previewResult, createdOrder, grantResult} \subseteq Outcomes \cup {Nothing}
    /\ \A m \in DOMAIN sent : sent[m] \in Outcomes \cup {Nothing}
    /\ \A u \in Uploads : /\ upload[u].generation \in Generations \cup {0}
                          /\ upload[u].step \in {"unused", "presign", "put", "enqueue", "ended"}
    /\ jobs \in [Uploads -> {"none", "running", "succeeded", "failed"}]
    /\ jobSeen \in {"none", "running", "succeeded", "failed"}
    /\ numberOf \in [Participants -> 0..given] /\ given \in Nat
    /\ rosterSort \in {"asc", "desc"} /\ {rosterShown, rosterFetching} \subseteq BOOLEAN
    /\ {rosterCursor, rosterNext, rosterAt, rosterAskedAt, rosterSince} \subseteq 0..given
    /\ rosterRows \subseteq 1..given

dialogUnchanged == UNCHANGED <<adminRole, modalOpen, flowGeneration, grantMode, csvFile>>
csvUnchanged    == UNCHANGED <<csvJobId, upload, jobs, jobSeen>>
rosterUnchanged == UNCHANGED <<numberOf, given, rosterVars>>

\* The students who have no number yet get the next ones, in some order.
LetIn(students) ==
    LET new == {s \in students : numberOf[s] = 0}
    IN  /\ given' = given + Cardinality(new)
        /\ \E n \in Injection(new, (given + 1)..given') :
              numberOf' = [s \in Participants |-> IF s \in new THEN n[s] ELSE numberOf[s]]

\* Invalidating the roster: the page shown is asked for again, in place of a
\* request under way unless that is its first.
InvalidateRoster ==
    /\ rosterSince' = given'
    /\ rosterFetching' = TRUE
    /\ rosterAskedAt' = IF rosterShown \/ ~rosterFetching THEN given' ELSE rosterAskedAt
    /\ UNCHANGED <<rosterSort, rosterCursor, rosterNext, rosterRows, rosterShown, rosterAt>>

-----------------------------------------------------------------------------
(* The dialog *)

\* The button; the exam admin has none.  Opening it leaves the generation.
OpenModal ==
    /\ ~modalOpen /\ adminRole # "admin_exam"
    /\ modalOpen' = TRUE
    /\ UNCHANGED <<adminRole, flowGeneration, picked, grantMode, csvFile, previewResult,
                   createdOrder, grantResult, sent>>
    /\ csvUnchanged /\ rosterUnchanged

\* resetFlowState.  A mutation that is reset tells the dialog nothing any more;
\* whether the server carries a grant out nobody learns.
ResetFlow ==
    /\ picked' = {} /\ grantMode' = "manual" /\ csvFile' = FALSE
    /\ csvJobId' = 0 /\ jobSeen' = "none"
    /\ previewResult' = Nothing /\ createdOrder' = Nothing /\ grantResult' = Nothing
    /\ sent' = NotSent
    /\ \E carried \in {{}, sent["grant"].students} : LetIn(carried)
    /\ UNCHANGED <<adminRole, upload, jobs, rosterVars>>

CloseModal ==
    /\ modalOpen /\ flowGeneration <= GenerationBound
    /\ modalOpen' = FALSE /\ flowGeneration' = flowGeneration + 1
    /\ ResetFlow

\* "Once more", below an order or a grant.
ResetDialog ==
    /\ modalOpen /\ (createdOrder # Nothing \/ grantResult # Nothing)
    /\ ResetFlow /\ UNCHANGED <<modalOpen, flowGeneration>>

\* The form is on the screen, not a result.
FormShown == modalOpen /\ createdOrder = Nothing /\ grantResult = Nothing

PickParticipants(students) ==
    /\ FormShown /\ grantMode = "manual" /\ students # picked
    /\ picked' = students
    /\ UNCHANGED <<previewResult, createdOrder, grantResult, sent>>
    /\ dialogUnchanged /\ csvUnchanged /\ rosterUnchanged

ChooseMode(mode) ==
    /\ FormShown /\ adminRole = "super_admin" /\ mode # grantMode
    /\ grantMode' = mode
    /\ UNCHANGED <<adminRole, modalOpen, flowGeneration, csvFile, picked, previewResult,
                   createdOrder, grantResult, sent>>
    /\ csvUnchanged /\ rosterUnchanged

-----------------------------------------------------------------------------
(* Preview, order, grant *)

\* handlePreview, handleCreateOrder and handleGrant, for the students picked now;
\* a mutation under way disables its button.
Press(m) ==
    /\ FormShown /\ picked # {} /\ sent[m] = Nothing
    /\ IF m = "grant" THEN adminRole = "super_admin" /\ grantMode = "manual"
       ELSE adminRole = "admin_school"
    /\ m = "create" => previewResult # Nothing
    /\ sent' = [sent EXCEPT ![m] = [generation |-> flowGeneration, students |-> picked]]
    /\ UNCHANGED <<picked, previewResult, createdOrder, grantResult>>
    /\ dialogUnchanged /\ csvUnchanged /\ rosterUnchanged

\* Their onSuccess.  An order or a grant has the roster read again.
Succeeds(m) ==
    /\ sent[m] # Nothing /\ sent' = [sent EXCEPT ![m] = Nothing]
    /\ LetIn(IF m = "grant" THEN sent[m].students ELSE {})
    /\ LET current == sent[m].generation = flowGeneration
       IN  /\ previewResult' = IF m = "preview" /\ current THEN sent[m] ELSE previewResult
           /\ createdOrder'  = IF m = "create"  /\ current THEN sent[m] ELSE createdOrder
           /\ grantResult'   = IF m = "grant"   /\ current THEN sent[m] ELSE grantResult
           /\ IF m # "preview" /\ current THEN InvalidateRoster ELSE UNCHANGED rosterVars
    /\ UNCHANGED picked /\ dialogUnchanged /\ csvUnchanged

\* Refused, or the answer is lost: then a grant may have been carried out.
Fails(m) ==
    /\ sent[m] # Nothing /\ sent' = [sent EXCEPT ![m] = Nothing]
    /\ \E carried \in {{}, IF m = "grant" THEN sent[m].students ELSE {}} : LetIn(carried)
    /\ UNCHANGED <<picked, previewResult, createdOrder, grantResult, rosterVars>>
    /\ dialogUnchanged /\ csvUnchanged

-----------------------------------------------------------------------------
(* The CSV *)

ChooseFile ==
    /\ FormShown /\ adminRole = "super_admin" /\ grantMode = "csv" /\ ~csvFile
    /\ csvFile' = TRUE
    /\ UNCHANGED <<adminRole, modalOpen, flowGeneration, grantMode, picked, previewResult,
                   createdOrder, grantResult, sent>>
    /\ csvUnchanged /\ rosterUnchanged

\* handleCsvSubmit.  The button waits for the presign and the enqueue call, and
\* not for the upload between them.
SubmitCsv(u) ==
    /\ FormShown /\ adminRole = "super_admin" /\ grantMode = "csv" /\ csvFile
    /\ \A v \in Uploads : upload[v].step \notin {"presign", "enqueue"}
    /\ upload[u].step = "unused" /\ \A v \in Uploads : v < u => upload[v].step # "unused"
    /\ upload' = [upload EXCEPT ![u] = [generation |-> flowGeneration, step |-> "presign"]]
    /\ UNCHANGED <<csvJobId, jobs, jobSeen, picked, previewResult, createdOrder, grantResult, sent>>
    /\ dialogUnchanged /\ rosterUnchanged

\* A call of the submission is answered: it goes on in its own generation only.
CsvGoesOn(u) ==
    /\ upload[u].step \in {"presign", "put"}
    /\ LET next == IF upload[u].step = "presign" THEN "put" ELSE "enqueue"
       IN  upload' = [upload EXCEPT ![u].step =
                         IF upload[u].generation = flowGeneration THEN next ELSE "ended"]
    /\ UNCHANGED <<csvJobId, jobs, jobSeen, picked, previewResult, createdOrder, grantResult, sent>>
    /\ dialogUnchanged /\ rosterUnchanged

\* A call fails; one that was to queue the job may have queued it.
CsvFails(u) ==
    /\ upload[u].step \in {"presign", "put", "enqueue"}
    /\ upload' = [upload EXCEPT ![u].step = "ended"]
    /\ \/ jobs' = jobs
       \/ upload[u].step = "enqueue" /\ jobs' = [jobs EXCEPT ![u] = "running"]
    /\ UNCHANGED <<csvJobId, jobSeen, picked, previewResult, createdOrder, grantResult, sent>>
    /\ dialogUnchanged /\ rosterUnchanged

\* CsvEnqueued, when the dialog may have been closed since.
CsvEnqueued_AnyFlow(u) ==
    /\ upload[u].step = "enqueue"
    /\ upload' = [upload EXCEPT ![u].step = "ended"]
    /\ jobs' = [jobs EXCEPT ![u] = "running"]
    /\ csvJobId' = u /\ jobSeen' = "none"
    /\ UNCHANGED <<picked, previewResult, createdOrder, grantResult, sent>>
    /\ dialogUnchanged /\ rosterUnchanged

\* The job is queued; its number is kept in its own generation only.
CsvEnqueued(u) ==
    /\ upload[u].step = "enqueue"
    /\ upload' = [upload EXCEPT ![u].step = "ended"]
    /\ jobs' = [jobs EXCEPT ![u] = "running"]
    /\ IF upload[u].generation = flowGeneration
       THEN csvJobId' = u /\ jobSeen' = "none"
       ELSE UNCHANGED <<csvJobId, jobSeen>>
    /\ UNCHANGED <<picked, previewResult, createdOrder, grantResult, sent>>
    /\ dialogUnchanged /\ rosterUnchanged

\* The server's worker ends the job.  One whose report could not be stored has failed
\* and has let its students in all the same.
JobEnds(u) ==
    /\ jobs[u] = "running"
    /\ \E status \in {"succeeded", "failed"}, students \in {{}, CsvParticipants} :
          /\ status = "succeeded" => students = CsvParticipants
          /\ jobs' = [jobs EXCEPT ![u] = status] /\ LetIn(students)
    /\ UNCHANGED <<csvJobId, upload, jobSeen, rosterVars, picked, previewResult,
                   createdOrder, grantResult, sent>>
    /\ dialogUnchanged

\* useJobStatus asks every two seconds until the job has ended; the effect on
\* success has the roster read again.
PollJob ==
    /\ csvJobId # 0 /\ jobSeen \notin {"succeeded", "failed"}
    /\ jobSeen' = jobs[csvJobId] /\ jobSeen' # jobSeen
    /\ UNCHANGED <<csvJobId, upload, jobs, numberOf, given, picked, previewResult,
                   createdOrder, grantResult, sent>>
    /\ IF jobSeen' = "succeeded" THEN InvalidateRoster ELSE UNCHANGED rosterVars
    /\ dialogUnchanged

-----------------------------------------------------------------------------
(* The roster *)

pageUnchanged == /\ UNCHANGED <<numberOf, given, picked, previewResult, createdOrder, grantResult, sent>>
                 /\ dialogUnchanged /\ csvUnchanged

\* ListExamRoster with n registered: the rows after the cursor, and where the
\* next page goes on.
RosterPage(sort, cursor, n) ==
    LET top == IF cursor = 0 THEN n ELSE cursor - 1
    IN  IF sort = "asc"
        THEN [rows |-> {i \in 1..n : cursor < i /\ i <= cursor + RosterRows},
              next |-> IF cursor + RosterRows < n THEN cursor + RosterRows ELSE 0]
        ELSE [rows |-> {i \in 1..top : top < i + RosterRows},
              next |-> IF RosterRows < top THEN (top - RosterRows) + 1 ELSE 0]

\* The effect on query.data: a first page replaces the rows, another adds its own.
ShowPage(n) ==
    LET page == RosterPage(rosterSort', rosterCursor', n)
    IN  /\ rosterRows' = IF rosterCursor' = 0 THEN page.rows ELSE rosterRows \cup page.rows
        /\ rosterNext' = page.next /\ rosterShown' = TRUE /\ rosterAt' = n

\* Another page is asked for: what the query cache has of it is shown at once,
\* and it is read unless that is new enough.
AskForPage ==
    /\ \/ /\ rosterShown' = FALSE /\ rosterAt' = 0 /\ rosterFetching' = TRUE
          /\ IF rosterCursor' = 0 THEN rosterRows' = {} /\ rosterNext' = 0
             ELSE UNCHANGED <<rosterRows, rosterNext>>
       \/ \E n \in rosterCursor'..given : ShowPage(n) /\ rosterFetching' \in BOOLEAN
    /\ rosterAskedAt' = IF rosterFetching' THEN given ELSE 0
    /\ UNCHANGED rosterSince /\ pageUnchanged

\* The button below the rows; it waits for a request under way.  The dialog covers it.
LoadMoreRoster ==
    /\ ~modalOpen /\ rosterNext # 0 /\ ~rosterFetching
    /\ rosterCursor' = rosterNext /\ rosterSort' = rosterSort
    /\ AskForPage

\* toggleSort
ToggleSort ==
    /\ ~modalOpen
    /\ rosterCursor' = 0 /\ rosterSort' = IF rosterSort = "asc" THEN "desc" ELSE "asc"
    /\ AskForPage

\* The page arrives, read at some time since it was asked for.
RosterArrives ==
    /\ rosterFetching /\ rosterFetching' = FALSE /\ rosterAskedAt' = 0
    /\ UNCHANGED <<rosterSort, rosterCursor, rosterSince>> /\ pageUnchanged
    /\ \E n \in rosterAskedAt..given : ShowPage(n)

\* Elsewhere somebody else is registered.
OtherRegisters ==
    /\ given < Others + Cardinality({s \in Participants : numberOf[s] # 0})
    /\ given' = given + 1
    /\ UNCHANGED <<numberOf, rosterVars, picked, previewResult, createdOrder, grantResult, sent>>
    /\ dialogUnchanged /\ csvUnchanged

\* It fails, its one retry included.
RosterFails ==
    /\ rosterFetching /\ rosterFetching' = FALSE /\ rosterAskedAt' = 0
    /\ UNCHANGED <<rosterSort, rosterCursor, rosterNext, rosterRows, rosterShown, rosterAt,
                   rosterSince>> /\ pageUnchanged

\* A reconnect asks again for a page that is old.
RosterAgain ==
    /\ ~rosterFetching /\ rosterFetching' = TRUE /\ rosterAskedAt' = given
    /\ UNCHANGED <<rosterSort, rosterCursor, rosterNext, rosterRows, rosterShown, rosterAt,
                   rosterSince>> /\ pageUnchanged

-----------------------------------------------------------------------------
RegistrationInit ==
    /\ adminRole \in {"super_admin", "admin_school", "admin_exam"}
    /\ modalOpen = FALSE /\ flowGeneration = 1 /\ picked = {} /\ grantMode = "manual"
    /\ csvFile = FALSE /\ csvJobId = 0
    /\ previewResult = Nothing /\ createdOrder = Nothing /\ grantResult = Nothing
    /\ sent = NotSent /\ upload = [u \in Uploads |-> [generation |-> 0, step |-> "unused"]]
    /\ jobs = [u \in Uploads |-> "none"] /\ jobSeen = "none"
    /\ numberOf = [s \in Participants |-> 0] /\ given = 0
    /\ rosterSort = "asc" /\ rosterCursor = 0 /\ rosterNext = 0 /\ rosterRows = {}
    /\ rosterShown = FALSE /\ rosterAt = 0 /\ rosterFetching = TRUE
    /\ rosterAskedAt = given /\ rosterSince = 0

RegistrationNext ==
    \/ OpenModal \/ CloseModal \/ ResetDialog \/ ChooseFile \/ PollJob
    \/ LoadMoreRoster \/ ToggleSort \/ RosterArrives \/ RosterFails \/ RosterAgain
    \/ OtherRegisters
    \/ \E students \in SUBSET Participants : PickParticipants(students)
    \/ \E mode \in {"manual", "csv"} : ChooseMode(mode)
    \/ \E m \in {"preview", "create", "grant"} : Press(m) \/ Succeeds(m) \/ Fails(m)
    \/ \E u \in Uploads : \/ SubmitCsv(u) \/ CsvGoesOn(u) \/ CsvFails(u) \/ CsvEnqueued(u)
                          \/ JobEnds(u)

RegistrationSpec == RegistrationInit /\ [][RegistrationNext]_registrationVars

-----------------------------------------------------------------------------
\* A student's row is listed, or it is still to come below them.
Listed(s) ==
    /\ numberOf[s] # 0
    /\ \/ numberOf[s] \in rosterRows
       \/ /\ rosterNext # 0
          /\ IF rosterSort = "asc" THEN numberOf[s] > rosterNext ELSE numberOf[s] < rosterNext

\* Whatever outcome the dialog shows was asked for since it was opened.  The
\* roster beside it, once its page has been read since, lists everybody it says was
\* let in or has them below; but for the later pages of the descending one, where
\* new numbers belong above what is read.
OutcomeOfThisFlow ==
    /\ \A outcome \in {previewResult, createdOrder, grantResult} :
          outcome # Nothing => outcome.generation = flowGeneration /\ modalOpen
    /\ csvJobId # 0 => upload[csvJobId].generation = flowGeneration /\ modalOpen
    /\ rosterShown /\ rosterSince <= rosterAt /\ (rosterSort = "asc" \/ rosterCursor = 0) =>
          /\ \A s \in grantResult.students : Listed(s)
          /\ jobSeen = "succeeded" => \A s \in CsvParticipants : Listed(s)

=============================================================================
