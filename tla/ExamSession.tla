----------------------------- MODULE ExamSession -----------------------------
(***************************************************************************)
(* The sitting of an exam: starting an attempt, saving answers, advancing  *)
(* through timed sections, submitting, an administrator's reopen and force *)
(* submit, and the worker's expiry sweep.                                  *)
(*                                                                         *)
(* Every API handler first reads rows with no lock and returns early on    *)
(* what it sees, then runs one transaction (or one statement) that locks a *)
(* row and decides again.  A handler in flight is a worker whose req holds *)
(* what it read and was asked; BeginX is its unlocked part, CommitX its    *)
(* transaction.  READ COMMITTED transactions that lock the row they decide *)
(* on are one step; anything may happen between BeginX and CommitX.        *)
(*                                                                         *)
(* Marks and scores are those the machine gives when a session is closed:  *)
(* grading an essay by hand, which comes later, is not part of this module.*)
(*                                                                         *)
(* A session is named by its registration and attempt number: the row is   *)
(* inserted with attempt_number = attempts_used under the registration's   *)
(* lock, and attempts_used is never decremented.                           *)
(*                                                                         *)
(* A definition named X_Slip, before X, is X with a plausible bug: nothing *)
(* uses it, and each property fails when one of them takes X's place.      *)
(***************************************************************************)
EXTENDS Naturals, FiniteSets

CONSTANTS
    Regs,             \* exam registrations
    Workers,          \* API requests that can be in flight at once
    Questions,        \* the exam's questions
    Essays,           \* those of them only a human can grade
    Key,              \* the answer to each question graded as correct
    Values,           \* the answers a student can give
    NoAnswer,         \* no answer stored (a NULL answer or no row)
    NoScore,          \* the NULL score of a session not graded yet
    SectionOf,        \* the section (test) of each question
    NumSections,      \* 0: mode 'standard'; else the sections of 'utbk'/'ielts'
    MaxAttempts,      \* exam.max_attempts
    Unlimited,        \* its NULL
    RequiresCheckin,  \* exam.requires_checkin
    Duration,         \* duration_minutes of the exam, or of each section
    Grace,            \* grace_window_minutes
    Extensions,       \* the minutes an administrator may reopen a session by
    AttemptBound,     \* bound: attempts of one registration
    Horizon           \* bound: the last instant of the clock

Attempts  == 1..AttemptBound
Sids      == Regs \X Attempts
Sections  == 1..NumSections
Sectioned == NumSections > 0

ASSUME ConstantsOK ==
    /\ Essays \subseteq Questions
    /\ IsFiniteSet(Questions)
    /\ Key \in [Questions -> Values]
    /\ NoAnswer \notin Values
    /\ NumSections \in Nat
    /\ SectionOf \in [Questions -> Nat]
    /\ Unlimited \notin Nat /\ NoScore \notin Nat
    /\ MaxAttempts \in Nat \cup {Unlimited}
    /\ RequiresCheckin \in BOOLEAN
    /\ Duration \in Nat /\ Grace \in Nat
    /\ Extensions \subseteq Nat
    /\ AttemptBound \in Nat /\ Horizon \in Nat

VARIABLES
    regStatus,      \* exam_registration.status
    checkedIn,      \* exam_registration.checked_in_at IS NOT NULL
    attemptsUsed,   \* exam_registration.attempts_used
    status,         \* exam_session.status, "none" before the row exists
    startedAt,      \* exam_session.started_at
    extendedUntil,  \* exam_session.extended_until, 0 for NULL
    score,          \* exam_session.score, NoScore for NULL
    secStatus,      \* exam_session_section.status
    secStart,       \* exam_session_section.started_at, 0 for NULL
    secExtended,    \* exam_session_section.extended_until, 0 for NULL
    answer,         \* exam_session_answer.answer
    mark,           \* exam_session_answer.is_correct/score/graded_at
    certEvents,     \* CertificateNeeded rows that finalizing has inserted
    clock,          \* now()
    req,            \* the API requests in flight
    sweep           \* the worker's expiry sweep

regVars     == <<regStatus, checkedIn, attemptsUsed>>
sessionVars == <<status, startedAt, extendedUntil, score, certEvents>>
sectionVars == <<secStatus, secStart, secExtended>>
answerVars  == <<answer, mark>>
vars == <<regVars, sessionVars, sectionVars, answerVars, clock, req, sweep>>

-----------------------------------------------------------------------------
(* Types and helpers *)

Idle    == [op |-> "idle"]

Request ==
    {Idle}
    \cup [op : {"start"}, reg : Regs]
    \cup [op : {"save"}, sid : Sids, qn : Questions, val : Values]
    \cup [op : {"advance"}, sid : Sids, sec : Sections]
    \cup [op : {"submit"}, sid : Sids]

\* A due candidate: a session and, in a sectioned exam, its active section
\* (0 stands for the NULL test_id of a standard session).
Candidates == Sids \X (Sections \cup {0})

Marks == {"ungraded", "right", "wrong", "empty"}

TypeOK ==
    /\ regStatus \in [Regs -> {"registered", "checked_in", "in_progress", "submitted"}]
    /\ checkedIn \in [Regs -> BOOLEAN]
    /\ attemptsUsed \in [Regs -> Nat]
    /\ status \in [Sids -> {"none", "in_progress", "submitted"}]
    /\ startedAt \in [Sids -> Nat]
    /\ extendedUntil \in [Sids -> Nat]
    /\ score \in [Sids -> Nat \cup {NoScore}]
    /\ certEvents \in [Sids -> Nat]
    /\ secStatus \in [Sids -> [Sections -> {"pending", "active", "submitted"}]]
    /\ secStart \in [Sids -> [Sections -> Nat]]
    /\ secExtended \in [Sids -> [Sections -> Nat]]
    /\ answer \in [Sids -> [Questions -> Values \cup {NoAnswer}]]
    /\ mark \in [Sids -> [Questions -> Marks]]
    /\ clock \in Nat
    /\ req \in [Workers -> Request]
    /\ sweep \in [on : BOOLEAN, now : Nat, todo : SUBSET Candidates]

LiveOf(r) == {s \in Sids : s[1] = r /\ status[s] = "in_progress"}

\* max_attempts: NULL is unlimited, 0 or 1 a single sitting.
Ceiling == IF MaxAttempts = 0 THEN 1 ELSE MaxAttempts
AttemptLeft(r) == MaxAttempts # Unlimited => attemptsUsed[r] < Ceiling

MayStart_NoLiveCount(r) == AttemptLeft(r)
MayStart_OneTooMany(r) ==
    LiveOf(r) = {} /\ (MaxAttempts # Unlimited => attemptsUsed[r] <= Ceiling)

\* A start is allowed: the handler asks first, CreateExamSessionTx decides.
MayStart(r) == LiveOf(r) = {} /\ AttemptLeft(r)

Later(a, b) == IF a >= b THEN a ELSE b

\* expiryDeadline: the later of start + duration and the extension, plus grace.
Deadline(start, extended) == Later(start + Duration, extended) + Grace

StandardDue(s, now) ==
    /\ Duration > 0
    /\ now >= Deadline(startedAt[s], extendedUntil[s])

SectionDue_NoExtension(s, sec, now) == Duration > 0 /\ now >= Deadline(secStart[s][sec], 0)

SectionDue(s, sec, now) ==
    /\ Duration > 0
    /\ now >= Deadline(secStart[s][sec], secExtended[s][sec])

\* gradeObjective for one question: essays wait for a human, an empty answer
\* is never penalised, every other answer is right or wrong.
GradeOf(qn, ans) ==
    IF qn \in Essays THEN "ungraded"
    ELSE IF ans = NoAnswer THEN "empty"
    ELSE IF ans = Key[qn] THEN "right" ELSE "wrong"

Total_NotClamped(marks) ==
    Cardinality({qn \in Questions : marks[qn] = "right"})
      - Cardinality({qn \in Questions : marks[qn] = "wrong"})

\* The session total with one point per question, won or lost; clamped at 0.
Total(marks) ==
    LET right == Cardinality({qn \in Questions : marks[qn] = "right"})
        wrong == Cardinality({qn \in Questions : marks[qn] = "wrong"})
    IN  IF right > wrong THEN right - wrong ELSE 0

Lowest(S) == CHOOSE x \in S : \A y \in S : x <= y

Pending(s) == {sec \in Sections : secStatus[s][sec] = "pending"}

Free(w)   == req[w] = Idle
Asks(w, o) == req[w].op = o
Reply(w)  == req' = [req EXCEPT ![w] = Idle]

-----------------------------------------------------------------------------
(* The transactions the handlers and the sweep share *)

Init ==
    /\ regStatus = [r \in Regs |-> "registered"]
    /\ checkedIn = [r \in Regs |-> FALSE]
    /\ attemptsUsed = [r \in Regs |-> 0]
    /\ status = [s \in Sids |-> "none"]
    /\ startedAt = [s \in Sids |-> 0]
    /\ extendedUntil = [s \in Sids |-> 0]
    /\ score = [s \in Sids |-> NoScore]
    /\ certEvents = [s \in Sids |-> 0]
    /\ secStatus = [s \in Sids |-> [sec \in Sections |-> "pending"]]
    /\ secStart = [s \in Sids |-> [sec \in Sections |-> 0]]
    /\ secExtended = [s \in Sids |-> [sec \in Sections |-> 0]]
    /\ answer = [s \in Sids |-> [qn \in Questions |-> NoAnswer]]
    /\ mark = [s \in Sids |-> [qn \in Questions |-> "ungraded"]]
    /\ clock = 1
    /\ req = [w \in Workers |-> Idle]
    /\ sweep = [on |-> FALSE, now |-> 0, todo |-> {}]

Finalize_OpenRegistration(s) ==
    LET graded == [qn \in Questions |-> GradeOf(qn, answer[s][qn])]
    IN  /\ mark' = [mark EXCEPT ![s] = graded]
        /\ score' = [score EXCEPT ![s] = Total(graded)]
        /\ status' = [status EXCEPT ![s] = "submitted"]
        /\ certEvents' = [certEvents EXCEPT ![s] = @ + 1]
        /\ UNCHANGED <<regVars, startedAt, extendedUntil, answer>>

Finalize_TotalBeforeGrades(s) ==
    LET graded == [qn \in Questions |-> GradeOf(qn, answer[s][qn])]
    IN  /\ mark' = [mark EXCEPT ![s] = graded]
        /\ score' = [score EXCEPT ![s] = Total(mark[s])]
        /\ status' = [status EXCEPT ![s] = "submitted"]
        /\ regStatus' = [regStatus EXCEPT ![s[1]] = "submitted"]
        /\ certEvents' = [certEvents EXCEPT ![s] = @ + 1]
        /\ UNCHANGED <<checkedIn, attemptsUsed, startedAt, extendedUntil, answer>>

\* finalizeLockedSessionTx on a session whose row the caller has locked and
\* seen in progress: grade what is stored, close the session and its
\* registration, enqueue the certificate, all in one transaction.
Finalize(s) ==
    LET graded == [qn \in Questions |-> GradeOf(qn, answer[s][qn])]
    IN  /\ mark' = [mark EXCEPT ![s] = graded]
        /\ score' = [score EXCEPT ![s] = Total(graded)]
        /\ status' = [status EXCEPT ![s] = "submitted"]
        /\ regStatus' = [regStatus EXCEPT ![s[1]] = "submitted"]
        /\ certEvents' = [certEvents EXCEPT ![s] = @ + 1]
        /\ UNCHANGED <<checkedIn, attemptsUsed, startedAt, extendedUntil, answer>>

\* AdvanceSessionSectionTx on an active section: close it and promote the
\* pending section of lowest sort_order, if there is one.
AdvanceSection(s, sec) ==
    LET next == Lowest(Pending(s))
    IN  IF Pending(s) = {}
        THEN /\ secStatus' = [secStatus EXCEPT ![s][sec] = "submitted"]
             /\ UNCHANGED <<secStart, secExtended>>
        ELSE /\ secStatus' = [secStatus EXCEPT ![s][sec] = "submitted", ![s][next] = "active"]
             /\ secStart' = [secStart EXCEPT ![s][next] = clock]
             /\ UNCHANGED secExtended

-----------------------------------------------------------------------------
(* The student's and the administrator's requests *)

\* CheckIn's transaction: stamps checked_in_at once and overwrites the status
\* whatever it was.
CheckIn(r) ==
    /\ RequiresCheckin
    /\ checkedIn' = [checkedIn EXCEPT ![r] = TRUE]
    /\ regStatus' = [regStatus EXCEPT ![r] = "checked_in"]
    /\ UNCHANGED <<attemptsUsed, sessionVars, sectionVars, answerVars, clock, req, sweep>>

\* StartSession up to its transaction. A live session is resumed instead, which
\* changes nothing.
BeginStart(w, r) ==
    /\ Free(w)
    /\ RequiresCheckin => checkedIn[r]
    /\ MayStart(r)
    /\ req' = [req EXCEPT ![w] = [op |-> "start", reg |-> r]]
    /\ UNCHANGED <<regVars, sessionVars, sectionVars, answerVars, clock, sweep>>

\* CreateExamSessionTx succeeds: under the registration's lock no session is
\* live and an attempt is left.
CreateSession(w) ==
    LET r == req[w].reg
        s == <<r, attemptsUsed[r] + 1>>
    IN  /\ Asks(w, "start")
        /\ MayStart(r)
        /\ attemptsUsed[r] < AttemptBound
        /\ attemptsUsed' = [attemptsUsed EXCEPT ![r] = @ + 1]
        /\ regStatus' = [regStatus EXCEPT ![r] = "in_progress"]
        /\ checkedIn' = [checkedIn EXCEPT ![r] = TRUE]
        /\ status' = [status EXCEPT ![s] = "in_progress"]
        /\ startedAt' = [startedAt EXCEPT ![s] = clock]
        /\ IF Sectioned
           THEN /\ secStatus' = [secStatus EXCEPT ![s][1] = "active"]
                /\ secStart' = [secStart EXCEPT ![s][1] = clock]
           ELSE UNCHANGED <<secStatus, secStart>>
        /\ Reply(w)
        /\ UNCHANGED <<extendedUntil, score, certEvents, secExtended, answerVars, clock, sweep>>

\* CreateExamSessionTx answers ErrNoAttemptsLeft.
RefuseStart(w) ==
    /\ Asks(w, "start")
    /\ ~MayStart(req[w].reg)
    /\ Reply(w)
    /\ UNCHANGED <<regVars, sessionVars, sectionVars, answerVars, clock, sweep>>

\* SaveAnswers up to SaveAnswersTx: the session is in progress and, in a
\* sectioned exam, the question's section is the active one.
BeginSave(w, s, qn, v) ==
    /\ Free(w)
    /\ status[s] = "in_progress"
    /\ Sectioned => secStatus[s][SectionOf[qn]] = "active"
    /\ req' = [req EXCEPT ![w] = [op |-> "save", sid |-> s, qn |-> qn, val |-> v]]
    /\ UNCHANGED <<regVars, sessionVars, sectionVars, answerVars, clock, sweep>>

CommitSave_NoRecheck(w) ==
    /\ Asks(w, "save")
    /\ answer' = [answer EXCEPT ![req[w].sid][req[w].qn] = req[w].val]
    /\ mark' = [mark EXCEPT ![req[w].sid][req[w].qn] = "ungraded"]
    /\ Reply(w)
    /\ UNCHANGED <<regVars, sessionVars, sectionVars, clock, sweep>>

\* SaveAnswersTx: one statement that locks the session row and writes only if
\* it is still in progress. It does not look at the sections again, and the
\* upsert clears any grade.
CommitSave(w) ==
    LET s  == req[w].sid
        qn == req[w].qn
    IN  /\ Asks(w, "save")
        /\ IF status[s] = "in_progress"
           THEN /\ answer' = [answer EXCEPT ![s][qn] = req[w].val]
                /\ mark' = [mark EXCEPT ![s][qn] = "ungraded"]
           ELSE UNCHANGED answerVars
        /\ Reply(w)
        /\ UNCHANGED <<regVars, sessionVars, sectionVars, clock, sweep>>

\* AdvanceSection up to its transaction.
BeginAdvance(w, s, sec) ==
    /\ Free(w)
    /\ status[s] = "in_progress"
    /\ req' = [req EXCEPT ![w] = [op |-> "advance", sid |-> s, sec |-> sec]]
    /\ UNCHANGED <<regVars, sessionVars, sectionVars, answerVars, clock, sweep>>

CommitAdvance_NoRecheck(w) ==
    /\ Asks(w, "advance")
    /\ AdvanceSection(req[w].sid, req[w].sec)
    /\ Reply(w)
    /\ UNCHANGED <<regVars, sessionVars, answerVars, clock, sweep>>

\* AdvanceSection's transaction. The UPDATE matches only an active section; the
\* session row is neither locked nor read again. Otherwise the answer is an
\* idempotent 200 or ErrSectionNotActive and nothing changes.
CommitAdvance(w) ==
    /\ Asks(w, "advance")
    /\ IF secStatus[req[w].sid][req[w].sec] = "active"
       THEN AdvanceSection(req[w].sid, req[w].sec)
       ELSE UNCHANGED sectionVars
    /\ Reply(w)
    /\ UNCHANGED <<regVars, sessionVars, answerVars, clock, sweep>>

\* SubmitSession and ForceSubmitSession up to finalizeSession's transaction.
BeginSubmit(w, s) ==
    /\ Free(w)
    /\ status[s] = "in_progress"
    /\ req' = [req EXCEPT ![w] = [op |-> "submit", sid |-> s]]
    /\ UNCHANGED <<regVars, sessionVars, sectionVars, answerVars, clock, sweep>>

\* finalizeSession: lock the session row, decide again, finalize.
CommitSubmit(w) ==
    /\ Asks(w, "submit")
    /\ IF status[req[w].sid] = "in_progress"
       THEN Finalize(req[w].sid)
       ELSE UNCHANGED <<regVars, sessionVars, answerVars>>
    /\ Reply(w)
    /\ UNCHANGED <<sectionVars, clock, sweep>>

\* A request dies before its transaction commits: a client that went away, a
\* database error, a restart of the API. The transaction rolls back.
Drop(w) ==
    /\ ~Free(w)
    /\ Reply(w)
    /\ UNCHANGED <<regVars, sessionVars, sectionVars, answerVars, clock, sweep>>

\* ReopenSession: sets extended_until to now + minutes, in a sectioned exam on
\* the active section (ErrNoActiveSection, and no change, when there is none).
\* Bound: the extended deadline is not past the Horizon.
Reopen(s, minutes) ==
    /\ status[s] # "none"
    /\ clock + minutes + Grace <= Horizon
    /\ IF Sectioned
       THEN /\ \E sec \in Sections :
                 /\ secStatus[s][sec] = "active"
                 /\ secExtended' = [secExtended EXCEPT ![s][sec] = clock + minutes]
            /\ UNCHANGED extendedUntil
       ELSE /\ extendedUntil' = [extendedUntil EXCEPT ![s] = clock + minutes]
            /\ UNCHANGED secExtended
    /\ UNCHANGED <<regVars, status, startedAt, score, certEvents, secStatus, secStart>>
    /\ UNCHANGED <<answerVars, clock, req, sweep>>

-----------------------------------------------------------------------------
(* The worker's expiry sweep *)

DueCandidates_NeverExtended(now) ==
    {c \in Candidates :
        /\ status[c[1]] = "in_progress"
        /\ IF Sectioned
           THEN /\ c[2] \in Sections
                /\ secStatus[c[1]][c[2]] = "active"
                /\ secExtended[c[1]][c[2]] = 0
                /\ SectionDue(c[1], c[2], now)
           ELSE c[2] = 0 /\ extendedUntil[c[1]] = 0 /\ StandardDue(c[1], now)}

\* ListDueExamExpiryCandidatesPage: in-progress sessions past their deadline.
DueCandidates(now) ==
    {c \in Candidates :
        /\ status[c[1]] = "in_progress"
        /\ IF Sectioned
           THEN /\ c[2] \in Sections
                /\ secStatus[c[1]][c[2]] = "active"
                /\ SectionDue(c[1], c[2], now)
           ELSE c[2] = 0 /\ StandardDue(c[1], now)}

\* A sweep fixes its instant, then lists the candidates due at it.
SweepList ==
    /\ ~sweep.on
    /\ sweep' = [on |-> TRUE, now |-> clock, todo |-> DueCandidates(clock)]
    /\ UNCHANGED <<regVars, sessionVars, sectionVars, answerVars, clock, req>>

Taken(c) == sweep' = [sweep EXCEPT !.todo = @ \ {c}]

\* expireExamCandidate on a standard session: under the row lock it is still
\* in progress and still due at the sweep's instant.
ExpireStandard(c) ==
    /\ c \in sweep.todo
    /\ c[2] = 0
    /\ status[c[1]] = "in_progress"
    /\ StandardDue(c[1], sweep.now)
    /\ Finalize(c[1])
    /\ Taken(c)
    /\ UNCHANGED <<sectionVars, clock, req>>

\* expireExamCandidate on a section: under the locks of the session and of the
\* section, advance; when no section is left, finalize in the same transaction.
ExpireSection(c) ==
    /\ c \in sweep.todo
    /\ c[2] # 0
    /\ status[c[1]] = "in_progress"
    /\ secStatus[c[1]][c[2]] = "active"
    /\ SectionDue(c[1], c[2], sweep.now)
    /\ AdvanceSection(c[1], c[2])
    /\ IF Pending(c[1]) = {}
       THEN Finalize(c[1])
       ELSE UNCHANGED <<regVars, sessionVars, answerVars>>
    /\ Taken(c)
    /\ UNCHANGED <<clock, req>>

\* The candidate no longer qualifies, or its transaction failed and rolled
\* back: the sweep goes on with the next one.
SkipCandidate(c) ==
    /\ c \in sweep.todo
    /\ Taken(c)
    /\ UNCHANGED <<regVars, sessionVars, sectionVars, answerVars, clock, req>>

\* The sweep ends, times out or dies with its process.
SweepEnd ==
    /\ sweep.on
    /\ sweep' = [on |-> FALSE, now |-> 0, todo |-> {}]
    /\ UNCHANGED <<regVars, sessionVars, sectionVars, answerVars, clock, req>>

\* Time passes. Bound: up to the Horizon.
Tick ==
    /\ clock < Horizon
    /\ clock' = clock + 1
    /\ UNCHANGED <<regVars, sessionVars, sectionVars, answerVars, req, sweep>>

-----------------------------------------------------------------------------

Handle(w) ==
    \/ \E r \in Regs : BeginStart(w, r)
    \/ CreateSession(w)
    \/ RefuseStart(w)
    \/ \E s \in Sids, qn \in Questions, v \in Values : BeginSave(w, s, qn, v)
    \/ CommitSave(w)
    \/ \E s \in Sids, sec \in Sections : BeginAdvance(w, s, sec)
    \/ CommitAdvance(w)
    \/ \E s \in Sids : BeginSubmit(w, s)
    \/ CommitSubmit(w)
    \/ Drop(w)

Expire(c) == ExpireStandard(c) \/ ExpireSection(c)

Sweep ==
    \/ SweepList
    \/ \E c \in Candidates : Expire(c) \/ SkipCandidate(c)
    \/ SweepEnd

Next ==
    \/ \E r \in Regs : CheckIn(r)
    \/ \E w \in Workers : Handle(w)
    \/ \E s \in Sids, m \in Extensions : Reopen(s, m)
    \/ Sweep
    \/ Tick

Spec == Init /\ [][Next]_vars

\* The worker keeps sweeping (a ticker starts a sweep every 30 minutes), a
\* sweep ends, and a candidate that is listed again and again is not failed
\* for ever. Students, administrators and time owe nothing.
FairSpec ==
    /\ Spec
    /\ WF_vars(SweepList)
    /\ WF_vars(SweepEnd)
    /\ \A c \in Candidates : SF_vars(Expire(c))

-----------------------------------------------------------------------------
(* What makes sittings correct *)

\* One live session: CreateExamSessionTx locks the registration and counts
\* its sessions, so two starts that both saw none cannot both insert one.
OneLiveSession ==
    \A s, t \in Sids :
        s[1] = t[1] /\ status[s] = "in_progress" /\ status[t] = "in_progress" => s = t

\* attempts_used counts exactly the sessions of the registration, whatever
\* starts, retries and dropped requests did.
AttemptsAreSessions ==
    \A s \in Sids : status[s] # "none" <=> s[2] <= attemptsUsed[s[1]]

\* No registration sits more often than max_attempts allows, although the
\* handler's own check is made before the transaction.
AttemptCeiling ==
    \A r \in Regs : MaxAttempts # Unlimited => attemptsUsed[r] <= Ceiling

\* A session is submitted at most once by its student, an administrator and
\* the sweep together: it has one CertificateNeeded event exactly when it is
\* submitted.
OneCertificateEvent ==
    \A s \in Sids : certEvents[s] = IF status[s] = "submitted" THEN 1 ELSE 0

\* A registration shown as submitted has no session still open, and one shown
\* as in progress has.
RegistrationTracksSessions ==
    \A r \in Regs :
        /\ regStatus[r] = "submitted" => LiveOf(r) = {}
        /\ regStatus[r] = "in_progress" => LiveOf(r) # {}

\* The answers of a submitted session are the ones it was graded on: no save,
\* however late it commits, is stored next to a grade it did not have.
GradedAsStored ==
    \A s \in Sids : status[s] = "submitted" =>
        /\ \A qn \in Questions : mark[s][qn] = GradeOf(qn, answer[s][qn])
        /\ score[s] = Total(mark[s])

\* Sections are taken in order, one at a time: up to some point all are
\* submitted, the next one is active, the rest are pending. None is touched
\* before its session starts.
SectionsInOrder ==
    \A s \in Sids : \E at \in 0..(NumSections + 1) :
        /\ at = 0 <=> status[s] = "none"
        /\ \A sec \in Sections :
             /\ sec < at <=> secStatus[s][sec] = "submitted"
             /\ sec = at <=> secStatus[s][sec] = "active"

\* A submitted session is final for students, saves, finalizers and the sweep:
\* none of them changes its answers, its marks, its score or its status.
SubmittedIsFinal ==
    [][\A s \in Sids : status[s] = "submitted" =>
            /\ status'[s] = "submitted"
            /\ answer'[s] = answer[s]
            /\ mark'[s] = mark[s]
            /\ score'[s] = score[s]]_vars

\* The sweep never closes a session or a section before its deadline, with the
\* extension an administrator granted after the sweep listed it.
ExpiryRespectsDeadline ==
    [][req' = req =>
        \A s \in Sids :
            /\ status[s] = "in_progress" /\ status'[s] = "submitted" /\ ~Sectioned
                 => clock >= Deadline(startedAt[s], extendedUntil[s])
            /\ \A sec \in Sections :
                 secStatus[s][sec] = "active" /\ secStatus'[s][sec] = "submitted"
                   => clock >= Deadline(secStart[s][sec], secExtended[s][sec])]_vars

\* A session whose deadline has passed is closed, unless it is reopened, even
\* if its student never comes back.
OverdueIsClosed ==
    \A s \in Sids :
        (status[s] = "in_progress" /\ ~Sectioned /\ StandardDue(s, clock))
          ~> (status[s] = "submitted" \/ ~StandardDue(s, clock))

\* In a sectioned exam each overdue section of an open session is closed.
\* (A session whose last section the student advanced has no active section
\* and is not a candidate of the sweep: only a submit closes it.)
OverdueSectionIsClosed ==
    \A s \in Sids, sec \in Sections :
        (status[s] = "in_progress" /\ secStatus[s][sec] = "active" /\ SectionDue(s, sec, clock))
          ~> (status[s] = "submitted" \/ secStatus[s][sec] = "submitted" \/ ~SectionDue(s, sec, clock))

\* The promise of ExamAttempts: sittings one at a time up to the ceiling, the
\* sitting that ends is the latest, and it asks for one certificate.
OpenSitting == [r \in Regs |-> LiveOf(r) # {}]

Attempt == INSTANCE ExamAttempts
             WITH used <- attemptsUsed, open <- OpenSitting, certified <- certEvents

KeepsAttemptPromise == Attempt!Spec

-----------------------------------------------------------------------------
(* What comments in the code say, and its behaviour contradicts *)

\* service/exam_session.go, SaveAnswers: "a save targeting any question in a
\* non-active section is rejected with ErrSectionLocked". The section is read
\* with no lock and SaveAnswersTx does not read it again.
SavesOnlyIntoActiveSection ==
    [][Sectioned => \A s \in Sids, qn \in Questions :
            answer'[s][qn] # answer[s][qn] => secStatus[s][SectionOf[qn]] = "active"]_vars

=============================================================================
