# Bimbel Abak Academy: a TLA+ model of its backend and its pages

The repository is an online tutoring academy: a Go backend (`src/backend`: an
HTTP API and a background worker over Postgres, Redis, MinIO, Midtrans,
Biteship and Gotenberg) and a Next.js frontend (`src/web`). This directory
models what several requests, the worker, the payment gateway and crashes do to
the same rows of the backend, and what clicks, effects, timers, late answers and
other users do to the state of the frontend's pages. TLC checks the models on
small instances; TLAPS proves the theorems for every value of the constants.

Contents: [inventory](#1-inventory) · [modules](#2-modules-and-how-they-correspond-to-the-code) ·
[runs](#3-runs) · [fairness](#4-fairness) · [proofs](#5-what-is-proved) ·
[disagreements](#6-where-the-code-and-its-comments-disagree) ·
[limits](#7-what-is-not-modelled-and-why) · [plan](#8-plan).

## 1. Inventory

Two processes share one database. `cmd/api` serves handlers
(`internal/handler`), which call `internal/service`, which calls
`internal/repository` and `internal/adapter`. `cmd/worker` runs poll loops
(`internal/worker`): outbox, stale payments, announcements, jobs, exam expiry.
Postgres runs READ COMMITTED. A handler's typical shape decides everything that
is hard here: it reads rows without a lock, returns early on what it sees, and
then runs a transaction that sometimes locks and decides again, and sometimes
just writes.

| Component | State it keeps | Operations | Talks to | What is hard, and what must hold |
|---|---|---|---|---|
| Exam sessions (`service/exam_session.go`, `repository/exam.go`) | `exam_registration` (status, check-in, attempts used), `exam_session`, its sections and answers | check in, start, resume, save, advance a section, submit; administrator: reopen, force submit, monitor | outbox (CertificateNeeded), Redis (device lock) | racing starts, saves and finalizers; dropped requests. One live session, attempts counted, graded as stored, submitted once |
| Expiry sweep (`service/exam_expiry.go`, `worker/exam_expiry.go`) | none of its own: a listing and its instant | every 30 minutes: list due sessions and sections, finalize or advance each | exam sessions | acts on a listing that goes stale. Never early, eventually always |
| Grading (`service/exam_grading.go`), essays (`service/exam_result.go`) | answer marks, session score | grade objective answers on submit; grade one essay by hand | certificates | the total is recomputed from rows read outside the transaction. Totals add up |
| Certificates (`service/certificate.go`, `worker/certificate.go`) | number, PDF key, generation time | generate when ready, regenerate when stale | outbox, Gotenberg, MinIO | rendered from rows that may change while rendering, kept by comparing times; numbers shared by a registration's sessions. A certificate nobody has yet to render is current |
| Orders and payment (`service/store.go`, `repository/order.go`) | `orders` (status, payment reference, deadline), `order_item` | mint, checkout, retry; webhook; confirm, reconcile, ship, complete, refund | Midtrans, outbox, products, Redis (idempotency keys) | writes that look at no status; repeated, late and missing notifications. Money implies fulfilment, access implies money |
| Stale-payment sweep (`worker/outbox.go:283-337`) | none of its own | expire pending orders past their deadline, return their stock | orders, products | a re-check outside its transaction. Stale payments lapse |
| Outbox (`repository/outbox.go`, `worker/outbox.go`) | rows with `processed_at` | insert with the change it announces; claim ten, process, mark | orders, exams, courses, certificates | at-least-once; a row that fails keeps its place. Processed means delivered |
| Cart and promo codes (`service/store.go`, `repository/promo.go`) | cart lines, `promo_code.used_count` | add, remove, patch, preview | products, shipping rates | a limit checked at one time and counted at another |
| Shipping (`service/shipping_*.go`, `adapter/biteship.go`) | booking id, attempt, shipment status, tracking | book, ship by hand, webhook, refresh, cancel | Biteship | a booking made and not recorded; webhooks of dead bookings |
| Bulk exam orders, registrations, grants (`service/bulk_exam_order.go`, `exam_grant.go`) | `order_participant`, `exam_registration`, participant numbers | order seats for students, grant access | orders, outbox | one seat per student, never twice |
| Courses (`service/course.go`) | `course_session` | enrol, complete lessons, revoke | outbox, refund | one active enrolment per student and course |
| Jobs (`service/job.go`, `worker/job.go`) | `job` rows | enqueue, claim, progress, finish | MinIO, user and school creation | a claim that outlives its worker |
| Announcements (`service/announcement.go`) | `announcement` rows | schedule, claim, send, mark | mail | sent and not marked |
| Authentication (`service/auth.go`) | Redis: OTP codes, session tokens | register, log in, verify, refresh, log out | mail, SMS | read-then-delete of tokens |
| Users, schools, products, exam authoring, configuration, audit, dashboards, notifications, deployment | reference data, logs, read models | single-statement edits, reads | | little interleaves: see `PROJECT.json` |

The frontend is a Next.js client of that API. A page keeps its own state (React
hooks and refs), reads through React Query (`lib/hooks`, one cache for all
pages, data fresh for 30 s) and asks through `lib/api`, which adds the token of
the persisted session (`stores/auth`) and refreshes it on a 401. What is hard
here has one shape: a handler awaits an answer, and by the time it comes the
dialog was closed, another row's dialog is open, the list was read again, or
somebody else changed the row; effects then copy server data over what the user
typed, or keep what they should replace.

| Page or part | State it keeps | What must hold |
|---|---|---|
| Exam session page (`app/(exam-session)/.../page.tsx`, `lib/exam-session-queue.ts`) | answers shown, a queue in `localStorage`, a chain of saves, timers, two flows that close something | nothing typed is forgotten, "saved" means stored, what is closed was stored first, what is shown gets there |
| Session and API client (`lib/api.ts`, `stores/auth.ts`, layouts) | persisted user and tokens, requests being retried | a shell is drawn for the owner of its token |
| Query cache (`lib/hooks/*`, `app/providers.tsx`) | answers by key, invalidations | a mutation's own change is shown |
| Students page | a cursor list, three dialogs | paging skips nobody |
| Participant picker | filters, a selection, a walk over pages | "select all" selects what is listed |
| Exam registrations tab | a dialog's flow and generation, a CSV job | an outcome belongs to the flow shown |
| Schools page and imports | an edit against a row, a job polled | an edit changes only what was typed |
| Configuration and accounts | a form filled once, masked secrets | secrets outlive saves |
| Cart page (with `PatchCart` of the server) | address, rates, courier, promo, quantities | what is charged is right for what is sent |
| Course page and video player | lesson, player, start gate | the gate covers a video that is not playing |
| Exam package page | tests, studio, essay cards | scores reach the session they were typed for |
| Question editor | tokens in a body, rows of answers | answers follow their blank |
| Student profile | a form, edit mode, photo, password | the form follows the profile, typing is kept |
| Admin orders page | dialogs with receipts, a toolbar | a receipt is its order's |
| Curriculum editor (with the server's reorder) | a list, moves of several statements | a completed move is as it was sent |
| Products page | one form for every product | edits given up stay out of later ones |

`PROJECT.json` lists every component with its status, and 40 hazards, each at
the line where it bites, with the properties that cover it or the reason none
does.

## 2. Modules and how they correspond to the code

| Module | What it is |
|---|---|
| `ExamSession` | the sitting of an exam: registrations, sessions, sections, answers, the requests in flight, the expiry sweep, time |
| `ExamAttempts` | what a sitting promises (abstract); `ExamSession` implements it |
| `ExamSessionMC` | instances of `ExamSession` |
| `ExamSessionProofs`, `ExamSectionProofs` | theorems about `ExamSession` |
| `EssayGrading` | after the sitting: essays graded by hand, totals, certificates and the worker that renders them |
| `ExamLife`, `ExamLifeMC` | `ExamSession` before the submit, `EssayGrading` after it; an instance |
| `GradingProofs` | theorems about `EssayGrading` and `ExamLife` |
| `OrderPayment` | the life of an order: checkout to refund, the gateway, the sweep, the outbox, provisioning |
| `OrderFulfilment` | what the store promises a buyer (abstract); `OrderPayment` implements it, liveness included |
| `OrderPaymentMC` | instances of `OrderPayment` |
| `OrderPaymentProofs` | theorems about `OrderPayment` |
| `ExamPage`, `ExamPageMC` | the exam session page against a session's row, with the sweep; instances |
| `AuthClient`, `QueryCache` | what the pages share: the session, the query cache |
| `StudentsPage`, `ParticipantPicker`, `ExamRegistrations`, `SchoolsPage`, `SystemPages`, `CartPage`, `CourseVideo`, `ExamPackage`, `QuestionEditor`, `ProfileForm`, `OrdersPage`, `CurriculumEditor`, `ProductsPage` | one page each, with the handlers of the server it meets |
| `Web`, `WebMC` | the frontend: one page mounted at a time; instances |
| `ExamPageProofs` | theorems about `ExamPage` |
| `PageProofs` | theorems about `AuthClient`, `QueryCache` and the pages of the shop and the courses: `CartPage`, `CourseVideo`, `ProfileForm`, `CurriculumEditor`, `ProductsPage`, `OrdersPage` |
| `AdminProofs` | theorems about the administrators' other pages: `ExamPackage`, `ExamRegistrations`, `SchoolsPage`, `SystemPages`, `ParticipantPicker`, `StudentsPage`, `QuestionEditor` |
| `WebProofs` | `Web` implements each page, and so keeps what each page promises |

**How a handler is modelled.** A request in flight is a worker `w` whose
`req[w]` holds what it was asked and how far it has come. `BeginX` is the
unlocked part of the handler: its guard is the conjunction of the handler's
early returns. `CommitX` is its transaction: one step if the transaction locks
the row it decides on, because READ COMMITTED then gives no other transaction a
chance to interleave; anything at all may happen between the two. A handler
that reads nothing it decides on before its transaction is one action
(`CheckIn`, `AdminConfirm`, `Reopen`). A request that would return early
changes nothing and is no action. `Drop` kills a request between two of its
steps (client gone, gateway or database error, process restart): what it has
committed stays.

**ExamSession.** A session is named `<<registration, attempt>>`, since the row
is inserted with `attempt_number = attempts_used` under the registration's
lock. `Finalize` is `finalizeLockedSessionTx`, shared by submit, force submit
and the sweep. `AdvanceSection` is `AdvanceSessionSectionTx`, shared by the
student's advance and the sweep. `NumSections = 0` is a standard exam,
otherwise a `utbk`/`ielts` exam. An answer is a member of a small set and its
mark one of four classes; every question is worth one point, lost when wrong,
so that the clamp of the total at zero is reached. `clock` is `now()`; the sweep
keeps the instant it took at its start, as `pollExamExpiry` passes it down.

**EssayGrading.** `grading[g]` is one `GradeEssayAnswer` between its reading and
its transaction: what it was asked, and the total it added up. `examSave` is the
`UpdateExam` or `SetExamCertificateEnabled` in flight, which holds the exam's row
lock from `BeginDesign`/`BeginEnable` (the listing of the submitted sessions
included) to its commit. `render` is where `GenerateCertificatePDF` has got to and
what it has read: the session (`RenderBegin`), the exam (`RenderExam`), the answers
(`RenderAnswers`), then the PDF and its time (`RenderStamp`), then the row is marked
(`RenderProcessed`), each its own database call in the code. `needed[s]` counts
`CertificateNeeded` rows. Times are kept as what they are compared for:
`gradeNewer` (a `graded_at` is after the PDF) and `designNewer`
(`certificate_design_updated_at` is). Both are taken before they are committed: a
design's before `UpdateExam`'s transaction, a grade's at the start of its
transaction, so a PDF stored in between is after a change it does not show
(`examSave.rendered`, `grading[g].rendered`). The clocks of the processes and of
Postgres are taken to agree, and the time of a PDF is taken as its row is written.
A grade and a submit lock the answer and the session in opposite orders, so one of
them may be aborted (`DropGrade`). `crossed`, `totalCrossed` and `pdfCrossed` are
history variables; no guard reads them.

`SettledIsCurrent` says of every session that nothing crossed: its total is the sum
of its marks, and when no row of it is left its certificate, if one is due, shows
the design and total stored. It holds through failures and repeated rows of the
worker, re-grades, designs removed and restored, switches off and on, and rows
handled in any order. What a crossed write leaves is in section 6.

**ExamLife** has the two parts side by side: one of them moves in each behaviour.
The submit is in both (`Finalize`, `SubmitSitting`); apart from it the sitting reads
nothing that grading writes, and grading no clock and no request of a student.

**OrderPayment.** An order is named before its row exists (`"none"`).
`deadline` is `payment_expires_at` reduced to absent, running or past.
`pending` and `processed` count the order's `OrderPaid` rows by `processed_at`.
`MarkPaid` is the pair "set status, insert row" that the webhook, confirm,
reconcile and the free checkout all run in one transaction. Administrators'
confirm and reconcile read only facts that stay true, so each is one step.
`StoreRef` is a step of its own because `SetPaymentRef` runs through the pool,
also in `RetryPayment` where it looks like part of the transaction. The sweep
re-checks (`SweepRecheck`) and writes (`SweepExpire`) in two steps because its
re-check reads through the pool. An order already shipped whose shipment failed can
be shipped again (`BeginShip`, also from `shipped`).

**ExamPage.** One step is what runs between two awaits of a handler, or one
event: an edit, a timer, an answer, a reload. The saves are one promise chain, so
`chain` is a sequence whose first member is on the network; a flow
(one for each press of Submit, `stage["expiry"]` for the recovery of an expired
countdown) is an async function whose stage says which await it is at; a recovery
that fails unlocks the page, so a second press can start before the first is over. An answer
is the number of the edit that gave it. `Acked`, `Refused` and `Dropped` are the
three ways a request ends. The server's half (`Accepts`, `Stored`, `Advanced`,
`ServerCloses`) is the handlers of `ExamSession` reduced to one session's row.

**The other pages.** A page's variables are its hooks and refs, its actions the
handlers and effects. A dialog that stays mounted keeps its variables when it
closes, one that unmounts drops them; a request is a variable of its own because
it outlives both. `XArrives` is the answer of a query, `XDone`/`XSaved` an
`onSuccess`, `XFails`/`XRefused` an `onError` (which stands for a lost answer
too, so what was asked may have been done). A server handler is a step of its own
where something can come between it and its answer, or between its statements
(`PatchWritten` after `PricePatch`, `MoveUnit` position by position); where
nothing can, it is part of the step that takes the answer. `OtherDevice`,
`OtherEdits`, `OtherAuthor`, `OtherMoves`, `OtherRegisters`, `Sale` and
`OrderMovesOn` are everybody else.

**Web.** A browser tab has one page mounted and leaving it drops its state, so
`Web` lets one page move in each behaviour and keeps the others at an initial
state.

**QueryCache** is looked at pair by pair: every query of `lib/hooks` with every
mutation that writes what it reads (61 queries, 40 mutations, 393 such pairs). What
a query reads is what its answer carries: the `...Data` sets go through the types
of `lib/types.ts` and the endpoint that fills them, joins, counts and the choice of
rows included. A mutation writes what its handler has changed when it answers; what a
worker changes later is nobody's write (a certificate, an order's access), and a bulk
order is created as a cart. An id or filter in a key is the one the mutation is about,
so one id stands for all. Logging out clears the cache (`hooks/auth.ts:100-106`) and
so ends the behaviour. `ReadAgain` says which of what a query reads is read again
whenever any hook changes it; section 6 lists the rest.

**Rosters and other lists by cursor.** `ExamRegistrations` reads the participants a
page at a time, by participant number, each page under a key of its own, and only the
page mounted (that of the last cursor) is read again when the roster is invalidated,
as in `ExamRosterSection`. `OtherRegisters` lets in somebody from elsewhere.

`X_Slip` definitions (for example `Finalize_OpenRegistration`) are plausible
bugs of the definition that follows them. No specification uses them; each
property of each passing run fails when one of them replaces the definition it
is named after.

## 3. Runs

All runs are exhaustive within their bounds.

| Run | Instance | Asks |
|---|---|---|
| `exam_standard` | standard exam, `max_attempts` 2 with room for a third, two requests in flight, reopens by 1 or 2, clock to 5; in the grading part one session of two essays, two grading requests, a design with a score and one without, three writes | `TypeOK`, `OneLiveSession`, `RegistrationTracksSessions`, `GradedAsStored`, `SubmittedIsFinal`, `KeepsAttemptPromise`, `SettledIsCurrent` |
| `exam_sectioned` | two sections, check-in required, an essay, one request in flight | `SectionsInOrder`, `ExpiryRespectsDeadline`, `OverdueSectionIsClosed` |
| `exam_live` | standard exam, unlimited attempts, two requests | `OverdueIsClosed` |
| `exam_locked_section` | two sections, two requests | finds `SavesOnlyIntoActiveSection` violated |
| `order_race` | one order of a book and a course, two requests, two payments, two OrderPaid rows | `TypeOK`, `PaidIsQueued`, `StalePaymentLapses`, `KeepsFulfilmentPromise` |
| `order_store` | four orders that share the last book and one buyer's course, one free, one bulk; one request | `ProcessedIsDelivered`, `AccessNeedsMoney`, `StockTakenOnce` |
| `order_sweep_recheck` | one order, one request | finds `SweepExpiresOnlyPending` violated |
| `order_walked_back` | one order, one request | finds `ShippedIsNotWalkedBack` violated |
| `order_bulk_seats` | one bulk order | finds `SeatsPassQtyRule` violated |
| `exam_page` | one question, of an exam without sections or of the first of two; two edits, two visits, one press of Submit at a time, one save in the chain (and one more by a flow), a storage that may be full | `TypeOK`, `NothingForgotten`, `SavedMeansStored`, `SubmittedAsPressed`, `ClosedSectionIsComplete`, `ShownIsStored` |
| `exam_page_newest` | the same with a second position | finds `NewestAnswerWins` violated |
| `web` | every page, with the constants of `Web.cfg` | `WebTypeOK` and fifteen properties, one or two of each page (the table in 1 says them in words): `ShellIsTheOwners`, `OwnWriteIsShown`, `NoneSkipped`, `ListedAreSelected`, `OutcomeOfThisFlow`, `EditsKeepOthers`, `SecretsOutliveSaves`, `ChargedForThisCart`, `GateCoversUnplayed`, `ScoresStayWithTheirSession`, `AnswersFollowTheirBlank`, `FormFollowsProfile`, `ReceiptIsOfItsOrder`, `MovedAsSent`, `AbandonedEditsStayOut` |

*Why the bounds are enough.* Every race in these handlers is between two
transactions on one row, so two requests in flight, the sweep and an
administrator reach each of them. Registrations do not interact, so one is
enough; orders interact through stock, a buyer's single cart and a buyer's
enrolment, which `order_store` shares. Two attempts and room for a third let
the ceiling be overstepped; two sections make "next" and "last" differ. With a
duration of 1, a grace of 1 and a clock to 5, a session can run out, be
extended, run out again and still be swept. `order_race` gives its order two
payments and two `OrderPaid` rows, the least with which a retry, a repeated
notification and a row handled late can happen together; a third repeats the
second. `AttemptBound`, `Horizon`, `InvoiceBound` and `EventBound` are the
bounds in guards, each named in its module's CONSTANTS.

In the grading part sessions share only the exam's design, and one save of the exam
is in flight at a time, so one session meets every writer. Three writes
(`GradingWrites`) are two grades, which complete two essays, and a design or a
switch before, between or after them; a point is the difference between two grades,
and the machine's part is a penalty, so that the clamp is reached. `GradingProofs`
shows the same for all numbers.

`exam_page`: an answer can be typed, be on its way, be typed over and be lost
with two edits; the second visit is a reload or a return with the queue full. One
question is enough for what the properties compare, which is one question's
copies in five places; the second section is where a save of the first is
refused. `SavesBound` counts what timers and events put into the chain; a flow
adds its own. `web`: two (rows, dialogs, sessions, orders) is the least with
which an answer can meet the wrong one; the lists have three members where
"first, next, last" matters (students, units); the bounds on writes let somebody
else's change come before, between and after the page's own. The picker, the
students list and the roster have one row a page, so that every boundary between
pages is crossed; the roster's second row comes from elsewhere (`Others`) or from the
page's own student. `ImportRuns`, `Uploads`, `Patches`, `Files` and `RequestsOpen` are
one where a second would only repeat the first. `MaxScore` is 0: a score of nothing is
still a score, and the property tells only typed from not typed and one session from
the other. With `PackageWrites`, `AccountChanges`, `OrderMoves` and `TypedBound` at one
each page still has a write of its own between another's read and write;
`CurriculumWrites` is two, one for each of the two authors. `QuestionEditor` has one
save of an editor that was closed while it ran (`leftSaving`), which may end while the
reopened one saves. All pages together have 1.4 million states. The theorems
(section 5) have no such bounds.

*Deadlock* is checked in `exam_sectioned` and `exam_live`, where the sweep always
can go on. In `exam_standard` it is not, because the grading part ends when its
writes are used up and its rows are processed. In the order runs it is not: an order may be over, and its bounded counters
(`InvoiceBound`, `EventBound`) used up, and then nothing is left to do; nor in the
pages' runs, where a user may have used up every bound and wait for nothing.

## 4. Fairness

Only the worker owes anything. Students, buyers, administrators, the gateway and
API requests may stop at any point, and time need not pass.

- `ExamSession!FairSpec`: a ticker (`pollExamExpiryLoop`) starts a sweep again
  and again (`WF SweepList`) and a sweep has a timeout of five minutes
  (`WF SweepEnd`). Expiring one candidate is strongly fair: a sweep may die
  before it reaches the candidate or its transaction may fail, but every later
  sweep lists it again, and a candidate that can be expired again and again is
  expired in the end. An error that strikes one session for ever would break
  this, as it would break the code.
- `OrderPayment!FairSpec`: the same for the stale-payment sweep, with strong
  fairness of `SweepRecheck` and `SweepExpire` per order, and weak fairness of
  `Fulfil` per order: the outbox is polled on a ticker and a pending row stays
  claimable until it is processed. That ten rows which fail for ever can starve
  the others is a hazard this fairness assumes away; it is listed in section 8.

- `ExamPage!FairSpec`: the page is left open and the network comes back. The interval
  of five minutes (`page.tsx:535-541`) reconciles again and again, whatever the flows
  do (`SF Reconcile`: it waits only for the page to show the exam and, in the model,
  for room in the chain), a request under way ends in some way (`WF` of
  `Acked`, `Refused` or `Dropped`: the browser settles it), and it is not lost for
  ever (`SF Acked`). Nothing is assumed of the student, nor of the debounce and
  retry timers: the interval alone must be enough. `ShownIsStored` allows that the
  session or section is closed, or the page is left, first.

`EssayGrading` and the other pages have no fairness: their properties are safety.

## 5. What is proved

All theorems hold for every value of the constants (exams, orders, users, lists,
requests in flight, bounds), from the assumptions on them that each module names.

*`ExamSessionProofs`.* `AttemptInv` is inductive: `TypeOK`, `AttemptsAreSessions`
(sessions exist exactly up to `attempts_used`), `LiveIsLatest` (only the latest
attempt can be open), `AttemptCeiling`, `OneCertificateEvent` and
`RegistrationTracksSessions`. `OneLiveSession` alone is not inductive: that a new
session is the only live one follows from `MayStart`, but that later steps keep
it so needs the order of attempts, which `LiveIsLatest` adds. From it follow
`TypeCorrect`, `OneLive`, `AttemptsCounted`, `CertificateOnce`,
`RegistrationTracks`, and, with the lemma that a step other than `Finalize` and
`CommitSave` leaves answers and marks alone, `GradesMatchAnswers` and the action
property `FinalForEver`. `PromiseKept` shows that `Spec` implements
`ExamAttempts!Spec`: a finalizing step maps to `Finish` because `LiveIsLatest`
makes the closed session the latest and `OneCertificateEvent` says it had no
event, `CreateSession` maps to `Sit`, every other step to a stutter.

*`ExamSectionProofs`.* `SectionsOrdered`: sections are taken in order for any
number of sections, by an inductive invariant that also bounds the position.

`NeverEarly`: the sweep closes nothing before its deadline.
The sweep judges by the instant it started at, the property by the clock, so the
proof needs `SweepIsLate`: that instant is never after the clock. With it, what
was due then is due now (`DueStaysDue`); that the deadline may have moved in
between does not matter, because the sweep's transaction reads it again. The
other half is which steps close something at all: a request's own step changes
`req`, so a step that leaves `req` alone and closes something is the sweep's, and
an advance closes only the section it was asked to (`AdvanceCloses`).

*`GradingProofs`.* `SettledResults`, and for the composition `SettledInLife`:
`SettledIsCurrent` holds for every number of sessions, essays, graders and designs.
It says nothing of the moments in which a row is left, so `GradingInv` adds what
makes them safe. `StaleIsOwed`: a certificate that is due and not current has a row
that nobody took up, or is being rendered from what is stored. The worker may also
decide to render nothing; that this is right needs `UpToDateIsCurrent` (a PDF that no
time of change is after shows what is stored) and `RendersWhatIs` (what it read is
still stored, unless it was crossed). A switch on that does not ask for certificates
must have found them on when it commits, not when it looked (`EnableSeen`). Rows are
not lost because only the worker removes one, and only one it holds (`RowsRemain`).
For totals, `TotalsRead`: what a request added up before its transaction is still
the sum with its grade in place.

*`OrderPaymentProofs`.* `OrderInv` is inductive: `TypeOK`, `HandlersKnow`,
`PaidIsQueued`, `OwedIsFunded`, `AccessNeedsMoney` and `ProcessedIsDelivered`. The
properties alone are not inductive. A refund or a shipment writes a status long
after it looked at the order, so `PaidIsQueued` needs what the request saw to be
still true: `HandlersKnow` says that a request under way against a paid order is
about one with an `OrderPaid` row (rows are never deleted), and a webhook about
money that arrived. Provisioning looks at the row, not at the money, so
`AccessNeedsMoney` needs `OwedIsFunded`: every row stands for money. The proof
sorts the steps once (`StepShape`: a step pays, provisions, writes the status a
request decided on, refunds or keeps books) and each conjunct is shown for the kinds that can disturb it. From
`OrderInv` follow `PaymentsQueued`, `AccessIsFunded` and `ProcessedDelivers`;
`StockOnce` needs the types alone. `PromiseKept` proves the safety half of
`OrderFulfilment`: nothing is owed without money, nothing served that is not owed.

*`ExamPageProofs`.* The exam page's types, its two invariants and its two action
properties, for any questions, sections, edits, visits, presses of Submit and saves
under way. An
answer has up to six copies (on the screen, in memory, in `localStorage`, in a save
of the chain, in the row, in a copy of the row that is cached or on its way), and
none of the properties is inductive, because each speaks of two of them.
`PageInv` says how all of them stand to each other:

- `QueueIsNewest`: `localStorage` holds the newest edit of a question or nothing,
  and the exam shows nothing older;
- `ShownIsKept`: unless something is volatile, what is shown of a section that is
  still open is stored or queued;
- `SavesCarry`: a save brings at least what it will acknowledge; one that was made
  of the whole screen, and after which nothing was typed, brings all that is shown;
  one of a press, together with what is stored, brings all that was read when Submit
  was pressed;
- `CopiesFollow`: a copy of the session is never ahead of the row, and nothing is
  queued for a section that is still to come;
- `FlowsKeep`: what the flows have made sure of at each await, and `OnePress`: a
  press has one barrier in the chain at a time.

`SubmitIsComplete` then is `FlowsKeep` at the stage before the post;
`AdvanceIsComplete` likewise, where the row may have moved on to a later section
meanwhile but no answer is ever taken back (`RowGrows`, `QueueShrinks`).

*`PageProofs` and `AdminProofs`* prove, of each page's own specification, its types
and its property. In most of them the property is about what is on the screen and
the invariant has to be about what is under way.

- Session. Store, retried requests and refreshes agree (`SessionsMatch`): a token in
  any of them has an owner, and the stored user is that owner, or the store is empty.
- Query cache. Two halves. Over the tables of the hooks (a finite case analysis,
  one lemma for each group of mutations): a mutation covers every query that reads
  what it writes, unless they share one of the named gaps. Over the steps (`CacheInv`):
  old data waits for the mutation's success, for an answer under way, or is marked.
- Cart. The server prices a courier outside its transaction and writes if the version
  is the one it read. So the invariant follows a patch through its stages: once it
  is priced, either the order has moved on, or the price is for the goods and the
  address the order still has.
- Video. `OnePlayer`: no player before its continuation has run and none after a
  failure. `GateWillClose`: a video that does not play has told so, or the word that it
  has ended comes, in the line of events, after every word that it plays.
- Profile. Versions name profiles and only grow; a form nobody edits is the version it
  was filled from.
- Curriculum. Units written by nobody else since a move began have the position the
  move has written, wherever units come and go and whoever else moves; `taken` says which
  units another author's move has written meanwhile. That a list names no unit twice is what keeps a later statement from
  undoing an earlier one. The types need a count: a list without repetitions is no
  longer than there are units (`ListsBounded`, by the pigeonhole principle), so no
  position lies beyond them.
- Products and orders. The form is the row's but for what was changed since it opened;
  a live upload is the open dialog's, because closing it unmounts it.
- Exam package. The cards and what is typed in them are of one session, and the cards
  shown are those of the session selected. A grade that left the browser at the press
  carries the session it was typed for; one that waited for the network carries the
  session selected when it was sent, and only then.
- Registrations. Everything a flow shows carries the current generation; what is under
  way may carry an older one, which is why an answer must compare before it shows.
  The page of the roster that is mounted has been asked for again whenever an outcome
  of the flow let somebody in who belongs on it.
- Schools. `TypedOnly`: form and row differ, and a request sends something, only where
  something was typed; the request too, because it outlives its dialog.
- Settings. `MaskStands`: a filled form holds the mask until somebody types, and so does
  a save made from it; `SaveFits`: a save holds fields of its tab only, so that
  another tab's save cannot touch the secret.
- Picker. `WalkTakesTheList`: while the walk's filter is the one shown, what its list has
  so far is selected or was taken back. Another filter's list is none of the walk's.
- Students. A page in the cache holds everybody from its cursor to its next one
  (`PagesHold`), the list everybody up to the page asked for (`ListHolds`); the list
  must not ask for a page that it left behind, whose answer it would ignore.
- Question editor. `RowsFollow`: tokens and rows are paired in the draft, in the
  question, in the page's copy and in the save under way. That renumbering keeps the
  pairing needs that the body without a token keeps the others in their order
  (`BodyWithout`), which is where most of the proof is.

*`WebProofs`.* `WebImplementsItsPages`: every behaviour of the frontend is, for each of
its fifteen parts, a behaviour of that part's specification, as its steps are one part's
and leave the others' variables alone. With it `WebTypesHold` and
`PagesKeepTheirPromises` carry all that is proved of the pages over to `Web`.

*What proving changed in the models.* A later page may be asked for only while no
dialog covers the students' list (`LoadMore`): the proof of its types asked which click
could be meant. `CurriculumTypeOK` said that a move is of a unit;
it is of a row of the list, and the two agree only if units are numbered from one,
as they are in the instance. `OwnWriteIsShown` had excused data with any request under
way; the excuse was not needed. `ExamPage` had one flow for all presses of Submit,
though a recovery that failed lets a second press start while the first is on its way;
`Presses` names them now, each with its stage and with what it read off the page. With
two of them the safety half of `exam_page` still finishes; its liveness half does
not in the time of a run, so the run has one and the theorems have any number. The bound on the player's events and the picker's name for "no
filter" got the assumptions that the proofs use.

*Left to TLC*: liveness under fairness (`OverdueIsClosed`, `OverdueSectionIsClosed`,
`StalePaymentLapses`, the fair half of `KeepsFulfilmentPromise`, `ShownIsStored`),
which is out of the prover's reach. Every other property that a passing run checks is
a theorem. `AttemptsAreSessions` and `OneCertificateEvent` are proved
(`AttemptsCounted`, `CertificateOnce`) and are not checked by a run of their own: the
refinement `KeepsAttemptPromise` fails with them.

## 6. Where the code and its comments disagree

Each is a run that finds the property violated; `findings` in `PROJECT.json`
quotes the lines.

- `SavesOnlyIntoActiveSection` (`service/exam_session.go:639`): a save that
  passed the section check is written into a section closed in between.
- `SweepExpiresOnlyPending` (`worker/outbox.go:297`): the re-check "inside
  transaction" reads outside it, so an order paid in between is expired and its
  stock returned.
- `ShippedIsNotWalkedBack` (`worker/outbox.go:260`): an OrderPaid row handled
  after the order was shipped sets it back to processing.
- `SeatsPassQtyRule` (`service/store.go:1139`): the one-unit rule for digital
  products refuses the checkout of bulk orders of two seats or more.
- `NewestAnswerWins` (`web/app/(exam-session)/exam/sessions/[id]/page.tsx:543`):
  the comment argues that hydration has read the queue before replay clears it;
  without a cached session the replay's acknowledgement can come first, the page
  then shows the older answer and writes it over the newer one.

### Behaviours the models show, which no comment or test denies

The properties of section 3 are stated so that they hold in spite of these; the
modules keep the transitions that lead to them.

- **EssayGrading, totals.** Two grades of one session under way together, or a grade
  and the submit: the later commit writes a total that misses the earlier one, and
  it stays until the next grade (`totalCrossed`).
- **EssayGrading, certificates.** A PDF stored after a grade or a design was committed
  but rendered from rows read before it carries the later time; the row the change
  asked for then finds it up to date, and the certificate stays as it was until the
  next change. A session submitted between the listing and the commit of a design or a
  switch on has only its own row, which may be handled before that commit
  (`pdfCrossed` in both cases).

- **ExamPage.** A change of section does not reset `expiryRecoveryFailed`, so a
  retry card left from one section can advance the next before its time. The
  reconcile step paints "saved" over edits that are only in memory, and
  acknowledges a position it did not send. After a reload with no active section
  the recovery returns with `submitting` left true; the manual submit on the last
  question of any section submits the session.
- **AuthClient.** A refresh answered after a logout signs the browser in again.
  Two concurrent 401s refresh with one token and the loser evicts the session the
  winner obtained.
- **StudentsPage, SchoolsPage, CurriculumEditor, ProductsPage, OrdersPage,
  SystemPages, ProfileForm, QuestionEditor.** A late answer acts on the dialog
  that is open when it arrives, not on the one that sent the request: it closes
  another row's dialog, or shows its error or result there.
- **ParticipantPicker.** Deselecting all does not stop a walk through the pages,
  and the walk resumes when its filter returns.
- **ExamRegistrations.** A result that arrives after the dialog closed does not
  refresh the roster; the order sent is for the selection at that moment, not the
  one previewed. An invalidation reads only the page of the roster that is mounted:
  the pages before it keep what they had, and in descending order who is let in
  belongs before the page shown. A grant whose answer is lost, or a file's job that
  failed, may have let students in that the roster does not show.
- **SchoolsPage.** An emptied field is not sent; an import that changes nothing
  leaves the list empty.
- **SystemPages.** Settings are written key by key (`system_config.go:285-290`), so a
  save that fails half-way leaves some of them written. General and payment settings are
  saved whole, over another administrator's concurrent change; a typed secret stays and is sent again.
- **CartPage.** A change of quantity voids the courier on the server while the
  page keeps its rates; applying a promo code sends the unsaved address.
- **CourseVideo.** After the unplayable notice the player's `.then` runs before
  the re-render, and the next lesson's player is not made.
- **ExamPackage.** A refetch, also the one a sibling's grade triggers, replaces
  unsaved picks and scores; a design save clears `dirty` with newer edits unsaved.
  `useGradeEssay` takes its session from the last render (`admin-exams.ts:245`): a
  score saved while the network is down is sent, once it is back, to the session open
  by then, and a save answered after the session was changed has the new session's
  essays read again instead of its own.
- **QuestionEditor.** An editor closed and opened again while its save runs takes
  edits, and can save, before that save has ended. Undo restores the body and not the rows, so answers pair
  with other blanks (`AnswersFollowTheirBlank` says "until the first undo").
- **ProfileForm.** A blank field is absent from the request, so nothing can be
  cleared; edits made during a save are lost; the whole form overwrites another
  device's change.
- **OrdersPage.** A failed shipment goes on offering a refund for an order already
  refunded; the file chooser is free after the presign, so a second upload may
  overtake the first.
- **CurriculumEditor.** A new unit's position is the count of units, which after a
  deletion ties with the last one; a second move pressed before the refetch
  undoes the first; two authors' moves, which run in no transaction, mix; a reorder that
  fails half-way leaves half of the positions.
- **ProductsPage.** An edit writes the listed stock back over the sales made
  meanwhile; the edit form can publish what `PublishProduct` would refuse.
- **QueryCache.** A mutation that succeeds during a query's first load leaves the old
  data counted as fresh. And the keys a mutation names do not reach every query that
  reads what it changed; of the 340 pairs of a query and a kind of data it reads, 53 are
  read again whenever a hook changes them (`ReadAgain`). The others, until the query
  is read for another reason (data older than 30 s at a mount, a reconnection, another
  mutation, its own polling):

  | Query | Changed, and not read again |
  |---|---|
  | `admin/audit/list` | account, config, order, registration, student |
  | `admin/bank-questions/list` | exam, exam tests, product, topic, `Sat` |
  | `admin/bulkExamOrders/orderableExams`, `products/list` | checkout, exam, exam tests, product, test |
  | `admin/courses/detail/id` | section |
  | `admin/dashboard/exam` | exam, new course, new test, question, registration, test, violation, `Sat`, `Names` |
  | `admin/dashboard/range` | exam, registration, school, shipment, `Sat`, `Names`, `Bought` |
  | `admin/dashboard/school` | exam, grade, `Sat`, `Names`, `Bought` |
  | `admin/examGrants/search` | school, `Names` |
  | `admin/notifications/list`, `courses/list` | order |
  | `admin/orders/detail/id` | cart, checkout, retry, school, `Names` |
  | `admin/orders/list` | bulk order, cart, checkout, retry, school, `Names` |
  | `admin/orders/summary` | checkout, retry, `Names` |
  | `admin/products/list`, `admin/promos/list` | checkout |
  | `admin/results/detail/id`, `admin/results_workspace/detail/id`, `exam/leaderboard/id` | answer, exam, grade, `Sat`, `Paper`, `Names` |
  | `admin/results/list` | grade, school, violation, `Sat`, `Names` |
  | `admin/results_workspace/attempts` | answer, grade, question, violation, `Sat` |
  | `admin/results_workspace/list` | grade, registration, school, violation, `Sat`, `Paper`, `Names` |
  | `admin/revenue/list` | checkout, order |
  | `admin/schools/list` | `Names` |
  | `admin/students/list` | profile, registration, school |
  | `admin/tests/detail/id` | attachment, attachment order, question, topic |
  | `admin/tests/list` | attachment |
  | `admin/tests/questions/id` | question, topic |
  | `admin/topics/list` | question |
  | `adminExams/analytics/id` | attachment, exam tests, grade, question, `Sat` |
  | `adminExams/detail/id` | attachment, test |
  | `adminExams/grading/id` | answer, question, `Sat`, `Names` |
  | `adminExams/leaderboard/id` | grade, `Sat`, `Names` |
  | `adminExams/list` | design, product, profile, registration, test |
  | `adminExams/roster/id` | check-in, exam, `Sat`, `Names` |
  | `adminExams/sessionEssays/id` | answer, attachment, attachment order, exam tests, question, `Sat` |
  | `adminSessions/monitor-available` | check-in, exam, exam tests, registration, test, `Sat` |
  | `adminSessions/monitor/id` | answer, attachment, attempt, check-in, exam, exam tests, new attempt, registration, school, test, violation, `Names` |
  | `adminSessions/violations/id` | violation |
  | `auth/me` | account, `Names` |
  | `courses/detail/id` | course, order, section |
  | `exam/detail/id` | config, exam, exam tests, registration, test, `Sat` |
  | `exam/list` | config, exam, registration, `Sat` |
  | `exam/result/id` | answer, exam, `Sat`, `Paper` |
  | `exam/session/id` | answer, exam, sitting, `Paper` |
  | `orders/active-promos` | checkout, promo |
  | `orders/detail/id` | checkout, order, shipment |
  | `orders/list` | order, shipment |
  | `products/detail/id` | checkout, course, exam, exam tests, product, test |
  | `students/dashboard` | course, progress, section, `Bought` |
  | `students/profile` | student |
  | `students/schools` | school |

  Only `admin/accounts/list`, `admin/announcements/list`, `admin/config/detail`, `admin/courses/detail/id/sections`, `admin/courses/list`, `admin/orders/tracking/id`, `admin/schools/options`, `adminExams/detail/id/certificate-design`, `orders/cart`
  are read again after every mutation. (`Sat`: a session started, moved on or closed;
  `Paper`: what a test consists of; `Names`: a participant's; `Bought`: the steps of
  an order.) The one a user meets first is a test's detail, which has its questions
  and is not invalidated by any of the mutations that save, delete, attach, detach or
  reorder them (`lib/hooks/admin-tests.ts:64-213`).

## 7. What is not modelled, and why

- In `ExamSession`: the schedule window and the Redis device lock of check-in
  and start; pages of the expiry listing (one listing stands for them); question
  formats, points and penalties (the classes right, wrong, empty, ungraded are
  what the properties tell apart); violations and the monitor, which change no
  modelled state.
- In `EssayGrading`: certificate numbers, rank and percentile (they change with other
  sessions' totals, which asks for no new certificate), the student's name and the
  exam's title; layout and assets; who may grade. Two saves of the exam at once are
  left out: `UpdateExam` writes the whole row, so the last one counts.
- In `OrderPayment`: editing a cart (contents are fixed; `CartPage` models the
  editing from the page's side), the shipping and biodata gates of checkout (they
  refuse and change nothing), promo codes, products with no linked course or exam
  (the worker skips them), an administrator's edit of `product.stock`, Biteship's
  own states, the idempotency caches of requests other than the webhook (a request
  answered from its cache changes nothing; a new key is a new request), several
  worker processes (`src/deploy` runs one), the claim's limit of ten.
- In `ExamPage`: full screen, violation reports and media; the 25 iterations and
  the three attempts of the retry loops (a loop may end after any number of
  rounds); a failed GET is a GET not read; leaving the page with a save in flight
  is only the reload. `SavesBound` and `FlowRoom` cap the saves in flight. A flag
  on a question is an edit like any other.
- In the other pages: rules of single form fields, paging where it selects no
  other rows, translation, charts and pages that only read. `OrdersPage` has
  either its dialogs or its toolbar in a behaviour, and a request whose answer is
  lost has been carried out by then or never will be. `ProductsPage` leaves out
  the specification editor, `QuestionEditor` has one level of undo. In
  `CurriculumEditor` a move that failed half-way is a behaviour, and the property
  leaves its units out. A promo code of `CartPage` takes off a fixed amount.
- The pages' modules take the server as the code of `src/backend` answers it: a
  value, a refusal or a lost answer. They are not composed with `ExamSession` and
  `OrderPayment`, whose interleavings they would multiply.
- Midtrans and the passing of time are external: modelled from how the code uses
  them.
- Components listed as `not_modelled` in `PROJECT.json`: read models, reference
  data, pure I/O, generated or presentational code, or on the list below.

## 8. Done, and what would come next

Done, model-checked and, but for liveness, proved: `ExamSession` + `ExamAttempts`;
`EssayGrading`; `ExamLife`; `OrderPayment` + `OrderFulfilment`; `ExamPage`; all pages'
modules, composed in `Web`.

Next, in this order:

1. Certificate numbers and ranks: what `AllocateCertificateNumber` shares between a
   registration's sessions, and the leaderboard, which filters before it picks the
   latest attempt (`repository/exam.go:2456-2467`).
2. `Outbox`: the claim of ten rows, rows that fail for ever, unknown types; what
   head-of-line blocking does to "owed is served".
3. Promo limits and the server's half of the cart; `Shipping`: booking,
   re-booking, Biteship's webhook.
4. `ExamCheckIn`: schedule window, device lock and TTL; `Workers`: jobs and
   announcements, claims and crashes; the server's half of sign-in (OTP, refresh,
   revocation).
5. Pure functions: grading formats, result gate, ranking, shipment status map.
