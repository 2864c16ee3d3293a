------------------------------- MODULE ExamPage -------------------------------
(***************************************************************************)
(* The browser page on which a student sits an exam, and the session row   *)
(* it saves to.                                                            *)
(*                                                                         *)
(* Every edit goes to React state and to a queue in localStorage.  A       *)
(* debounce timer, a retry timer, the "online" event and an interval turn  *)
(* them into PATCH requests, which one promise chain sends one at a time.  *)
(* Flows drain the queue and then close something: one for each press of   *)
(* Submit, and the recovery that starts when the countdown ends ("expiry").*)
(* A flow is an async function: between two of its awaits the student, the *)
(* timers and the other flows go on.  One step here is what runs between   *)
(* two awaits, or one event.                                               *)
(*                                                                         *)
(* An answer is named by the number of the edit that gave it, so a greater *)
(* answer is a newer one and 0 is none; the queue's revisions order        *)
(* entries in the same way.  Clearing an answer and toggling a flag are    *)
(* edits like any other.  A section is a number: 0 in a standard exam,     *)
(* beyond NumSections when the last one is closed.                         *)
(*                                                                         *)
(* A definition named X_Slip, before X, is X with a plausible bug: nothing *)
(* uses it, and each property fails when one of them takes X's place.      *)
(***************************************************************************)
EXTENDS Naturals, Sequences

CONSTANTS
    Questions,        \* the exam's questions
    SectionOf,        \* the section of each, in a sectioned exam
    NumSections,      \* sections of a sectioned exam
    Positions,        \* the question indices the student can be at
    Presses,          \* bound: presses of Submit that can be under way at once
    StorageTakes,     \* what localStorage.setItem may do: TRUE, or FALSE when full
    EditBound,        \* bound: edits of one student
    VisitBound,       \* bound: times the page is opened
    SavesBound        \* bound: saves in the chain; a flow may add one more

ASSUME PageConstants ==
    /\ NumSections \in Nat
    /\ SectionOf \in [Questions -> 1..NumSections]
    /\ Positions \subseteq Nat \ {0} /\ 1 \in Positions
    /\ Presses \cap {"auto", "reconcile", "flush", "orphan", "expiry"} = {}
    /\ StorageTakes \subseteq BOOLEAN
    /\ EditBound \in Nat /\ VisitBound \in Nat /\ SavesBound \in Nat

VARIABLES
    server,      \* the session's row, sections and answers
    queue,       \* localStorage: the newest unacknowledged edit of each question
    cache,       \* React Query's copy of the session, what the page renders
    fetch,       \* the first GET of the session: what the server read for it
    screen,      \* "away", "loading", "exam" or "result"
    answers,     \* what the page shows
    pos,         \* currentQIndex
    savedPos,    \* lastSavedPositionRef
    chain,       \* saves issued and not settled; the first is on the network
    timers,      \* which of the debounce and retry timers are set
    volatile,    \* volatileUnsavedRef: localStorage refused an edit
    status,      \* the save indicator
    submitting,  \* submittingRef and the submitting state
    stage,       \* how far the flow of each press and the recovery are
    target,      \* the section the expiry flow closes
    expired,     \* the countdown is at zero
    fired,       \* autoSubmittedRef or autoAdvanceRef: recovery was started
    failed,      \* expiryRecoveryFailed: the Retry card is shown
    edits,       \* edits so far (answerEditSeqRef)
    visits,      \* times the page was opened
    typed,       \* history: the newest edit of each question localStorage took
    best,        \* history: the newest answer the server ever stored
    pressed      \* history: what the page showed when Submit was pressed

sessionVars == <<cache, fetch>>
viewVars    == <<screen, answers, pos>>
flowVars    == <<submitting, stage, target, pressed>>
clockVars   == <<expired, fired, failed>>
history     == <<edits, visits, typed, best>>
vars == <<server, queue, sessionVars, viewVars, savedPos, chain, timers,
          volatile, status, flowVars, clockVars, history>>

-----------------------------------------------------------------------------
(* Types and helpers *)

Edits   == 0..EditBound
Answers == [Questions -> Edits]
None    == [q \in Questions |-> 0]
Closed  == NumSections + 1

Snapshot == [status : {"none", "in_progress", "submitted"}, section : 0..Closed,
             answers : Answers, pos : Positions]
NoSnapshot == [status |-> "none", section |-> 0, answers |-> None, pos |-> 1]

Flows == Presses \cup {"expiry"}
Save  == [from : {"auto", "reconcile", "flush", "orphan"} \cup Flows, load : Answers,
          acks : Answers, at : Positions, moves : BOOLEAN, edit : Edits,
          newest : BOOLEAN, snap : BOOLEAN]

TypeOK ==
    /\ server \in Snapshot /\ cache \in Snapshot /\ fetch \in Snapshot
    /\ queue \in Answers /\ answers \in Answers
    /\ volatile \in BOOLEAN /\ submitting \in BOOLEAN
    /\ screen \in {"away", "loading", "exam", "result"}
    /\ pos \in Positions /\ savedPos \in Positions
    /\ chain \in Seq(Save)
    /\ timers \subseteq {"debounce", "retry"}
    /\ status \in {"saved", "saving", "unsaved"}
    /\ stage \in [Flows -> {"idle", "draining", "flushing", "advancing", "posting"}]
    /\ target \in 0..Closed
    /\ expired \in BOOLEAN /\ fired \in BOOLEAN /\ failed \in BOOLEAN
    /\ edits \in Edits /\ visits \in 0..VisitBound
    /\ typed \in Answers /\ best \in Answers /\ pressed \in [Presses -> Answers]

Newer(a, b) == IF a >= b THEN a ELSE b

\* activeQuestionIdsRef: the active section's questions, or all of them.
Scope(section) ==
    {q \in Questions : section \in 1..NumSections => SectionOf[q] = section}

InScope(f) == [q \in Questions |-> IF q \in Scope(cache.section) THEN f[q] ELSE 0]

Holds(qu) == \E q \in Questions : InScope(qu)[q] > 0

\* A save is due: queued edits, a new position, or edits only memory has.
Dirty(qu, saved, vol) == Holds(qu) \/ pos # saved \/ vol

\* The request a save sends: the queue's entries, or everything shown when
\* localStorage has let an edit down.
SaveOf(from, qu, saved, vol) ==
    [from |-> from, load |-> InScope(IF vol THEN answers ELSE qu), acks |-> InScope(qu),
     at |-> pos, moves |-> pos # saved, edit |-> edits, newest |-> from = "auto", snap |-> vol]

\* A save of everything shown, acknowledging nothing.
FullSave(from, shown, at) ==
    [from |-> from, load |-> shown, acks |-> None, at |-> at, moves |-> TRUE,
     edit |-> edits, newest |-> FALSE, snap |-> FALSE]

\* saveSeqRef moves on: no save issued before is the newest any more.
Superseded(saves) == [i \in DOMAIN saves |-> [saves[i] EXCEPT !.newest = FALSE]]

Room == Len(chain) < SavesBound
FlowRoom == Len(chain) <= SavesBound

\* AckedQueue, forgetting to compare revisions.
AckedQueue_ByQuestion(s) == [q \in Questions |-> IF s.acks[q] > 0 THEN 0 ELSE queue[q]]

\* acknowledgeQueueRevisions: an entry goes only if no newer edit replaced it.
AckedQueue(s) == [q \in Questions |-> IF s.acks[q] = queue[q] THEN 0 ELSE queue[q]]

-----------------------------------------------------------------------------
(* Saving *)

\* attemptSave, with what it is given to send.
AttemptSave(qu) ==
    \/ submitting /\ UNCHANGED <<chain, status>>
    \/ /\ ~submitting /\ ~Dirty(qu, savedPos, volatile)
       /\ status' = "saved"
       /\ UNCHANGED chain
    \/ /\ ~submitting /\ Dirty(qu, savedPos, volatile)
       /\ status' = "saving"
       /\ chain' = Append(Superseded(chain), SaveOf("auto", qu, savedPos, volatile))

\* Edit, were the inputs not disabled at the end of the countdown.
Edit_Expired(q) ==
    /\ screen = "exam" /\ q \in Scope(cache.section) /\ edits < EditBound
    /\ edits' = edits + 1 /\ answers' = [answers EXCEPT ![q] = edits']
    /\ queue' = [queue EXCEPT ![q] = edits'] /\ typed' = [typed EXCEPT ![q] = edits']
    /\ status' = "unsaved" /\ timers' = timers \cup {"debounce"}
    /\ UNCHANGED <<server, sessionVars, screen, pos, savedPos, chain, volatile, flowVars,
                   clockVars, visits, best>>

\* setAnswer (and toggleFlag): the page, the queue, the debounce timer.
Edit(q) ==
    /\ screen = "exam" /\ ~expired /\ q \in Scope(cache.section)
    /\ edits < EditBound
    /\ edits' = edits + 1
    /\ answers' = [answers EXCEPT ![q] = edits']
    /\ \E taken \in StorageTakes :
          /\ queue' = IF taken THEN [queue EXCEPT ![q] = edits'] ELSE queue
          /\ typed' = IF taken THEN [typed EXCEPT ![q] = edits'] ELSE typed
          /\ volatile' = (volatile \/ ~taken)
    /\ status' = "unsaved" /\ timers' = timers \cup {"debounce"}
    /\ UNCHANGED <<server, sessionVars, screen, pos, savedPos, chain, flowVars,
                   clockVars, visits, best>>

\* GoTo, the index off by one.
GoTo_Before(p) ==
    /\ screen = "exam" /\ pos' = p - 1
    /\ UNCHANGED <<server, queue, sessionVars, screen, answers, savedPos, chain, timers, status,
                   volatile, flowVars, clockVars, history>>

\* goToQuestion: the position rides the same pipeline.
GoTo(p) ==
    /\ screen = "exam"
    /\ pos' = p
    /\ status' = "unsaved" /\ timers' = timers \cup {"debounce"}
    /\ UNCHANGED <<server, queue, sessionVars, screen, answers, savedPos, chain,
                   volatile, flowVars, clockVars, history>>

\* flushDebouncedSave: the debounce window is over.
Flush ==
    /\ "debounce" \in timers /\ Room
    /\ timers' = {}
    /\ AttemptSave(queue)
    /\ UNCHANGED <<server, queue, sessionVars, viewVars, savedPos, volatile,
                   flowVars, clockVars, history>>

\* The retry timer of a failed save fires.
Retry ==
    /\ "retry" \in timers /\ Room
    /\ timers' = timers \ {"retry"}
    /\ AttemptSave(queue)
    /\ UNCHANGED <<server, queue, sessionVars, viewVars, savedPos, volatile,
                   flowVars, clockVars, history>>

\* The "online" event: replay what is queued.
Online ==
    /\ screen \in {"loading", "exam"} /\ Holds(queue) /\ Room
    /\ timers' = timers \ {"retry"}
    /\ AttemptSave(queue)
    /\ UNCHANGED <<server, queue, sessionVars, viewVars, savedPos, volatile,
                   flowVars, clockVars, history>>

\* Reconcile, sending what is queued only.
Reconcile_Queued ==
    /\ screen = "exam" /\ cache.status = "in_progress" /\ Room
    /\ chain' = Append(chain, FullSave("reconcile", InScope(queue), pos))
    /\ status' = "saving"
    /\ UNCHANGED <<server, queue, sessionVars, viewVars, savedPos, timers,
                   volatile, flowVars, clockVars, history>>

\* reconcileFullSnapshot, every five minutes.
Reconcile ==
    /\ screen = "exam" /\ cache.status = "in_progress" /\ Room
    /\ chain' = Append(chain, FullSave("reconcile", InScope(answers), pos))
    /\ status' = "saving"
    /\ UNCHANGED <<server, queue, sessionVars, viewVars, savedPos, timers,
                   volatile, flowVars, clockVars, history>>

-----------------------------------------------------------------------------
(* What comes of a save *)

Accepts(s) ==
    /\ server.status = "in_progress"
    /\ server.section > 0 =>
         \A q \in Questions : s.load[q] > 0 => SectionOf[q] = server.section

Stored(s) ==
    [server EXCEPT !.answers = [q \in Questions |-> IF s.load[q] > 0 THEN s.load[q] ELSE @[q]],
                   !.pos = IF s.moves THEN s.at ELSE @]

\* The queue and the flag after a save was acknowledged.
VolatileAfter(s) == volatile /\ ~(s.snap /\ s.edit = edits)

IssueOnly(saves) == chain' = Tail(chain) \o saves

\* A flow goes on, or ends and forgets what it had read.
Moves(f, next) == stage' = [stage EXCEPT ![f] = next] /\ UNCHANGED <<target, pressed>>
Idle(f) ==
    /\ stage' = [stage EXCEPT ![f] = "idle"]
    /\ target' = IF f = "expiry" THEN 0 ELSE target
    /\ pressed' = [p \in Presses |-> IF p = f THEN None ELSE pressed[p]]

ToResult(f) == Idle(f) /\ screen' = "result" /\ queue' = None

\* The barrier has nothing left to save.  Without an active section the
\* recovery returns here and leaves the page locked.
AfterDrain(f, section) ==
    IF f \in Presses THEN "posting" ELSE IF section \in 1..NumSections THEN "advancing" ELSE "idle"

\* AutoAcked, painting "saved" whatever came after the save.
AutoAcked_Early(s) ==
    /\ IssueOnly(<<>>)
    /\ queue' = AckedQueue(s) /\ volatile' = VolatileAfter(s)
    /\ savedPos' = s.at /\ status' = "saved"
    /\ UNCHANGED <<screen, timers, flowVars, failed>>

\* attemptSave's own callback.
AutoAcked(s) ==
    /\ IssueOnly(<<>>)
    /\ queue' = AckedQueue(s) /\ volatile' = VolatileAfter(s)
    /\ IF /\ ~Holds(AckedQueue(s)) /\ ~VolatileAfter(s)
          /\ s.newest /\ s.edit = edits
       THEN savedPos' = s.at /\ status' = "saved"
       ELSE UNCHANGED <<savedPos, status>>
    /\ UNCHANGED <<screen, timers, flowVars, failed>>

AutoFailed(s) ==
    /\ IssueOnly(<<>>)
    /\ IF submitting \/ ~s.newest
       THEN UNCHANGED <<timers, status>>
       ELSE timers' = timers \cup {"retry"} /\ status' = "unsaved"
    /\ UNCHANGED <<queue, volatile, savedPos, screen, flowVars, failed>>

\* reconcileFullSnapshot: it clears no entry, and takes the position the
\* student is at by now for the one it sent.
ReconcileAcked(s) ==
    /\ IssueOnly(<<>>)
    /\ savedPos' = pos
    /\ status' = IF Holds(queue) THEN "unsaved" ELSE "saved"
    /\ UNCHANGED <<queue, volatile, screen, timers, flowVars, failed>>

ReconcileFailed(s) ==
    /\ IssueOnly(<<>>) /\ status' = "unsaved"
    /\ UNCHANGED <<queue, volatile, savedPos, screen, timers, flowVars, failed>>

\* runSaveBarrier goes round until nothing is left.
BarrierAcked(s) ==
    /\ queue' = AckedQueue(s) /\ volatile' = VolatileAfter(s)
    /\ savedPos' = s.at
    /\ IF Holds(AckedQueue(s)) \/ VolatileAfter(s)
       THEN /\ IssueOnly(<<SaveOf(s.from, AckedQueue(s), s.at, VolatileAfter(s))>>)
            /\ UNCHANGED <<status, stage, target, pressed>>
       ELSE IssueOnly(<<>>) /\ status' = "saved" /\ Moves(s.from, AfterDrain(s.from, target))
    /\ UNCHANGED <<screen, timers, submitting, failed>>

\* Submit gives up; the recovery shows the Retry card, or the result when the
\* session turns out to be submitted.
FlowFails(f, already) ==
    \/ /\ f = "expiry" /\ already
       /\ ToResult(f)
       /\ UNCHANGED <<submitting, failed>>
    \/ /\ ~(f = "expiry" /\ already)
       /\ Idle(f) /\ submitting' = FALSE
       /\ failed' = (failed \/ f = "expiry")
       /\ UNCHANGED <<queue, screen>>

BarrierFailed(s) ==
    /\ IssueOnly(<<>>) /\ status' = "unsaved"
    /\ FlowFails(s.from, server.status = "submitted")
    /\ UNCHANGED <<volatile, savedPos, timers>>

\* The full save of a standard exam's recovery: acknowledged, the queue goes;
\* given up on, the session is submitted all the same.
FlushAcked(s) ==
    /\ IssueOnly(<<>>) /\ queue' = None /\ Moves("expiry", "posting")
    /\ UNCHANGED <<volatile, savedPos, screen, timers, status, submitting, failed>>

FlushFailed(s) ==
    \/ /\ server.status = "submitted"
       /\ IssueOnly(<<>>) /\ ToResult("expiry")
       /\ UNCHANGED <<volatile, savedPos, timers, status, submitting, failed>>
    \/ /\ server.status # "submitted"
       /\ \/ IssueOnly(<<s>>) /\ UNCHANGED <<stage, target, pressed>>
          \/ IssueOnly(<<>>) /\ Moves("expiry", "posting")
       /\ UNCHANGED <<queue, volatile, savedPos, screen, timers, status, submitting, failed>>

Settles(s, ok) ==
    \/ /\ s.from = "auto"
       /\ IF ok THEN AutoAcked(s) ELSE AutoFailed(s)
    \/ /\ s.from = "reconcile"
       /\ IF ok THEN ReconcileAcked(s) ELSE ReconcileFailed(s)
    \/ /\ s.from \in Flows
       /\ IF ok THEN BarrierAcked(s) ELSE BarrierFailed(s)
    \/ /\ s.from = "flush"
       /\ IF ok THEN FlushAcked(s) ELSE FlushFailed(s)
    \/ /\ s.from = "orphan"
       /\ IssueOnly(<<>>)
       /\ UNCHANGED <<queue, volatile, savedPos, screen, timers, status,
                      flowVars, failed>>

StoreHead ==
    /\ Accepts(Head(chain))
    /\ server' = Stored(Head(chain))
    /\ best' = [q \in Questions |-> Newer(best[q], server'.answers[q])]

settled == <<sessionVars, answers, pos, expired, fired, edits, visits, typed>>

\* The first save of the chain is answered: the server took it ...
Acked ==
    /\ chain # <<>> /\ StoreHead
    /\ Settles(Head(chain), TRUE)
    /\ UNCHANGED settled

\* ... or refuses it, the session or a section being closed ...
Refused ==
    /\ chain # <<>> /\ ~Accepts(Head(chain))
    /\ Settles(Head(chain), FALSE)
    /\ UNCHANGED <<settled, server, best>>

\* ... or the request, or only its answer, is lost.
Dropped ==
    /\ chain # <<>>
    /\ StoreHead \/ UNCHANGED <<server, best>>
    /\ server.status = "in_progress"
    /\ Settles(Head(chain), FALSE)
    /\ UNCHANGED settled

\* beforeDeadline: the flow stops waiting, its save stays in the chain.
BarrierTimesOut(f) ==
    /\ stage[f] = "draining"
    /\ chain' = [i \in DOMAIN chain |->
                   IF chain[i].from = f THEN [chain[i] EXCEPT !.from = "orphan"] ELSE chain[i]]
    /\ status' = "unsaved"
    /\ FlowFails(f, FALSE)
    /\ UNCHANGED <<server, sessionVars, answers, pos, savedPos, timers, volatile,
                   expired, fired, history>>

-----------------------------------------------------------------------------
(* Submitting, and what happens when the countdown ends *)

\* StartBarrier, not waiting for the queue to drain.
StartBarrier_NoWait(f, section) ==
    /\ target' = section
    /\ stage' = [stage EXCEPT ![f] = AfterDrain(f, section)]
    /\ UNCHANGED <<status, chain>>

\* runSaveBarrier from its first line to its first await.
StartBarrier(f, section) ==
    /\ target' = section
    /\ IF Dirty(queue, savedPos, volatile)
       THEN /\ chain' = Append(chain, SaveOf(f, queue, savedPos, volatile))
            /\ stage' = [stage EXCEPT ![f] = "draining"] /\ status' = "saving"
       ELSE /\ stage' = [stage EXCEPT ![f] = AfterDrain(f, section)]
            /\ status' = "saved" /\ UNCHANGED chain

\* handleSubmit.  The dialog that was opened before the countdown ended still
\* takes the press after it, and a recovery that ends, in whatever way, lets
\* another press start before this one is answered.
PressSubmit(p) ==
    /\ screen = "exam" /\ ~submitting /\ stage[p] = "idle" /\ FlowRoom
    /\ submitting' = TRUE /\ timers' = {}
    /\ pressed' = [pressed EXCEPT ![p] = IF cache.section = Closed THEN None ELSE InScope(answers)]
    /\ StartBarrier(p, target)
    /\ UNCHANGED <<server, queue, sessionVars, viewVars, savedPos, volatile, clockVars, history>>

\* The countdown of the exam or of the active section reaches zero.
Timed == screen = "exam" /\ cache.status = "in_progress" /\ cache.section # Closed

Tick ==
    /\ Timed /\ ~expired
    /\ expired' = TRUE
    /\ UNCHANGED <<server, queue, sessionVars, viewVars, savedPos, chain, timers, volatile,
                   status, flowVars, fired, failed, history>>

\* runExpiryRecovery up to its first await.
RunRecovery ==
    /\ FlowRoom
    /\ failed' = FALSE /\ submitting' = TRUE /\ timers' = {}
    /\ IF cache.section = 0
       THEN /\ chain' = Append(chain, FullSave("flush", InScope(answers), pos))
            /\ Moves("expiry", "flushing") /\ UNCHANGED status
       ELSE StartBarrier("expiry", cache.section) /\ UNCHANGED pressed
    /\ UNCHANGED <<server, queue, sessionVars, viewVars, savedPos, volatile, expired, history>>

\* The effect on the countdown.  Bound: a section outlasts the recovery of the
\* section before it.
ExpiryStarts ==
    /\ Timed /\ expired /\ ~fired /\ stage["expiry"] = "idle"
    /\ fired' = TRUE
    /\ RunRecovery

\* The Retry card.
RetryRecovery ==
    /\ screen = "exam" /\ failed /\ stage["expiry"] = "idle"
    /\ UNCHANGED fired
    /\ RunRecovery

posted == <<chain, answers, pos, savedPos, volatile, timers, status, expired,
            fired, history>>

\* POST /submit, for either flow.
SubmitPosted(f) ==
    /\ stage[f] = "posting" /\ server.status = "in_progress"
    /\ server' = [server EXCEPT !.status = "submitted"]
    /\ Idle(f) /\ screen' = "result"
    /\ submitting' = (submitting /\ f = "expiry")
    /\ queue' = IF f = "expiry" THEN None ELSE queue
    /\ UNCHANGED <<sessionVars, posted, failed>>

SubmitFails(f) ==
    /\ stage[f] = "posting"
    /\ \/ server.status = "submitted" /\ FlowFails(f, TRUE) /\ UNCHANGED server
       \/ /\ server.status = "in_progress"
          /\ server' \in {server, [server EXCEPT !.status = "submitted"]}
          /\ \/ FlowFails(f, FALSE)
             \/ f = "expiry" /\ UNCHANGED <<queue, screen, flowVars, failed>>
    /\ UNCHANGED <<sessionVars, posted>>

\* POST /sections/{id}/advance, which leaves a closed section closed.
Advanced(section) ==
    IF server.section = section THEN [server EXCEPT !.section = @ + 1] ELSE server

AdvancePosted ==
    /\ stage["expiry"] = "advancing" /\ server.status = "in_progress"
    /\ server' = Advanced(target)
    /\ IF server'.section = Closed
       THEN Moves("expiry", "posting") /\ UNCHANGED submitting
       ELSE Idle("expiry") /\ submitting' = FALSE
    /\ UNCHANGED <<sessionVars, posted, queue, screen, failed>>

AdvanceFails ==
    /\ stage["expiry"] = "advancing"
    /\ \/ /\ server.status = "submitted" /\ UNCHANGED server
          /\ FlowFails("expiry", TRUE)
       \/ /\ server.status = "in_progress"
          /\ server' \in {server, Advanced(target)}
          /\ \/ FlowFails("expiry", FALSE)
             \/ UNCHANGED <<queue, screen, flowVars, failed>>
    /\ UNCHANGED <<sessionVars, posted>>

-----------------------------------------------------------------------------
(* The session as the server gives it *)

\* The expiry sweep, or an administrator, closes the session or its section.
ServerCloses ==
    /\ server.status = "in_progress"
    /\ server' = IF server.section \in {0, Closed} THEN [server EXCEPT !.status = "submitted"]
                 ELSE [server EXCEPT !.section = @ + 1,
                        !.status = IF server.section = NumSections THEN "submitted" ELSE @]
    /\ UNCHANGED <<queue, sessionVars, viewVars, savedPos, chain, timers, volatile, status,
                   flowVars, clockVars, history>>

\* The hydration effect and, for an open session, the first reconcile.
Shown(snap) == [q \in Questions |-> IF queue[q] > 0 THEN queue[q] ELSE snap.answers[q]]

ScopedTo(section, f) == [q \in Questions |-> IF q \in Scope(section) THEN f[q] ELSE 0]

Hydrate(snap, before, after) ==
    /\ cache' = snap
    /\ answers' = Shown(snap) /\ pos' = snap.pos /\ savedPos' = snap.pos
    /\ IF snap.status = "in_progress"
       THEN /\ screen' = "exam" /\ status' = "saving"
            /\ chain' = before \o <<FullSave("reconcile", ScopedTo(snap.section, Shown(snap)),
                                             snap.pos)>> \o after
       ELSE screen' = "result" /\ chain' = before /\ status' = "saved"

FetchReads ==
    /\ screen = "loading"
    /\ fetch' = server
    /\ UNCHANGED <<server, queue, cache, viewVars, savedPos, chain, timers, volatile, status,
                   flowVars, clockVars, history>>

FetchArrives ==
    /\ screen = "loading" /\ fetch # NoSnapshot
    /\ fetch' = NoSnapshot
    /\ Hydrate(fetch, chain, <<>>)
    /\ UNCHANGED <<server, queue, timers, volatile, flowVars, clockVars, history>>

\* A later GET (the copy is old, the network is back, a mutation invalidated
\* it) is only rendered; a new active section starts at its first question with
\* its own countdown.
Refetch ==
    /\ screen = "exam"
    /\ cache' = server
    /\ IF server.section # cache.section
       THEN pos' = 1 /\ savedPos' = 1 /\ expired' = FALSE /\ fired' = FALSE
       ELSE UNCHANGED <<pos, savedPos, expired, fired>>
    /\ UNCHANGED <<server, queue, fetch, screen, answers, chain, timers, volatile, status,
                   flowVars, failed, history>>

\* The replay effect, on opening the page.
Replay(section, at) ==
    IF \A q \in Scope(section) : queue[q] = 0 THEN <<>>
    ELSE <<[from |-> "auto", load |-> ScopedTo(section, queue), acks |-> ScopedTo(section, queue),
            at |-> at, moves |-> FALSE, edit |-> edits, newest |-> TRUE, snap |-> FALSE]>>

\* The page is opened.  A copy of the session React Query still holds renders,
\* hydrates and is reconciled at once, before any refetch;
\* without one the queue is replayed while the session loads.
Enter ==
    /\ screen = "away" /\ visits < VisitBound
    /\ visits' = visits + 1
    /\ \/ /\ cache # NoSnapshot
          /\ Hydrate(cache, <<>>, Replay(cache.section, cache.pos))
       \/ /\ cache' = NoSnapshot
          /\ screen' = "loading" /\ answers' = None /\ pos' = 1 /\ savedPos' = 1
          /\ chain' = Replay(0, 1)
          /\ status' = IF chain' = <<>> THEN "saved" ELSE "saving"
    /\ UNCHANGED <<server, queue, fetch, timers, volatile, flowVars, clockVars, edits, typed, best>>

Unmounted ==
    /\ screen' = "away" /\ fetch' = NoSnapshot
    /\ answers' = None /\ pos' = 1 /\ savedPos' = 1 /\ status' = "saved"
    /\ chain' = <<>> /\ timers' = {} /\ volatile' = FALSE
    /\ submitting' = FALSE /\ stage' = [f \in Flows |-> "idle"] /\ target' = 0
    /\ pressed' = [p \in Presses |-> None]
    /\ expired' = FALSE /\ fired' = FALSE /\ failed' = FALSE
    /\ UNCHANGED <<queue, edits, visits, typed>>

\* The page is left.  Bound: not while a save is on its way (see Reload).
Leave ==
    /\ screen # "away" /\ chain = <<>> /\ \A f \in Flows : stage[f] = "idle"
    /\ Unmounted
    /\ UNCHANGED <<server, cache, best>>

\* The tab is reloaded or dies: only localStorage and the server remember, and
\* the request on the network may still be served.
Reload ==
    /\ screen \in {"loading", "exam"}
    /\ \/ chain # <<>> /\ StoreHead
       \/ UNCHANGED <<server, best>>
    /\ Unmounted /\ cache' = NoSnapshot

-----------------------------------------------------------------------------
(* Specification *)

Init ==
    /\ server \in {[status |-> "in_progress", section |-> s, answers |-> None, pos |-> 1] :
                     s \in {0, 1} \cap 0..NumSections}
    /\ queue = None /\ cache = NoSnapshot /\ fetch = NoSnapshot
    /\ screen = "away" /\ answers = None /\ pos = 1 /\ savedPos = 1
    /\ chain = <<>> /\ timers = {} /\ volatile = FALSE /\ status = "saved"
    /\ submitting = FALSE /\ stage = [f \in Flows |-> "idle"] /\ target = 0
    /\ expired = FALSE /\ fired = FALSE /\ failed = FALSE
    /\ edits = 0 /\ visits = 0 /\ typed = None /\ best = None
    /\ pressed = [p \in Presses |-> None]

Student ==
    \/ \E q \in Questions : Edit(q)
    \/ \E p \in Positions : GoTo(p)
    \/ \E p \in Presses : PressSubmit(p)
Timers  == Flush \/ Retry \/ Online \/ Reconcile \/ Tick \/ ExpiryStarts \/ RetryRecovery
Network ==
    \/ Acked \/ Refused \/ Dropped \/ FetchReads \/ FetchArrives \/ Refetch
    \/ AdvancePosted \/ AdvanceFails
    \/ \E f \in Flows : BarrierTimesOut(f) \/ SubmitPosted(f) \/ SubmitFails(f)
Visits  == Enter \/ Leave \/ Reload

Next == Student \/ Timers \/ Network \/ Visits \/ ServerCloses

\* The interval keeps saving (strongly: SavesBound may hold it up now and then),
\* a save is answered or lost, and the network does not lose saves for ever.
Fairness ==
    /\ SF_vars(Reconcile)
    /\ WF_vars(Acked \/ Refused \/ Dropped)
    /\ SF_vars(Acked)

Spec == Init /\ [][Next]_vars
FairSpec == Spec /\ Fairness

-----------------------------------------------------------------------------
(* Properties *)

\* What the student typed is on the server, or still in the queue, or the
\* session is over.
NothingForgotten ==
    \A q \in Questions :
        typed[q] > best[q] => queue[q] = typed[q] \/ server.status = "submitted"

\* While the page says "saved", no answer it shows is newer than the server's.
SavedMeansStored ==
    screen = "exam" /\ status = "saved" /\ ~volatile /\ cache.section # Closed =>
        \A q \in Scope(cache.section) : answers[q] <= best[q]

\* What was on the page when Submit was pressed is stored before that submit
\* takes effect.
SubmittedAsPressed ==
    [][\A p \in Presses :
         stage[p] = "posting" /\ stage'[p] # "posting"
           /\ server.status = "in_progress" /\ server'.status = "submitted"
         => \A q \in Questions : pressed[p][q] <= best[q]]_vars

\* The page closes a section only with everything it shows of it stored.
ClosedSectionIsComplete ==
    [][stage["expiry"] = "advancing" /\ server.status = "in_progress"
         /\ server'.section # server.section /\ server.section = target
         /\ (AdvancePosted \/ AdvanceFails)
         /\ fired
         => \A q \in Scope(target) : answers[q] <= best[q]]_vars

\* An answer on the server is never replaced by an older one.
NewestAnswerWins == \A q \in Questions : server.answers[q] = best[q]

\* An answer the open page shows reaches the server, unless the session or the
\* section is closed first or the page is left.
ShownIsStored ==
    \A q \in Questions :
        (screen = "exam" /\ q \in Scope(cache.section) /\ answers[q] > best[q])
          ~> \/ answers[q] <= best[q] \/ screen # "exam" \/ server.status = "submitted"
             \/ server.section # cache.section \/ server.section = Closed

=============================================================================
