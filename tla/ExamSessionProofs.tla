-------------------------- MODULE ExamSessionProofs --------------------------
(***************************************************************************)
(* Theorems about ExamSession for every value of its constants.            *)
(***************************************************************************)
EXTENDS ExamSession, FiniteSetTheorems, TLAPS

\* The clamped total of any marks is a natural number.
LEMMA TotalType ==
    ASSUME NEW marks \in [Questions -> Marks]
    PROVE  Total(marks) \in Nat
<1> DEFINE right == {qn \in Questions : marks[qn] = "right"}
           wrong == {qn \in Questions : marks[qn] = "wrong"}
<1>1. IsFiniteSet(right) /\ IsFiniteSet(wrong)
  BY FS_Subset, ConstantsOK DEF ConstantsOK
<1>2. Cardinality(right) \in Nat /\ Cardinality(wrong) \in Nat
  BY <1>1, FS_CardinalityType
<1> HIDE DEF right, wrong
<1>3. (IF Cardinality(right) > Cardinality(wrong)
         THEN Cardinality(right) - Cardinality(wrong) ELSE 0) \in Nat
  BY <1>2
<1>4. QED
  BY <1>3 DEF Total, right, wrong

\* Grading gives every question a mark.
LEMMA GradeType ==
    ASSUME NEW qn, NEW ans
    PROVE  GradeOf(qn, ans) \in Marks
BY DEF GradeOf, Marks

\* Finalizing a session keeps the types of everything it writes.
LEMMA FinalizeType ==
    ASSUME TypeOK, NEW s \in Sids, Finalize(s)
    PROVE  /\ regStatus' \in [Regs -> {"registered", "checked_in", "in_progress", "submitted"}]
           /\ checkedIn' \in [Regs -> BOOLEAN]
           /\ attemptsUsed' \in [Regs -> Nat]
           /\ status' \in [Sids -> {"none", "in_progress", "submitted"}]
           /\ startedAt' \in [Sids -> Nat]
           /\ extendedUntil' \in [Sids -> Nat]
           /\ score' \in [Sids -> Nat \cup {NoScore}]
           /\ certEvents' \in [Sids -> Nat]
           /\ answer' \in [Sids -> [Questions -> Values \cup {NoAnswer}]]
           /\ mark' \in [Sids -> [Questions -> Marks]]
<1> DEFINE graded == [qn \in Questions |-> GradeOf(qn, answer[s][qn])]
<1>1. graded \in [Questions -> Marks]
  BY GradeType
<1>2. Total(graded) \in Nat
  BY <1>1, TotalType
<1> HIDE DEF graded
<1>3. /\ mark' = [mark EXCEPT ![s] = graded]
      /\ score' = [score EXCEPT ![s] = Total(graded)]
      /\ status' = [status EXCEPT ![s] = "submitted"]
      /\ regStatus' = [regStatus EXCEPT ![s[1]] = "submitted"]
      /\ certEvents' = [certEvents EXCEPT ![s] = @ + 1]
      /\ UNCHANGED <<checkedIn, attemptsUsed, startedAt, extendedUntil, answer>>
  BY DEF Finalize, graded
<1>4. mark' \in [Sids -> [Questions -> Marks]]
  BY <1>1, <1>3 DEF TypeOK
<1>5. score' \in [Sids -> Nat \cup {NoScore}]
  BY <1>2, <1>3 DEF TypeOK
<1>6. status' \in [Sids -> {"none", "in_progress", "submitted"}]
  BY <1>3 DEF TypeOK
<1>7. regStatus' \in [Regs -> {"registered", "checked_in", "in_progress", "submitted"}]
  BY <1>3 DEF TypeOK
<1>8. certEvents' \in [Sids -> Nat]
  BY <1>3 DEF TypeOK
<1>9. QED
  BY <1>3, <1>4, <1>5, <1>6, <1>7, <1>8 DEF TypeOK

\* A row of rows stays one when an entry is written, in or out of range.
LEMMA NestedExcept ==
    ASSUME NEW D, NEW E, NEW R, NEW f \in [D -> [E -> R]], NEW x \in D, NEW e, NEW v \in R
    PROVE  [f EXCEPT ![x][e] = v] \in [D -> [E -> R]]
<1>1. [f[x] EXCEPT ![e] = v] \in [E -> R]
  OBVIOUS
<1>2. QED
  BY <1>1

\* Advancing a section keeps the types of the section rows.
LEMMA AdvanceType ==
    ASSUME TypeOK, NEW s \in Sids, NEW sec \in Sections, AdvanceSection(s, sec)
    PROVE  /\ secStatus' \in [Sids -> [Sections -> {"pending", "active", "submitted"}]]
           /\ secStart' \in [Sids -> [Sections -> Nat]]
           /\ secExtended' \in [Sids -> [Sections -> Nat]]
<1>1. CASE Pending(s) = {}
  <2>1. /\ secStatus' = [secStatus EXCEPT ![s][sec] = "submitted"]
        /\ UNCHANGED <<secStart, secExtended>>
    BY <1>1 DEF AdvanceSection
  <2>2. QED
    BY <2>1, NestedExcept DEF TypeOK
<1>2. CASE Pending(s) # {}
  <2> DEFINE next == Lowest(Pending(s))
             States == {"pending", "active", "submitted"}
             closed == [secStatus EXCEPT ![s][sec] = "submitted"]
  <2>1. closed \in [Sids -> [Sections -> States]]
    BY NestedExcept DEF TypeOK
  <2>2. /\ secStatus' = [closed EXCEPT ![s][next] = "active"]
        /\ secStart' = [secStart EXCEPT ![s][next] = clock]
        /\ secExtended' = secExtended
    BY <1>2 DEF AdvanceSection
  <2> HIDE DEF next, closed
  <2>3. secStatus' \in [Sids -> [Sections -> States]]
    BY <2>1, <2>2, NestedExcept
  <2>4. secStart' \in [Sids -> [Sections -> Nat]]
    BY <2>2, NestedExcept DEF TypeOK
  <2>5. QED
    BY <2>2, <2>3, <2>4 DEF TypeOK
<1>3. QED
  BY <1>1, <1>2

\* What a request in flight carries, by the handler that serves it.
LEMMA RequestFields ==
    ASSUME TypeOK, NEW w \in Workers
    PROVE  /\ Asks(w, "start") => req[w].reg \in Regs
           /\ Asks(w, "save") => /\ req[w].sid \in Sids
                                 /\ req[w].qn \in Questions
                                 /\ req[w].val \in Values
           /\ Asks(w, "advance") => req[w].sid \in Sids /\ req[w].sec \in Sections
           /\ Asks(w, "submit") => req[w].sid \in Sids
<1>1. req[w] \in Request
  BY DEF TypeOK
<1>2. QED
  BY <1>1 DEF Request, Idle, Asks

\* Answering a request keeps the requests typed.
LEMMA ReplyType ==
    ASSUME TypeOK, NEW w \in Workers, Reply(w)
    PROVE  req' \in [Workers -> Request]
BY DEF TypeOK, Reply, Request

\* Accepting one does too.
LEMMA AcceptType ==
    ASSUME TypeOK, NEW w \in Workers, NEW new \in Request, req' = [req EXCEPT ![w] = new]
    PROVE  req' \in [Workers -> Request]
BY DEF TypeOK

\* A step that only moves requests, the sweep or the clock keeps the types.
LEMMA QuietType ==
    ASSUME TypeOK,
           UNCHANGED <<regVars, sessionVars, sectionVars, answerVars>>,
           clock' \in Nat,
           req' \in [Workers -> Request],
           sweep' \in [on : BOOLEAN, now : Nat, todo : SUBSET Candidates]
    PROVE  TypeOK'
BY DEF TypeOK, regVars, sessionVars, sectionVars, answerVars

\* A candidate taken off the list leaves the sweep typed.
LEMMA TakenType ==
    ASSUME TypeOK, NEW c \in Candidates, Taken(c)
    PROVE  sweep' \in [on : BOOLEAN, now : Nat, todo : SUBSET Candidates]
BY DEF TypeOK, Taken

\* Inserting a session keeps the types: the row it writes is one of Sids.
LEMMA CreateType ==
    ASSUME TypeOK, NEW w \in Workers, CreateSession(w)
    PROVE  TypeOK'
<1> DEFINE r == req[w].reg
           s == <<r, attemptsUsed[r] + 1>>
<1>1. r \in Regs
  BY RequestFields DEF CreateSession
<1> HIDE DEF r
<1>2. /\ attemptsUsed' = [attemptsUsed EXCEPT ![r] = @ + 1]
      /\ regStatus' = [regStatus EXCEPT ![r] = "in_progress"]
      /\ checkedIn' = [checkedIn EXCEPT ![r] = TRUE]
      /\ status' = [status EXCEPT ![s] = "in_progress"]
      /\ startedAt' = [startedAt EXCEPT ![s] = clock]
      /\ Reply(w)
      /\ UNCHANGED <<extendedUntil, score, certEvents, secExtended, answerVars, clock, sweep>>
  BY DEF CreateSession, r
<1>3. /\ attemptsUsed[r] < AttemptBound
      /\ attemptsUsed[r] \in Nat
  BY <1>1 DEF CreateSession, r, TypeOK
<1>4. s \in Sids
  BY <1>1, <1>3, ConstantsOK DEF ConstantsOK, Sids, Attempts
<1>5. /\ secStatus' \in [Sids -> [Sections -> {"pending", "active", "submitted"}]]
      /\ secStart' \in [Sids -> [Sections -> Nat]]
  <2>1. CASE Sectioned
    <3>1. /\ secStatus' = [secStatus EXCEPT ![s][1] = "active"]
          /\ secStart' = [secStart EXCEPT ![s][1] = clock]
      BY <2>1 DEF CreateSession, r
    <3>2. QED
      BY <1>4, <3>1, NestedExcept DEF TypeOK
  <2>2. CASE ~Sectioned
    BY <2>2 DEF CreateSession, TypeOK
  <2>3. QED
    BY <2>1, <2>2
<1>6. req' \in [Workers -> Request]
  BY <1>2, ReplyType
<1>7. /\ attemptsUsed' \in [Regs -> Nat]
      /\ regStatus' \in [Regs -> {"registered", "checked_in", "in_progress", "submitted"}]
      /\ checkedIn' \in [Regs -> BOOLEAN]
  BY <1>1, <1>2 DEF TypeOK
<1>8. /\ status' \in [Sids -> {"none", "in_progress", "submitted"}]
      /\ startedAt' \in [Sids -> Nat]
  BY <1>2, <1>4 DEF TypeOK
<1>9. QED
  BY <1>2, <1>5, <1>6, <1>7, <1>8 DEF TypeOK, answerVars

\* What a handler does keeps the types.
LEMMA HandleType ==
    ASSUME TypeOK, NEW w \in Workers, Handle(w)
    PROVE  TypeOK'
<1> USE DEF regVars, sessionVars, sectionVars, answerVars
<1>1. ASSUME NEW r \in Regs, BeginStart(w, r) PROVE TypeOK'
  <2>1. [op |-> "start", reg |-> r] \in Request
    BY DEF Request
  <2>2. req' \in [Workers -> Request]
    BY <1>1, <2>1, AcceptType DEF BeginStart
  <2>3. QED
    BY <1>1, <2>2, QuietType DEF BeginStart, TypeOK
<1>2. CASE CreateSession(w)
  BY <1>2, CreateType
<1>3. CASE RefuseStart(w)
  BY <1>3, ReplyType, QuietType DEF RefuseStart, TypeOK
<1>4. ASSUME NEW s \in Sids, NEW qn \in Questions, NEW v \in Values, BeginSave(w, s, qn, v)
      PROVE  TypeOK'
  <2>1. [op |-> "save", sid |-> s, qn |-> qn, val |-> v] \in Request
    BY DEF Request
  <2>2. req' \in [Workers -> Request]
    BY <1>4, <2>1, AcceptType DEF BeginSave
  <2>3. QED
    BY <1>4, <2>2, QuietType DEF BeginSave, TypeOK
<1>5. CASE CommitSave(w)
  <2>1. req[w].sid \in Sids /\ req[w].qn \in Questions /\ req[w].val \in Values
    BY <1>5, RequestFields DEF CommitSave
  <2>2. /\ answer' \in [Sids -> [Questions -> Values \cup {NoAnswer}]]
        /\ mark' \in [Sids -> [Questions -> Marks]]
    <3>1. CASE status[req[w].sid] = "in_progress"
      <4>1. /\ answer' = [answer EXCEPT ![req[w].sid][req[w].qn] = req[w].val]
            /\ mark' = [mark EXCEPT ![req[w].sid][req[w].qn] = "ungraded"]
        BY <1>5, <3>1 DEF CommitSave
      <4>2. "ungraded" \in Marks
        BY DEF Marks
      <4>3. QED
        BY <2>1, <4>1, <4>2, NestedExcept DEF TypeOK
    <3>2. CASE status[req[w].sid] # "in_progress"
      BY <1>5, <3>2 DEF CommitSave, TypeOK
    <3>3. QED
      BY <3>1, <3>2
  <2>3. req' \in [Workers -> Request]
    BY <1>5, ReplyType DEF CommitSave
  <2>4. QED
    BY <1>5, <2>2, <2>3 DEF CommitSave, TypeOK
<1>6. ASSUME NEW s \in Sids, NEW sec \in Sections, BeginAdvance(w, s, sec) PROVE TypeOK'
  <2>1. [op |-> "advance", sid |-> s, sec |-> sec] \in Request
    BY DEF Request
  <2>2. req' \in [Workers -> Request]
    BY <1>6, <2>1, AcceptType DEF BeginAdvance
  <2>3. QED
    BY <1>6, <2>2, QuietType DEF BeginAdvance, TypeOK
<1>7. CASE CommitAdvance(w)
  <2>1. req[w].sid \in Sids /\ req[w].sec \in Sections
    BY <1>7, RequestFields DEF CommitAdvance
  <2>2. /\ secStatus' \in [Sids -> [Sections -> {"pending", "active", "submitted"}]]
        /\ secStart' \in [Sids -> [Sections -> Nat]]
        /\ secExtended' \in [Sids -> [Sections -> Nat]]
    <3>1. CASE secStatus[req[w].sid][req[w].sec] = "active"
      BY <1>7, <2>1, <3>1, AdvanceType DEF CommitAdvance
    <3>2. CASE secStatus[req[w].sid][req[w].sec] # "active"
      BY <1>7, <3>2 DEF CommitAdvance, TypeOK
    <3>3. QED
      BY <3>1, <3>2
  <2>3. req' \in [Workers -> Request]
    BY <1>7, ReplyType DEF CommitAdvance
  <2>4. QED
    BY <1>7, <2>2, <2>3 DEF CommitAdvance, TypeOK
<1>8. ASSUME NEW s \in Sids, BeginSubmit(w, s) PROVE TypeOK'
  <2>1. [op |-> "submit", sid |-> s] \in Request
    BY DEF Request
  <2>2. req' \in [Workers -> Request]
    BY <1>8, <2>1, AcceptType DEF BeginSubmit
  <2>3. QED
    BY <1>8, <2>2, QuietType DEF BeginSubmit, TypeOK
<1>9. CASE CommitSubmit(w)
  <2>1. req[w].sid \in Sids
    BY <1>9, RequestFields DEF CommitSubmit
  <2>2. req' \in [Workers -> Request]
    BY <1>9, ReplyType DEF CommitSubmit
  <2>3. CASE status[req[w].sid] = "in_progress"
    <3>1. Finalize(req[w].sid) /\ UNCHANGED <<sectionVars, clock, sweep>>
      BY <1>9, <2>3 DEF CommitSubmit
    <3>2. QED
      BY <2>1, <2>2, <3>1, FinalizeType DEF TypeOK
  <2>4. CASE status[req[w].sid] # "in_progress"
    BY <1>9, <2>2, <2>4, QuietType DEF CommitSubmit, TypeOK
  <2>5. QED
    BY <2>3, <2>4
<1>10. CASE Drop(w)
  BY <1>10, ReplyType, QuietType DEF Drop, TypeOK
<1>11. QED
  BY <1>1, <1>2, <1>3, <1>4, <1>5, <1>6, <1>7, <1>8, <1>9, <1>10 DEF Handle

\* What the sweep does keeps the types.
LEMMA SweepType ==
    ASSUME TypeOK, Sweep
    PROVE  TypeOK'
<1> USE DEF regVars, sessionVars, sectionVars, answerVars
<1>1. CASE SweepList
  <2>1. DueCandidates(clock) \in SUBSET Candidates
    BY DEF DueCandidates
  <2>2. QED
    BY <1>1, <2>1, QuietType DEF SweepList, TypeOK
<1>2. ASSUME NEW c \in Candidates, ExpireStandard(c) PROVE TypeOK'
  <2>1. c[1] \in Sids
    BY DEF Candidates
  <2>2. QED
    BY <1>2, <2>1, FinalizeType, TakenType DEF ExpireStandard, TypeOK
<1>3. ASSUME NEW c \in Candidates, ExpireSection(c) PROVE TypeOK'
  <2>1. c[1] \in Sids /\ c[2] \in Sections
    BY <1>3 DEF Candidates, ExpireSection
  <2>2. /\ secStatus' \in [Sids -> [Sections -> {"pending", "active", "submitted"}]]
        /\ secStart' \in [Sids -> [Sections -> Nat]]
        /\ secExtended' \in [Sids -> [Sections -> Nat]]
    BY <1>3, <2>1, AdvanceType DEF ExpireSection
  <2>3. sweep' \in [on : BOOLEAN, now : Nat, todo : SUBSET Candidates]
    BY <1>3, TakenType DEF ExpireSection
  <2>4. CASE Pending(c[1]) = {}
    <3>1. Finalize(c[1]) /\ UNCHANGED <<clock, req>>
      BY <1>3, <2>4 DEF ExpireSection
    <3>2. QED
      BY <2>1, <2>2, <2>3, <3>1, FinalizeType DEF TypeOK
  <2>5. CASE Pending(c[1]) # {}
    BY <1>3, <2>2, <2>3, <2>5 DEF ExpireSection, TypeOK
  <2>6. QED
    BY <2>4, <2>5
<1>4. ASSUME NEW c \in Candidates, SkipCandidate(c) PROVE TypeOK'
  BY <1>4, TakenType, QuietType DEF SkipCandidate, TypeOK
<1>5. CASE SweepEnd
  BY <1>5, QuietType DEF SweepEnd, TypeOK
<1>6. QED
  BY <1>1, <1>2, <1>3, <1>4, <1>5 DEF Sweep, Expire

\* Every step keeps the types.
LEMMA TypeStep == TypeOK /\ [Next]_vars => TypeOK'
<1> USE DEF regVars, sessionVars, sectionVars, answerVars
<1> SUFFICES ASSUME TypeOK, [Next]_vars PROVE TypeOK'
  OBVIOUS
<1>1. ASSUME NEW r \in Regs, CheckIn(r) PROVE TypeOK'
  BY <1>1 DEF CheckIn, TypeOK
<1>2. ASSUME NEW w \in Workers, Handle(w) PROVE TypeOK'
  BY <1>2, HandleType
<1>3. ASSUME NEW s \in Sids, NEW m \in Extensions, Reopen(s, m) PROVE TypeOK'
  <2>1. clock + m \in Nat
    BY ConstantsOK DEF ConstantsOK, TypeOK
  <2>2. CASE Sectioned
    <3>1. PICK sec \in Sections : secExtended' = [secExtended EXCEPT ![s][sec] = clock + m]
      BY <1>3, <2>2 DEF Reopen
    <3>2. secExtended' \in [Sids -> [Sections -> Nat]]
      BY <2>1, <3>1, NestedExcept DEF TypeOK
    <3>3. QED
      BY <1>3, <2>2, <3>2 DEF Reopen, TypeOK
  <2>3. CASE ~Sectioned
    BY <1>3, <2>1, <2>3 DEF Reopen, TypeOK
  <2>4. QED
    BY <2>2, <2>3
<1>4. CASE Sweep
  BY <1>4, SweepType
<1>5. CASE Tick
  BY <1>5, QuietType DEF Tick, TypeOK
<1>6. CASE UNCHANGED vars
  BY <1>6, QuietType DEF vars, TypeOK
<1>7. QED
  BY <1>1, <1>2, <1>3, <1>4, <1>5, <1>6 DEF Next

LEMMA TypeInit == Init => TypeOK
<1> SUFFICES ASSUME Init PROVE TypeOK
  OBVIOUS
<1>1. Idle \in Request
  BY DEF Request
<1>2. QED
  BY <1>1 DEF Init, TypeOK, Marks

\* Every variable always has its type, whatever the exam, its questions and
\* the number of requests in flight.
THEOREM TypeCorrect == Spec => []TypeOK
<1>1. QED
  BY TypeInit, TypeStep, PTL DEF Spec

-----------------------------------------------------------------------------
(* What a step does to a registration, its sessions and their answers *)

\* A session is inserted for r.
Started(r) ==
    LET s == <<r, attemptsUsed[r] + 1>>
    IN  /\ LiveOf(r) = {}
        /\ AttemptLeft(r)
        /\ s \in Sids
        /\ attemptsUsed' = [attemptsUsed EXCEPT ![r] = @ + 1]
        /\ regStatus' = [regStatus EXCEPT ![r] = "in_progress"]
        /\ status' = [status EXCEPT ![s] = "in_progress"]
        /\ UNCHANGED <<score, certEvents, answer, mark>>

\* The open session s is finalized.
Closed(s) == status[s] = "in_progress" /\ Finalize(s)

\* An answer is saved into the open session s.
Saved(s) ==
    /\ status[s] = "in_progress"
    /\ \E qn \in Questions, v \in Values :
          /\ answer' = [answer EXCEPT ![s][qn] = v]
          /\ mark' = [mark EXCEPT ![s][qn] = "ungraded"]
    /\ UNCHANGED <<attemptsUsed, regStatus, status, score, certEvents>>

\* Nothing but a registration's status changes, and to "checked_in".
CheckedIn(r) ==
    /\ regStatus' = [regStatus EXCEPT ![r] = "checked_in"]
    /\ UNCHANGED <<attemptsUsed, status, score, certEvents, answer, mark>>

Quiet == UNCHANGED <<attemptsUsed, regStatus, status, score, certEvents, answer, mark>>

\* Whatever request, administrator or sweep makes it, a step is one of these.
LEMMA StepShape ==
    ASSUME TypeOK, [Next]_vars
    PROVE  \/ \E r \in Regs : Started(r) \/ CheckedIn(r)
           \/ \E s \in Sids : Closed(s) \/ Saved(s)
           \/ Quiet
<1> USE DEF regVars, sessionVars, answerVars, Quiet
<1>1. ASSUME NEW r \in Regs, CheckIn(r) PROVE CheckedIn(r)
  BY <1>1 DEF CheckIn, CheckedIn
<1>2. ASSUME NEW w \in Workers, Handle(w)
      PROVE  \/ \E r \in Regs : Started(r)
             \/ \E s \in Sids : Closed(s) \/ Saved(s)
             \/ Quiet
  <2>1. CASE CreateSession(w)
    <3> DEFINE r == req[w].reg
    <3>1. r \in Regs
      BY <2>1, RequestFields DEF CreateSession
    <3>2. attemptsUsed[r] < AttemptBound /\ attemptsUsed[r] \in Nat
      BY <2>1, <3>1 DEF CreateSession, TypeOK
    <3>3. <<r, attemptsUsed[r] + 1>> \in Sids
      BY <3>1, <3>2, ConstantsOK DEF ConstantsOK, Sids, Attempts
    <3>4. Started(r)
      BY <2>1, <3>3 DEF CreateSession, MayStart, Started
    <3>5. QED
      BY <3>1, <3>4
  <2>2. CASE CommitSave(w)
    <3>1. req[w].sid \in Sids /\ req[w].qn \in Questions /\ req[w].val \in Values
      BY <2>2, RequestFields DEF CommitSave
    <3>2. CASE status[req[w].sid] = "in_progress"
      BY <2>2, <3>1, <3>2 DEF CommitSave, Saved
    <3>3. CASE status[req[w].sid] # "in_progress"
      BY <2>2, <3>3 DEF CommitSave
    <3>4. QED
      BY <3>2, <3>3
  <2>3. CASE CommitSubmit(w)
    <3>1. req[w].sid \in Sids
      BY <2>3, RequestFields DEF CommitSubmit
    <3>2. CASE status[req[w].sid] = "in_progress"
      BY <2>3, <3>1, <3>2 DEF CommitSubmit, Closed
    <3>3. CASE status[req[w].sid] # "in_progress"
      BY <2>3, <3>3 DEF CommitSubmit
    <3>4. QED
      BY <3>2, <3>3
  <2>4. CASE CommitAdvance(w)
    BY <2>4 DEF CommitAdvance
  <2>5. CASE RefuseStart(w) \/ Drop(w)
    BY <2>5 DEF RefuseStart, Drop
  <2>6. CASE \/ \E r \in Regs : BeginStart(w, r)
             \/ \E s \in Sids, qn \in Questions, v \in Values : BeginSave(w, s, qn, v)
             \/ \E s \in Sids, sec \in Sections : BeginAdvance(w, s, sec)
             \/ \E s \in Sids : BeginSubmit(w, s)
    BY <2>6 DEF BeginStart, BeginSave, BeginAdvance, BeginSubmit
  <2>7. QED
    BY <1>2, <2>1, <2>2, <2>3, <2>4, <2>5, <2>6 DEF Handle
<1>3. ASSUME NEW s \in Sids, NEW m \in Extensions, Reopen(s, m) PROVE Quiet
  BY <1>3 DEF Reopen
<1>4. CASE Sweep
  <2>1. ASSUME NEW c \in Candidates, ExpireStandard(c) PROVE \E s \in Sids : Closed(s)
    BY <2>1 DEF ExpireStandard, Closed, Candidates
  <2>2. ASSUME NEW c \in Candidates, ExpireSection(c) PROVE Quiet \/ \E s \in Sids : Closed(s)
    <3>1. CASE Pending(c[1]) = {}
      BY <2>2, <3>1 DEF ExpireSection, Closed, Candidates
    <3>2. CASE Pending(c[1]) # {}
      BY <2>2, <3>2 DEF ExpireSection
    <3>3. QED
      BY <3>1, <3>2
  <2>3. ASSUME NEW c \in Candidates, SkipCandidate(c) PROVE Quiet
    BY <2>3 DEF SkipCandidate
  <2>4. CASE SweepList \/ SweepEnd
    BY <2>4 DEF SweepList, SweepEnd
  <2>5. QED
    BY <1>4, <2>1, <2>2, <2>3, <2>4 DEF Sweep, Expire
<1>5. CASE Tick
  BY <1>5 DEF Tick
<1>6. CASE UNCHANGED vars
  BY <1>6 DEF vars
<1>7. QED
  BY <1>1, <1>2, <1>3, <1>4, <1>5, <1>6 DEF Next

-----------------------------------------------------------------------------
(* Attempts, sessions and the registration that counts them *)

\* The open session of a registration is its latest.
LiveIsLatest ==
    \A s \in Sids : status[s] = "in_progress" => s[2] = attemptsUsed[s[1]]

\* The inductive invariant of attempts. OneLiveSession follows from
\* LiveIsLatest but is not inductive: that no other session is open after a
\* start needs AttemptsAreSessions, which says the new row is new.
AttemptInv ==
    /\ TypeOK
    /\ AttemptsAreSessions
    /\ LiveIsLatest
    /\ AttemptCeiling
    /\ OneCertificateEvent
    /\ RegistrationTracksSessions

LEMMA SidPair ==
    ASSUME NEW s \in Sids
    PROVE  s[1] \in Regs /\ s[2] \in Attempts /\ s[2] \in Nat /\ s = <<s[1], s[2]>>
BY ConstantsOK DEF Sids, Attempts, ConstantsOK

LEMMA LatestIsOne == LiveIsLatest => OneLiveSession
BY SidPair DEF LiveIsLatest, OneLiveSession

LEMMA AttemptInit == Init => AttemptInv
<1> SUFFICES ASSUME Init PROVE AttemptInv
  OBVIOUS
<1>1. TypeOK
  BY TypeInit
<1>2. \A s \in Sids : s[1] \in Regs /\ s[2] >= 1 /\ s[2] \in Nat
  BY ConstantsOK DEF Sids, Attempts, ConstantsOK
<1>3. AttemptsAreSessions /\ LiveIsLatest /\ OneCertificateEvent
  BY <1>2 DEF Init, AttemptsAreSessions, LiveIsLatest, OneCertificateEvent
<1>4. AttemptCeiling
  BY ConstantsOK DEF Init, AttemptCeiling, Ceiling, ConstantsOK
<1>5. RegistrationTracksSessions
  BY DEF Init, RegistrationTracksSessions
<1>6. QED
  BY <1>1, <1>3, <1>4, <1>5 DEF AttemptInv

LEMMA StartKeeps ==
    ASSUME AttemptInv, TypeOK', NEW r \in Regs, Started(r)
    PROVE  AttemptInv'
<1> DEFINE s == <<r, attemptsUsed[r] + 1>>
<1> USE DEF AttemptInv
<1>1. /\ attemptsUsed' = [attemptsUsed EXCEPT ![r] = attemptsUsed[r] + 1]
      /\ regStatus' = [regStatus EXCEPT ![r] = "in_progress"]
      /\ status' = [status EXCEPT ![s] = "in_progress"]
      /\ certEvents' = certEvents
      /\ s \in Sids /\ s[1] = r /\ s[2] = attemptsUsed[r] + 1
      /\ LiveOf(r) = {} /\ AttemptLeft(r)
  BY DEF Started
<1>2. /\ attemptsUsed \in [Regs -> Nat]
      /\ status \in [Sids -> {"none", "in_progress", "submitted"}]
      /\ regStatus \in [Regs -> {"registered", "checked_in", "in_progress", "submitted"}]
  BY DEF TypeOK
<1>3. status[s] = "none"
  BY <1>1, <1>2 DEF AttemptsAreSessions
<1> HIDE DEF s
<1>4. \A t \in Sids : t # s => status'[t] = status[t]
  BY <1>1, <1>2
<1>5. status'[s] = "in_progress"
  BY <1>1, <1>2
<1>6. /\ attemptsUsed'[r] = attemptsUsed[r] + 1
      /\ \A q \in Regs : q # r => attemptsUsed'[q] = attemptsUsed[q]
  BY <1>1, <1>2
<1>7. \A t \in Sids : t[1] = r => status[t] # "in_progress"
  BY <1>1 DEF LiveOf
<1>8. AttemptsAreSessions'
  <2> SUFFICES ASSUME NEW t \in Sids
               PROVE  status'[t] # "none" <=> t[2] <= attemptsUsed'[t[1]]
    BY DEF AttemptsAreSessions
  <2>1. status[t] # "none" <=> t[2] <= attemptsUsed[t[1]]
    BY DEF AttemptsAreSessions
  <2>2. t[1] \in Regs /\ t[2] \in Nat /\ t = <<t[1], t[2]>>
    BY SidPair
  <2>3. CASE t = s
    BY <1>1, <1>2, <1>5, <1>6, <2>3
  <2>4. CASE t # s /\ t[1] = r
    <3>1. t[2] # attemptsUsed[r] + 1
      BY <2>2, <2>4 DEF s
    <3>2. QED
      BY <1>2, <1>4, <1>6, <2>1, <2>2, <2>4, <3>1
  <2>5. CASE t[1] # r
    BY <1>1, <1>4, <1>6, <2>1, <2>2, <2>5
  <2>6. QED
    BY <2>3, <2>4, <2>5
<1>9. LiveIsLatest'
  <2> SUFFICES ASSUME NEW t \in Sids, status'[t] = "in_progress"
               PROVE  t[2] = attemptsUsed'[t[1]]
    BY DEF LiveIsLatest
  <2>1. CASE t = s
    BY <1>1, <1>6, <2>1
  <2>2. CASE t # s
    BY <1>4, <1>6, <1>7, <2>2, SidPair DEF LiveIsLatest
  <2>3. QED
    BY <2>1, <2>2
<1>10. AttemptCeiling'
  <2> SUFFICES ASSUME NEW q \in Regs, MaxAttempts # Unlimited
               PROVE  attemptsUsed'[q] <= Ceiling
    BY DEF AttemptCeiling, Ceiling
  <2>1. attemptsUsed[q] <= Ceiling
    BY DEF AttemptCeiling
  <2>2. Ceiling \in Nat
    BY ConstantsOK DEF Ceiling, ConstantsOK
  <2>3. attemptsUsed[r] < Ceiling
    BY <1>1 DEF AttemptLeft
  <2>4. QED
    BY <1>2, <1>6, <2>1, <2>2, <2>3
<1>11. OneCertificateEvent'
  BY <1>1, <1>3, <1>4, <1>5 DEF OneCertificateEvent
<1>12. RegistrationTracksSessions'
  <2> SUFFICES ASSUME NEW q \in Regs
               PROVE  /\ regStatus'[q] = "submitted" => LiveOf(q)' = {}
                      /\ regStatus'[q] = "in_progress" => LiveOf(q)' # {}
    BY DEF RegistrationTracksSessions
  <2>1. CASE q = r
    <3>1. s \in LiveOf(q)'
      BY <1>1, <1>5, <2>1 DEF LiveOf
    <3>2. regStatus'[q] = "in_progress"
      BY <1>1, <1>2, <2>1
    <3>3. QED
      BY <3>1, <3>2
  <2>2. CASE q # r
    <3>1. regStatus'[q] = regStatus[q]
      BY <1>1, <1>2, <2>2
    <3>2. \A t \in Sids : t[1] = q => status'[t] = status[t]
      BY <1>1, <1>4, <2>2
    <3>3. LiveOf(q)' = LiveOf(q)
      BY <3>2 DEF LiveOf
    <3>4. QED
      BY <3>1, <3>3 DEF RegistrationTracksSessions
  <2>3. QED
    BY <2>1, <2>2
<1>13. QED
  BY <1>8, <1>9, <1>10, <1>11, <1>12

LEMMA CloseKeeps ==
    ASSUME AttemptInv, TypeOK', NEW s \in Sids, Closed(s)
    PROVE  AttemptInv'
<1> USE DEF AttemptInv
<1>1. /\ status[s] = "in_progress"
      /\ status' = [status EXCEPT ![s] = "submitted"]
      /\ regStatus' = [regStatus EXCEPT ![s[1]] = "submitted"]
      /\ certEvents' = [certEvents EXCEPT ![s] = certEvents[s] + 1]
      /\ attemptsUsed' = attemptsUsed
  BY DEF Closed, Finalize
<1>2. /\ status \in [Sids -> {"none", "in_progress", "submitted"}]
      /\ regStatus \in [Regs -> {"registered", "checked_in", "in_progress", "submitted"}]
      /\ certEvents \in [Sids -> Nat]
  BY DEF TypeOK
<1>3. status'[s] = "submitted" /\ \A t \in Sids : t # s => status'[t] = status[t]
  BY <1>1, <1>2
<1>4. AttemptsAreSessions'
  BY <1>1, <1>3 DEF AttemptsAreSessions
<1>5. LiveIsLatest'
  BY <1>1, <1>3 DEF LiveIsLatest
<1>6. AttemptCeiling'
  BY <1>1 DEF AttemptCeiling, Ceiling
<1>7. OneCertificateEvent'
  BY <1>1, <1>2, <1>3 DEF OneCertificateEvent
<1>8. RegistrationTracksSessions'
  <2> SUFFICES ASSUME NEW q \in Regs
               PROVE  /\ regStatus'[q] = "submitted" => LiveOf(q)' = {}
                      /\ regStatus'[q] = "in_progress" => LiveOf(q)' # {}
    BY DEF RegistrationTracksSessions
  <2>1. CASE q = s[1]
    <3>1. \A t \in Sids : t[1] = q /\ status[t] = "in_progress" => t = s
      BY <1>1, <2>1, LatestIsOne DEF OneLiveSession
    <3>2. LiveOf(q)' = {}
      BY <1>3, <3>1 DEF LiveOf
    <3>3. regStatus'[q] = "submitted"
      BY <1>1, <1>2, <2>1
    <3>4. QED
      BY <3>2, <3>3
  <2>2. CASE q # s[1]
    <3>1. regStatus'[q] = regStatus[q]
      BY <1>1, <1>2, <2>2
    <3>2. LiveOf(q)' = LiveOf(q)
      BY <1>3, <2>2 DEF LiveOf
    <3>3. QED
      BY <3>1, <3>2 DEF RegistrationTracksSessions
  <2>3. QED
    BY <2>1, <2>2
<1>9. QED
  BY <1>4, <1>5, <1>6, <1>7, <1>8

\* Steps that leave sessions and attempts alone, and at most mark a
\* registration as checked in.
LEMMA OtherKeeps ==
    ASSUME AttemptInv, TypeOK',
           UNCHANGED <<attemptsUsed, status, certEvents>>,
           regStatus' = regStatus \/ \E r \in Regs : regStatus' = [regStatus EXCEPT ![r] = "checked_in"]
    PROVE  AttemptInv'
<1> USE DEF AttemptInv
<1>1. AttemptsAreSessions' /\ LiveIsLatest' /\ AttemptCeiling' /\ OneCertificateEvent'
  BY DEF AttemptsAreSessions, LiveIsLatest, AttemptCeiling, Ceiling, OneCertificateEvent
<1>2. \A q \in Regs : regStatus'[q] = regStatus[q] \/ regStatus'[q] = "checked_in"
  BY DEF TypeOK
<1>3. \A q \in Regs : LiveOf(q)' = LiveOf(q)
  BY DEF LiveOf
<1>4. RegistrationTracksSessions'
  BY <1>2, <1>3 DEF RegistrationTracksSessions
<1>5. QED
  BY <1>1, <1>4

LEMMA AttemptStep == AttemptInv /\ [Next]_vars => AttemptInv'
<1> SUFFICES ASSUME AttemptInv, [Next]_vars PROVE AttemptInv'
  OBVIOUS
<1>1. TypeOK /\ TypeOK'
  BY TypeStep DEF AttemptInv
<1>2. CASE \E r \in Regs : Started(r)
  BY <1>1, <1>2, StartKeeps
<1>3. CASE \E s \in Sids : Closed(s)
  BY <1>1, <1>3, CloseKeeps
<1>4. CASE \/ Quiet
           \/ \E r \in Regs : CheckedIn(r)
           \/ \E s \in Sids : Saved(s)
  BY <1>1, <1>4, OtherKeeps DEF Quiet, CheckedIn, Saved
<1>5. QED
  BY <1>1, <1>2, <1>3, <1>4, StepShape

\* A registration never has two open sessions, and its latest is the one open.
THEOREM OneLive == Spec => []OneLiveSession
<1>1. AttemptInv => OneLiveSession
  BY LatestIsOne DEF AttemptInv
<1>2. QED
  BY <1>1, AttemptInit, AttemptStep, PTL DEF Spec

\* attempts_used is the number of sessions, never beyond the ceiling.
THEOREM AttemptsCounted == Spec => [](AttemptsAreSessions /\ AttemptCeiling)
<1>1. AttemptInv => AttemptsAreSessions /\ AttemptCeiling
  BY DEF AttemptInv
<1>2. QED
  BY <1>1, AttemptInit, AttemptStep, PTL DEF Spec

\* However many finalizers race, a submitted session has one certificate event
\* and an open one none.
THEOREM CertificateOnce == Spec => []OneCertificateEvent
<1>1. AttemptInv => OneCertificateEvent
  BY DEF AttemptInv
<1>2. QED
  BY <1>1, AttemptInit, AttemptStep, PTL DEF Spec

\* A registration's status agrees with its sessions.
THEOREM RegistrationTracks == Spec => []RegistrationTracksSessions
<1>1. AttemptInv => RegistrationTracksSessions
  BY DEF AttemptInv
<1>2. QED
  BY <1>1, AttemptInit, AttemptStep, PTL DEF Spec

-----------------------------------------------------------------------------
(* Answers and grades *)

GradeInv == TypeOK /\ GradedAsStored

LEMMA GradeInit == Init => GradeInv
<1> SUFFICES ASSUME Init PROVE GradeInv
  OBVIOUS
<1>1. GradedAsStored
  BY DEF Init, GradedAsStored
<1>2. QED
  BY <1>1, TypeInit DEF GradeInv

LEMMA GradeStep == GradeInv /\ [Next]_vars => GradeInv'
<1> SUFFICES ASSUME GradeInv, [Next]_vars PROVE GradeInv'
  OBVIOUS
<1>1. TypeOK /\ TypeOK' /\ GradedAsStored
  BY TypeStep DEF GradeInv
<1> DEFINE Graded(s) == /\ \A qn \in Questions : mark[s][qn] = GradeOf(qn, answer[s][qn])
                        /\ score[s] = Total(mark[s])
<1>2. SUFFICES ASSUME NEW t \in Sids, status'[t] = "submitted" PROVE Graded(t)'
  BY <1>1 DEF GradeInv, GradedAsStored
<1>3. ASSUME status[t] = "submitted", answer'[t] = answer[t], mark'[t] = mark[t], score'[t] = score[t]
      PROVE  Graded(t)'
  BY <1>1, <1>3 DEF GradedAsStored, GradeOf, Total
<1>4. ASSUME NEW r \in Regs, Started(r) PROVE Graded(t)'
  BY <1>1, <1>2, <1>3, <1>4 DEF Started, TypeOK
<1>5. ASSUME NEW s \in Sids, Closed(s) PROVE Graded(t)'
  <2> DEFINE graded == [qn \in Questions |-> GradeOf(qn, answer[s][qn])]
  <2>1. /\ mark' = [mark EXCEPT ![s] = graded]
        /\ score' = [score EXCEPT ![s] = Total(graded)]
        /\ status' = [status EXCEPT ![s] = "submitted"]
        /\ answer' = answer
    BY <1>5 DEF Closed, Finalize
  <2>2. CASE t = s
    <3>1. mark'[s] = graded /\ score'[s] = Total(graded)
      BY <1>1, <2>1 DEF TypeOK
    <3>2. \A qn \in Questions : mark'[s][qn] = GradeOf(qn, answer'[s][qn])
      BY <2>1, <3>1
    <3>3. score'[s] = Total(mark'[s])
      BY <3>1 DEF Total
    <3>4. QED
      BY <2>2, <3>2, <3>3 DEF GradeOf, Total
  <2>3. CASE t # s
    BY <1>1, <1>2, <1>3, <2>1, <2>3 DEF TypeOK
  <2>4. QED
    BY <2>2, <2>3
<1>6. ASSUME NEW s \in Sids, Saved(s) PROVE Graded(t)'
  <2>1. PICK qn \in Questions, v \in Values :
            /\ answer' = [answer EXCEPT ![s][qn] = v]
            /\ mark' = [mark EXCEPT ![s][qn] = "ungraded"]
    BY <1>6 DEF Saved
  <2>2. status' = status /\ score' = score /\ t # s
    BY <1>2, <1>6 DEF Saved
  <2>3. QED
    BY <1>1, <1>2, <1>3, <2>1, <2>2 DEF TypeOK
<1>7. CASE Quiet \/ \E r \in Regs : CheckedIn(r)
  BY <1>2, <1>3, <1>7 DEF Quiet, CheckedIn
<1>8. QED
  BY <1>1, <1>4, <1>5, <1>6, <1>7, StepShape

\* A grade is always the grade of the answers stored beside it.
THEOREM GradesMatchAnswers == Spec => []GradedAsStored
<1>1. GradeInv => GradedAsStored
  BY DEF GradeInv
<1>2. QED
  BY <1>1, GradeInit, GradeStep, PTL DEF Spec

\* No step changes a submitted session's status, answers, marks or score.
LEMMA FinalStep ==
    ASSUME AttemptInv, [Next]_vars, NEW t \in Sids, status[t] = "submitted"
    PROVE  /\ status'[t] = "submitted"
           /\ answer'[t] = answer[t]
           /\ mark'[t] = mark[t]
           /\ score'[t] = score[t]
<1>1. TypeOK /\ AttemptsAreSessions
  BY DEF AttemptInv
<1>2. ASSUME NEW r \in Regs, Started(r)
      PROVE  UNCHANGED <<answer, mark, score>> /\ status'[t] = "submitted"
  <2> DEFINE s == <<r, attemptsUsed[r] + 1>>
  <2>1. s \in Sids /\ s[2] = attemptsUsed[s[1]] + 1 /\ status' = [status EXCEPT ![s] = "in_progress"]
    BY <1>2 DEF Started
  <2>2. status[s] = "none"
    BY <1>1, <2>1, SidPair DEF AttemptsAreSessions, TypeOK
  <2>3. t # s
    BY <2>2
  <2> HIDE DEF s
  <2>4. QED
    BY <1>1, <1>2, <2>1, <2>3 DEF Started, TypeOK
<1>3. ASSUME NEW s \in Sids, Closed(s)
      PROVE  /\ status'[t] = "submitted" /\ answer'[t] = answer[t]
             /\ mark'[t] = mark[t] /\ score'[t] = score[t]
  BY <1>1, <1>3 DEF Closed, Finalize, TypeOK
<1>4. ASSUME NEW s \in Sids, Saved(s)
      PROVE  /\ UNCHANGED <<status, score>>
             /\ answer'[t] = answer[t] /\ mark'[t] = mark[t]
  BY <1>1, <1>4 DEF Saved, TypeOK
<1>5. QED
  BY <1>1, <1>2, <1>3, <1>4, StepShape DEF Quiet, CheckedIn

\* Once submitted a session is never changed again, by whatever was in flight.
THEOREM FinalForEver == Spec => SubmittedIsFinal
<1>1. AttemptInv /\ [Next]_vars =>
        [\A s \in Sids : status[s] = "submitted" =>
            /\ status'[s] = "submitted"
            /\ answer'[s] = answer[s]
            /\ mark'[s] = mark[s]
            /\ score'[s] = score[s]]_vars
  BY FinalStep
<1>2. QED
  BY <1>1, AttemptInit, AttemptStep, PTL DEF Spec, SubmittedIsFinal

-----------------------------------------------------------------------------
(* The session implements the promise of ExamAttempts *)

LEMMA PromiseInit == Init => Attempt!Init
BY DEF Init, Attempt!Init, OpenSitting, LiveOf, Sids, Attempts

\* A start is Sit, a finalization is Finish, everything else stutters.
LEMMA PromiseStep ==
    ASSUME AttemptInv, AttemptInv', [Next]_vars
    PROVE  [Attempt!Next]_(Attempt!vars)
<1> USE DEF AttemptInv
<1>1. TypeOK /\ TypeOK'
  OBVIOUS
<1>2. ASSUME NEW r \in Regs, Started(r) PROVE Attempt!Sit(r)
  <2> DEFINE s == <<r, attemptsUsed[r] + 1>>
  <2>1. /\ s \in Sids /\ s[1] = r
        /\ LiveOf(r) = {} /\ AttemptLeft(r)
        /\ attemptsUsed' = [attemptsUsed EXCEPT ![r] = attemptsUsed[r] + 1]
        /\ status' = [status EXCEPT ![s] = "in_progress"]
        /\ certEvents' = certEvents
    BY <1>2 DEF Started
  <2>2. attemptsUsed[r] < AttemptBound
    <3>1. attemptsUsed[r] \in Nat /\ attemptsUsed[r] + 1 <= AttemptBound
      BY <1>1, <2>1 DEF Sids, Attempts, TypeOK
    <3>2. QED
      BY <3>1, ConstantsOK DEF ConstantsOK
  <2> HIDE DEF s
  <2>3. OpenSitting' = [OpenSitting EXCEPT ![r] = TRUE]
    <3>1. s \in LiveOf(r)'
      BY <1>1, <2>1 DEF LiveOf, TypeOK
    <3>2. \A q \in Regs : q # r => LiveOf(q)' = LiveOf(q)
      BY <1>1, <2>1 DEF LiveOf, TypeOK
    <3>3. QED
      BY <3>1, <3>2 DEF OpenSitting
  <2>4. ~OpenSitting[r]
    BY <2>1 DEF OpenSitting
  <2>5. QED
    BY <2>1, <2>2, <2>3, <2>4 DEF Attempt!Sit, AttemptLeft, Ceiling
<1>3. ASSUME NEW s \in Sids, Closed(s) PROVE s[1] \in Regs /\ Attempt!Finish(s[1])
  <2>1. /\ status[s] = "in_progress"
        /\ status' = [status EXCEPT ![s] = "submitted"]
        /\ certEvents' = [certEvents EXCEPT ![s] = certEvents[s] + 1]
        /\ attemptsUsed' = attemptsUsed
    BY <1>3 DEF Closed, Finalize
  <2>2. s[1] \in Regs /\ s = <<s[1], attemptsUsed[s[1]]>>
    BY <2>1, SidPair DEF LiveIsLatest
  <2>3. certEvents[s] = 0
    BY <2>1 DEF OneCertificateEvent
  <2>4. \A t \in Sids : t[1] = s[1] /\ status[t] = "in_progress" => t = s
    BY <2>1, LatestIsOne DEF OneLiveSession
  <2>5. LiveOf(s[1]) # {} /\ LiveOf(s[1])' = {}
    BY <1>1, <2>1, <2>4 DEF LiveOf, TypeOK
  <2>6. \A q \in Regs : q # s[1] => LiveOf(q)' = LiveOf(q)
    BY <1>1, <2>1 DEF LiveOf, TypeOK
  <2>7. OpenSitting' = [OpenSitting EXCEPT ![s[1]] = FALSE]
    BY <2>5, <2>6 DEF OpenSitting
  <2>8. OpenSitting[s[1]]
    BY <2>2, <2>5 DEF OpenSitting
  <2>9. certEvents' = [certEvents EXCEPT ![<<s[1], attemptsUsed[s[1]]>>] = 1]
    <3>1. certEvents' = [certEvents EXCEPT ![s] = 1]
      BY <2>1, <2>3
    <3> DEFINE latest == <<s[1], attemptsUsed[s[1]]>>
    <3>2. s = latest
      BY <2>2
    <3> HIDE DEF latest
    <3>3. certEvents' = [certEvents EXCEPT ![latest] = 1]
      BY <3>1, <3>2
    <3>4. QED
      BY <3>3 DEF latest
  <2>10. certEvents[<<s[1], attemptsUsed[s[1]]>>] = 0
    BY <2>2, <2>3
  <2>11. QED
    BY <2>1, <2>2, <2>7, <2>8, <2>9, <2>10 DEF Attempt!Finish
<1>4. CASE Quiet \/ (\E r \in Regs : CheckedIn(r)) \/ \E s \in Sids : Saved(s)
  <2>1. UNCHANGED <<attemptsUsed, status, certEvents>>
    BY <1>4 DEF Quiet, CheckedIn, Saved
  <2>2. OpenSitting' = OpenSitting
    BY <2>1 DEF OpenSitting, LiveOf
  <2>3. QED
    BY <2>1, <2>2 DEF Attempt!vars
<1>5. QED
  BY <1>1, <1>2, <1>3, <1>4, StepShape DEF Attempt!Next

\* Exam sessions implement ExamAttempts.
THEOREM PromiseKept == Spec => KeepsAttemptPromise
<1>1. QED
  BY AttemptInit, AttemptStep, PromiseInit, PromiseStep, PTL
     DEF Spec, KeepsAttemptPromise, Attempt!Spec

=============================================================================
