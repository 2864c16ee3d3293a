-------------------------- MODULE ExamSectionProofs --------------------------
(***************************************************************************)
(* The timed sections of a sitting are taken in order, one at a time, for  *)
(* every number of sections and of concurrent requests; and the expiry     *)
(* sweep closes no session and no section before its deadline.             *)
(***************************************************************************)
EXTENDS ExamSessionProofs

\* The first section opens with the session that is inserted for r.
Opens(r) ==
    /\ Started(r)
    /\ secStatus' = IF Sectioned
                    THEN [secStatus EXCEPT ![<<r, attemptsUsed[r] + 1>>][1] = "active"]
                    ELSE secStatus

\* An active section is closed and the next one promoted.
Moves(s, sec) ==
    /\ secStatus[s][sec] = "active"
    /\ AdvanceSection(s, sec)

\* No step starts a session but through Opens, whatever it does to its sections.
StatusKept == \A s \in Sids : status'[s] = "none" <=> status[s] = "none"

LEMMA ClosedKeepsStatus ==
    ASSUME TypeOK, NEW s \in Sids, Closed(s)
    PROVE  StatusKept
BY DEF Closed, Finalize, StatusKept, TypeOK

LEMMA SectionShape ==
    ASSUME TypeOK, [Next]_vars
    PROVE  \/ \E r \in Regs : Opens(r)
           \/ StatusKept /\ \E s \in Sids, sec \in Sections : Moves(s, sec)
           \/ StatusKept /\ UNCHANGED secStatus
<1> USE DEF regVars, sessionVars, sectionVars, answerVars
<1>1. ASSUME NEW r \in Regs, CheckIn(r) PROVE StatusKept /\ UNCHANGED secStatus
  BY <1>1 DEF CheckIn, StatusKept
<1>2. ASSUME NEW w \in Workers, Handle(w)
      PROVE  \/ \E r \in Regs : Opens(r)
             \/ StatusKept /\ \E s \in Sids, sec \in Sections : Moves(s, sec)
             \/ StatusKept /\ UNCHANGED secStatus
  <2>1. CASE CreateSession(w)
    <3> DEFINE r == req[w].reg
    <3>1. r \in Regs
      BY <2>1, RequestFields DEF CreateSession
    <3>2. attemptsUsed[r] < AttemptBound /\ attemptsUsed[r] \in Nat
      BY <2>1, <3>1 DEF CreateSession, TypeOK
    <3>3. <<r, attemptsUsed[r] + 1>> \in Sids
      BY <3>1, <3>2, ConstantsOK DEF ConstantsOK, Sids, Attempts
    <3>4. Opens(r)
      BY <2>1, <3>3 DEF CreateSession, MayStart, Started, Opens
    <3>5. QED
      BY <3>1, <3>4
  <2>2. CASE CommitAdvance(w)
    <3>1. req[w].sid \in Sids /\ req[w].sec \in Sections
      BY <2>2, RequestFields DEF CommitAdvance
    <3>2. StatusKept
      BY <2>2 DEF CommitAdvance, StatusKept
    <3>3. CASE secStatus[req[w].sid][req[w].sec] = "active"
      BY <2>2, <3>1, <3>2, <3>3 DEF CommitAdvance, Moves
    <3>4. CASE secStatus[req[w].sid][req[w].sec] # "active"
      BY <2>2, <3>2, <3>4 DEF CommitAdvance
    <3>5. QED
      BY <3>3, <3>4
  <2>3. CASE CommitSubmit(w)
    <3>1. req[w].sid \in Sids /\ UNCHANGED secStatus
      BY <2>3, RequestFields DEF CommitSubmit
    <3>2. CASE status[req[w].sid] = "in_progress"
      BY <2>3, <3>1, <3>2, ClosedKeepsStatus DEF CommitSubmit, Closed
    <3>3. CASE status[req[w].sid] # "in_progress"
      BY <2>3, <3>1, <3>3 DEF CommitSubmit, StatusKept
    <3>4. QED
      BY <3>2, <3>3
  <2>4. CASE CommitSave(w) \/ RefuseStart(w) \/ Drop(w)
    BY <2>4 DEF CommitSave, RefuseStart, Drop, StatusKept
  <2>5. CASE \/ \E r \in Regs : BeginStart(w, r)
             \/ \E s \in Sids, qn \in Questions, v \in Values : BeginSave(w, s, qn, v)
             \/ \E s \in Sids, sec \in Sections : BeginAdvance(w, s, sec)
             \/ \E s \in Sids : BeginSubmit(w, s)
    BY <2>5 DEF BeginStart, BeginSave, BeginAdvance, BeginSubmit, StatusKept
  <2>6. QED
    BY <1>2, <2>1, <2>2, <2>3, <2>4, <2>5 DEF Handle
<1>3. ASSUME NEW s \in Sids, NEW m \in Extensions, Reopen(s, m)
      PROVE  StatusKept /\ UNCHANGED secStatus
  BY <1>3 DEF Reopen, StatusKept
<1>4. ASSUME NEW c \in Candidates, ExpireStandard(c) PROVE StatusKept /\ UNCHANGED secStatus
  BY <1>4, ClosedKeepsStatus DEF ExpireStandard, Closed, Candidates
<1>5. ASSUME NEW c \in Candidates, ExpireSection(c)
      PROVE  StatusKept /\ \E s \in Sids, sec \in Sections : Moves(s, sec)
  <2>1. c[1] \in Sids /\ c[2] \in Sections
    BY <1>5 DEF ExpireSection, Candidates
  <2>2. Moves(c[1], c[2])
    BY <1>5 DEF ExpireSection, Moves
  <2>3. StatusKept
    <3>1. CASE Pending(c[1]) = {}
      BY <1>5, <2>1, <3>1, ClosedKeepsStatus DEF ExpireSection, Closed
    <3>2. CASE Pending(c[1]) # {}
      BY <1>5, <3>2 DEF ExpireSection, StatusKept
    <3>3. QED
      BY <3>1, <3>2
  <2>4. QED
    BY <2>1, <2>2, <2>3
<1>6. ASSUME NEW c \in Candidates, SkipCandidate(c) PROVE StatusKept /\ UNCHANGED secStatus
  BY <1>6 DEF SkipCandidate, StatusKept
<1>7. CASE SweepList \/ SweepEnd \/ Tick \/ UNCHANGED vars
  BY <1>7 DEF SweepList, SweepEnd, Tick, vars, StatusKept
<1>8. QED
  BY <1>1, <1>2, <1>3, <1>4, <1>5, <1>6, <1>7 DEF Next, Sweep, Expire

-----------------------------------------------------------------------------

\* The sections of s are submitted before at, active at it, pending after it.
At(s, at) ==
    /\ at = 0 <=> status[s] = "none"
    /\ \A sec \in Sections :
         /\ sec < at <=> secStatus[s][sec] = "submitted"
         /\ sec = at <=> secStatus[s][sec] = "active"

SectionInv == AttemptInv /\ SectionsInOrder

LEMMA SectionInit == Init => SectionInv
<1> SUFFICES ASSUME Init PROVE SectionInv
  OBVIOUS
<1>1. \A sec \in Sections : sec \in Nat /\ sec > 0
  BY ConstantsOK DEF ConstantsOK, Sections
<1>2. 0 \in 0..(NumSections + 1)
  BY ConstantsOK DEF ConstantsOK
<1>3. ASSUME NEW s \in Sids PROVE At(s, 0)
  BY <1>1 DEF Init, At
<1>4. QED
  BY <1>2, <1>3, AttemptInit DEF SectionInv, SectionsInOrder, At

\* The pending section of lowest order, when there is one.
LEMMA LowestPending ==
    ASSUME NEW S \in SUBSET Nat, NEW x \in S, \A y \in S : x <= y
    PROVE  Lowest(S) = x
<1>1. Lowest(S) \in S /\ \A y \in S : Lowest(S) <= y
  BY DEF Lowest
<1>2. Lowest(S) <= x /\ x <= Lowest(S)
  BY <1>1
<1>3. Lowest(S) \in Nat /\ x \in Nat
  BY <1>1
<1>4. QED
  BY <1>2, <1>3

LEMMA MoveKeeps ==
    ASSUME TypeOK, NEW s \in Sids, NEW sec \in Sections, Moves(s, sec), StatusKept,
           NEW at \in 0..(NumSections + 1), At(s, at)
    PROVE  \E new \in 0..(NumSections + 1) : At(s, new)'
<1>1. /\ NumSections \in Nat
      /\ \A x \in Sections : x \in Nat /\ x > 0 /\ x <= NumSections
      /\ \A x \in Nat : x > 0 /\ x <= NumSections => x \in Sections
  BY ConstantsOK DEF ConstantsOK, Sections
<1>2. at = sec
  BY DEF At, Moves
<1>3. at + 1 \in 0..(NumSections + 1) /\ at + 1 # 0 /\ at # 0
  BY <1>1, <1>2
<1>4. secStatus[s] \in [Sections -> {"pending", "active", "submitted"}]
  BY DEF TypeOK
<1>5. ASSUME NEW x \in Sections PROVE x > at <=> secStatus[s][x] = "pending"
  <2>1. /\ x < at <=> secStatus[s][x] = "submitted"
        /\ x = at <=> secStatus[s][x] = "active"
    BY DEF At
  <2>2. x > at <=> ~(x < at) /\ x # at
    BY <1>1, <1>2
  <2>3. secStatus[s][x] \in {"pending", "active", "submitted"}
    BY <1>4
  <2>4. QED
    BY <2>1, <2>2, <2>3
<1>6. status'[s] # "none"
  BY <1>3 DEF StatusKept, At
<1>7. \A x \in Sections :
        secStatus'[s][x] = IF x = at THEN "submitted"
                           ELSE IF x = at + 1 THEN "active"
                           ELSE secStatus[s][x]
  <2>1. CASE Pending(s) = {}
    <3>1. secStatus' = [secStatus EXCEPT ![s][sec] = "submitted"]
      BY <2>1 DEF Moves, AdvanceSection
    <3>2. at + 1 \notin Sections
      BY <1>1, <1>2, <1>5, <2>1 DEF Pending
    <3>3. secStatus'[s] = [secStatus[s] EXCEPT ![sec] = "submitted"]
      BY <3>1 DEF TypeOK
    <3>4. QED
      BY <1>2, <1>4, <3>2, <3>3
  <2>2. CASE Pending(s) # {}
    <3>1. \A x \in Pending(s) : x > at
      BY <1>5 DEF Pending
    <3>2. at + 1 \in Sections
      <4>1. PICK x \in Sections : x > at
        BY <2>2, <3>1 DEF Pending
      <4>2. QED
        BY <1>1, <1>2, <4>1
    <3>3. at + 1 \in Pending(s)
      BY <1>1, <1>2, <1>5, <3>2 DEF Pending
    <3>4. Pending(s) \in SUBSET Nat
      BY <1>1 DEF Pending
    <3>5. \A y \in Pending(s) : at + 1 <= y
      BY <1>1, <1>2, <3>1, <3>4
    <3>6. Lowest(Pending(s)) = at + 1
      BY <3>3, <3>4, <3>5, LowestPending
    <3> DEFINE next == at + 1
               closed == [secStatus EXCEPT ![s][sec] = "submitted"]
    <3>7. secStatus' = [closed EXCEPT ![s][next] = "active"]
      BY <2>2, <3>6 DEF Moves, AdvanceSection
    <3>8. closed[s] = [secStatus[s] EXCEPT ![sec] = "submitted"] /\ DOMAIN closed = Sids
      BY DEF TypeOK
    <3> HIDE DEF closed
    <3>9. secStatus'[s] = [closed[s] EXCEPT ![next] = "active"]
      BY <3>7, <3>8
    <3>10. secStatus'[s] = [[secStatus[s] EXCEPT ![sec] = "submitted"] EXCEPT ![next] = "active"]
      BY <3>8, <3>9
    <3>11. next # at /\ next \in Sections
      BY <1>3, <3>2
    <3> HIDE DEF next
    <3>12. \A x \in Sections :
             secStatus'[s][x] = IF x = at THEN "submitted"
                                ELSE IF x = next THEN "active" ELSE secStatus[s][x]
      BY <1>2, <1>4, <3>10, <3>11
    <3>13. QED
      BY <3>12 DEF next
  <2>3. QED
    BY <2>1, <2>2
<1>8. At(s, at + 1)'
  <2>1. \A x \in Sections : x < at + 1 <=> x = at \/ x < at
    BY <1>1, <1>2
  <2>2. \A x \in Sections :
          /\ x < at + 1 <=> secStatus'[s][x] = "submitted"
          /\ x = at + 1 <=> secStatus'[s][x] = "active"
    BY <1>1, <1>2, <1>7, <2>1 DEF At
  <2>3. QED
    BY <1>3, <1>6, <2>2 DEF At
<1>9. QED
  BY <1>3, <1>8

LEMMA SectionStep == SectionInv /\ [Next]_vars => SectionInv'
<1> SUFFICES ASSUME SectionInv, [Next]_vars PROVE SectionInv'
  OBVIOUS
<1>1. /\ AttemptInv /\ AttemptInv' /\ SectionsInOrder
      /\ TypeOK /\ TypeOK' /\ AttemptsAreSessions
  BY AttemptStep DEF SectionInv, AttemptInv
<1>2. SUFFICES ASSUME NEW t \in Sids PROVE \E new \in 0..(NumSections + 1) : At(t, new)'
  BY <1>1 DEF SectionInv, SectionsInOrder, At
<1>3. PICK at \in 0..(NumSections + 1) : At(t, at)
  BY <1>1 DEF SectionsInOrder, At
<1>4. ASSUME secStatus'[t] = secStatus[t], status'[t] = "none" <=> status[t] = "none"
      PROVE  At(t, at)'
  BY <1>3, <1>4 DEF At
<1>5. ASSUME NEW r \in Regs, Opens(r) PROVE \E new \in 0..(NumSections + 1) : At(t, new)'
  <2> DEFINE s == <<r, attemptsUsed[r] + 1>>
  <2>1. /\ s \in Sids /\ s[2] = attemptsUsed[s[1]] + 1
        /\ status' = [status EXCEPT ![s] = "in_progress"]
        /\ secStatus' = IF Sectioned THEN [secStatus EXCEPT ![s][1] = "active"] ELSE secStatus
    BY <1>5 DEF Opens, Started
  <2>2. status[s] = "none"
    BY <1>1, <2>1, SidPair DEF AttemptsAreSessions, TypeOK
  <2> HIDE DEF s
  <2>3. CASE t # s
    BY <1>1, <1>3, <1>4, <2>1, <2>3 DEF TypeOK
  <2>4. CASE t = s
    <3>1. at = 0 /\ status'[t] = "in_progress"
      BY <1>1, <1>3, <2>1, <2>2, <2>4 DEF At, TypeOK
    <3>2. \A x \in Sections : x \in Nat /\ x > 0
      BY ConstantsOK DEF ConstantsOK, Sections
    <3>3. \A x \in Sections : secStatus[t][x] = "pending"
      BY <1>1, <1>3, <3>1, <3>2 DEF At, TypeOK
    <3>4. \A x \in Sections : secStatus'[t][x] = IF x = 1 THEN "active" ELSE "pending"
      <4>1. CASE Sectioned
        <5>1. secStatus'[t] = [secStatus[t] EXCEPT ![1] = "active"]
          BY <1>1, <2>1, <2>4, <4>1 DEF TypeOK
        <5>2. secStatus[t] \in [Sections -> {"pending", "active", "submitted"}]
          BY <1>1 DEF TypeOK
        <5>3. QED
          BY <3>3, <5>1, <5>2
      <4>2. CASE ~Sectioned
        BY <4>2, ConstantsOK DEF ConstantsOK, Sectioned, Sections
      <4>3. QED
        BY <4>1, <4>2
    <3>5. 1 \in 0..(NumSections + 1)
      BY ConstantsOK DEF ConstantsOK
    <3>6. At(t, 1)'
      BY <3>1, <3>2, <3>4 DEF At
    <3>7. QED
      BY <3>5, <3>6
  <2>5. QED
    BY <2>3, <2>4
<1>6. ASSUME StatusKept, NEW s \in Sids, NEW sec \in Sections, Moves(s, sec)
      PROVE  \E new \in 0..(NumSections + 1) : At(t, new)'
  <2>1. CASE t = s
    BY <1>1, <1>3, <1>6, <2>1, MoveKeeps
  <2>2. CASE t # s
    <3>1. secStatus'[t] = secStatus[t]
      <4>1. CASE Pending(s) = {}
        BY <1>1, <1>6, <2>2, <4>1 DEF Moves, AdvanceSection, TypeOK
      <4>2. CASE Pending(s) # {}
        <5> DEFINE closed == [secStatus EXCEPT ![s][sec] = "submitted"]
                   next == Lowest(Pending(s))
        <5>1. secStatus' = [closed EXCEPT ![s][next] = "active"]
          BY <1>6, <4>2 DEF Moves, AdvanceSection
        <5>2. closed[t] = secStatus[t] /\ DOMAIN closed = Sids
          BY <1>1, <2>2 DEF TypeOK
        <5> HIDE DEF closed, next
        <5>3. QED
          BY <2>2, <5>1, <5>2
      <4>3. QED
        BY <4>1, <4>2
    <3>2. QED
      BY <1>3, <1>4, <1>6, <3>1 DEF StatusKept
  <2>3. QED
    BY <2>1, <2>2
<1>7. CASE StatusKept /\ UNCHANGED secStatus
  BY <1>3, <1>4, <1>7 DEF StatusKept
<1>8. QED
  BY <1>1, <1>5, <1>6, <1>7, SectionShape

\* Sections are taken in order, one at a time, and none before the start.
THEOREM SectionsOrdered == Spec => []SectionsInOrder
<1>1. SectionInv => SectionsInOrder
  BY DEF SectionInv
<1>2. QED
  BY <1>1, SectionInit, SectionStep, PTL DEF Spec

-----------------------------------------------------------------------------
(* The expiry sweep *)

\* A sweep judges by an instant that is past: its listing can only be late.
SweepIsLate == sweep.now <= clock

LEMMA SweepIsLateInit == Init => SweepIsLate
BY DEF Init, SweepIsLate

LEMMA SweepIsLateStep ==
    ASSUME TypeOK, SweepIsLate, [Next]_vars
    PROVE  SweepIsLate'
<1> USE DEF SweepIsLate
<1>1. clock \in Nat /\ sweep.now \in Nat
  BY DEF TypeOK
<1>2. ASSUME UNCHANGED <<clock, sweep>> PROVE SweepIsLate'
  BY <1>2
<1>3. ASSUME NEW r \in Regs, CheckIn(r) PROVE SweepIsLate'
  BY <1>2, <1>3 DEF CheckIn
<1>4. ASSUME NEW w \in Workers, Handle(w) PROVE SweepIsLate'
  BY <1>2, <1>4
     DEF Handle, BeginStart, CreateSession, RefuseStart, BeginSave, CommitSave,
         BeginAdvance, CommitAdvance, BeginSubmit, CommitSubmit, Drop
<1>5. ASSUME NEW s \in Sids, NEW m \in Extensions, Reopen(s, m) PROVE SweepIsLate'
  BY <1>2, <1>5 DEF Reopen
<1>6. CASE Sweep
  <2>1. CASE SweepList
    BY <1>1, <2>1 DEF SweepList
  <2>2. CASE SweepEnd
    BY <1>1, <2>2 DEF SweepEnd
  <2>3. ASSUME NEW c \in Candidates, Expire(c) \/ SkipCandidate(c) PROVE SweepIsLate'
    <3>1. clock' = clock /\ Taken(c)
      BY <2>3 DEF Expire, ExpireStandard, ExpireSection, SkipCandidate
    <3>2. sweep'.now = sweep.now
      BY <3>1 DEF Taken, TypeOK
    <3>3. QED
      BY <3>1, <3>2
  <2>4. QED
    BY <1>6, <2>1, <2>2, <2>3 DEF Sweep
<1>7. CASE Tick
  BY <1>1, <1>7 DEF Tick
<1>8. CASE UNCHANGED vars
  BY <1>2, <1>8 DEF vars
<1>9. QED
  BY <1>3, <1>4, <1>5, <1>6, <1>7, <1>8 DEF Next

\* Due at the sweep's instant is due now, extensions included.
LEMMA DueStaysDue ==
    ASSUME TypeOK, SweepIsLate, NEW s \in Sids
    PROVE  /\ StandardDue(s, sweep.now) => clock >= Deadline(startedAt[s], extendedUntil[s])
           /\ \A sec \in Sections :
                SectionDue(s, sec, sweep.now)
                  => clock >= Deadline(secStart[s][sec], secExtended[s][sec])
<1>1. /\ clock \in Nat /\ sweep.now \in Nat
      /\ Duration \in Nat /\ Grace \in Nat
      /\ startedAt[s] \in Nat /\ extendedUntil[s] \in Nat
      /\ \A sec \in Sections : secStart[s][sec] \in Nat /\ secExtended[s][sec] \in Nat
  BY ConstantsOK DEF TypeOK, ConstantsOK
<1>2. \A a, b \in Nat : Deadline(a, b) \in Nat
  BY <1>1 DEF Deadline, Later
<1>3. \A a, b \in Nat : sweep.now >= Deadline(a, b) => clock >= Deadline(a, b)
  <2>1. sweep.now <= clock
    BY DEF SweepIsLate
  <2>2. \A d \in Nat : sweep.now >= d => clock >= d
    BY <1>1, <2>1
  <2>3. QED
    BY <1>2, <2>2
<1>4. StandardDue(s, sweep.now) => clock >= Deadline(startedAt[s], extendedUntil[s])
  BY <1>1, <1>3 DEF StandardDue
<1>5. ASSUME NEW sec \in Sections, SectionDue(s, sec, sweep.now)
      PROVE  clock >= Deadline(secStart[s][sec], secExtended[s][sec])
  <2>1. sweep.now >= Deadline(secStart[s][sec], secExtended[s][sec])
    BY <1>5 DEF SectionDue
  <2>2. QED
    BY <1>1, <1>3, <2>1
<1>6. QED
  BY <1>4, <1>5

\* What closes when the sweep advances past a section is that section.
LEMMA AdvanceCloses ==
    ASSUME TypeOK, NEW s \in Sids, NEW sec \in Sections, AdvanceSection(s, sec),
           NEW t \in Sids, NEW other \in Sections,
           secStatus[t][other] = "active", secStatus'[t][other] = "submitted"
    PROVE  t = s /\ other = sec
<1> DEFINE closed == [secStatus EXCEPT ![s][sec] = "submitted"]
<1>1. /\ closed \in [Sids -> [Sections -> {"pending", "active", "submitted"}]]
      /\ \A x \in Sids, y \in Sections : x # s \/ y # sec => closed[x][y] = secStatus[x][y]
  BY NestedExcept DEF TypeOK
<1>2. secStatus' = closed \/ secStatus' = [closed EXCEPT ![s][Lowest(Pending(s))] = "active"]
  BY DEF AdvanceSection
<1> HIDE DEF closed
<1>3. \A x \in Sids, y \in Sections :
        secStatus'[x][y] = closed[x][y] \/ secStatus'[x][y] = "active"
  BY <1>1, <1>2
<1>4. closed[t][other] = "submitted"
  BY <1>3
<1>5. QED
  BY <1>1, <1>4

\* The sweep's own steps are the only ones that close anything and move no request.
LEMMA ExpiryStep ==
    ASSUME TypeOK, SweepIsLate, [Next]_vars, req' = req, NEW s \in Sids
    PROVE  /\ status[s] = "in_progress" /\ status'[s] = "submitted" /\ ~Sectioned
                => clock >= Deadline(startedAt[s], extendedUntil[s])
           /\ \A sec \in Sections :
                secStatus[s][sec] = "active" /\ secStatus'[s][sec] = "submitted"
                  => clock >= Deadline(secStart[s][sec], secExtended[s][sec])
<1> DEFINE Respected ==
           /\ status[s] = "in_progress" /\ status'[s] = "submitted" /\ ~Sectioned
                => clock >= Deadline(startedAt[s], extendedUntil[s])
           /\ \A sec \in Sections :
                secStatus[s][sec] = "active" /\ secStatus'[s][sec] = "submitted"
                  => clock >= Deadline(secStart[s][sec], secExtended[s][sec])
<1>1. ASSUME UNCHANGED <<status, secStatus>> PROVE Respected
  BY <1>1
<1>2. ASSUME NEW w \in Workers, Handle(w) PROVE Respected
  <2>1. ASSUME Reply(w) PROVE Free(w)
    <3>1. req'[w] = Idle
      BY <2>1 DEF Reply, TypeOK
    <3>2. QED
      BY <3>1 DEF Free
  <2>2. Free(w) => ~Asks(w, "start") /\ ~Asks(w, "advance") /\ ~Asks(w, "submit")
    BY DEF Free, Asks, Idle
  <2>3. CASE CreateSession(w) \/ CommitAdvance(w) \/ CommitSubmit(w)
    BY <2>1, <2>2, <2>3 DEF CreateSession, CommitAdvance, CommitSubmit
  <2>4. CASE RefuseStart(w) \/ CommitSave(w) \/ Drop(w)
    BY <1>1, <2>4 DEF RefuseStart, CommitSave, Drop, sessionVars, sectionVars
  <2>5. CASE \/ \E r \in Regs : BeginStart(w, r)
             \/ \E t \in Sids, qn \in Questions, v \in Values : BeginSave(w, t, qn, v)
             \/ \E t \in Sids, sec \in Sections : BeginAdvance(w, t, sec)
             \/ \E t \in Sids : BeginSubmit(w, t)
    BY <1>1, <2>5 DEF BeginStart, BeginSave, BeginAdvance, BeginSubmit, sessionVars, sectionVars
  <2>6. QED
    BY <1>2, <2>3, <2>4, <2>5 DEF Handle
<1>3. ASSUME NEW c \in Candidates, ExpireStandard(c) PROVE Respected
  <2>1. c[1] \in Sids
    BY DEF Candidates
  <2>2. secStatus' = secStatus
    BY <1>3 DEF ExpireStandard, sectionVars
  <2>3. status'[s] # status[s] => s = c[1]
    BY <1>3, <2>1 DEF ExpireStandard, Finalize, TypeOK
  <2>4. StandardDue(c[1], sweep.now)
    BY <1>3 DEF ExpireStandard
  <2>5. QED
    BY <2>1, <2>2, <2>3, <2>4, DueStaysDue
<1>4. ASSUME NEW c \in Candidates, ExpireSection(c) PROVE Respected
  <2>1. c[1] \in Sids /\ c[2] \in Sections
    BY <1>4 DEF Candidates, ExpireSection
  <2>2. Sectioned
    BY <2>1, ConstantsOK DEF Sectioned, Sections, ConstantsOK
  <2>3. AdvanceSection(c[1], c[2]) /\ SectionDue(c[1], c[2], sweep.now)
    BY <1>4 DEF ExpireSection
  <2>4. ASSUME NEW sec \in Sections,
               secStatus[s][sec] = "active", secStatus'[s][sec] = "submitted"
        PROVE  s = c[1] /\ sec = c[2]
    BY <2>1, <2>3, <2>4, AdvanceCloses
  <2>5. QED
    BY <2>1, <2>2, <2>3, <2>4, DueStaysDue
<1>5. ASSUME NEW r \in Regs, CheckIn(r) PROVE Respected
  BY <1>1, <1>5 DEF CheckIn, sessionVars, sectionVars
<1>6. ASSUME NEW t \in Sids, NEW m \in Extensions, Reopen(t, m) PROVE Respected
  BY <1>1, <1>6 DEF Reopen
<1>7. CASE Sweep
  <2>1. CASE SweepList \/ SweepEnd \/ \E c \in Candidates : SkipCandidate(c)
    BY <1>1, <2>1 DEF SweepList, SweepEnd, SkipCandidate, sessionVars, sectionVars
  <2>2. QED
    BY <1>3, <1>4, <1>7, <2>1 DEF Sweep, Expire
<1>8. CASE Tick \/ UNCHANGED vars
  BY <1>1, <1>8 DEF Tick, vars, sessionVars, sectionVars
<1>9. QED
  BY <1>2, <1>5, <1>6, <1>7, <1>8 DEF Next

\* The sweep never closes a session or a section before its deadline, whatever
\* was reopened after it was listed and however late the sweep comes.
THEOREM NeverEarly == Spec => ExpiryRespectsDeadline
<1>1. TypeOK /\ SweepIsLate /\ [Next]_vars
        => [req' = req =>
              \A s \in Sids :
                /\ status[s] = "in_progress" /\ status'[s] = "submitted" /\ ~Sectioned
                     => clock >= Deadline(startedAt[s], extendedUntil[s])
                /\ \A sec \in Sections :
                     secStatus[s][sec] = "active" /\ secStatus'[s][sec] = "submitted"
                       => clock >= Deadline(secStart[s][sec], secExtended[s][sec])]_vars
  BY ExpiryStep
<1>2. Spec => []SweepIsLate
  BY SweepIsLateInit, SweepIsLateStep, TypeCorrect, PTL DEF Spec
<1>3. QED
  BY <1>1, <1>2, TypeCorrect, PTL DEF Spec, ExpiryRespectsDeadline

=============================================================================
