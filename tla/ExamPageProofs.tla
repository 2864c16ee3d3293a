---------------------------- MODULE ExamPageProofs ----------------------------
(***************************************************************************)
(* The exam page forgets no answer, says "saved" of nothing that is not,   *)
(* submits and closes only what is stored: for every set of questions and  *)
(* of sections, however many edits, visits and saves under way.            *)
(***************************************************************************)
EXTENDS ExamPage, TLAPS

Sitting == screen \in {"exam", "result"}

\* q's section comes after the one named; q's section is open, or still to come.
Later(q, section) == section > 0 /\ SectionOf[q] > section
Ahead(q)          == cache.section = 0 \/ SectionOf[q] >= cache.section

\* A copy of the session holds nothing the row did not, or there is no copy.
BehindRow(snap, row, stored, queued) ==
    \/ snap = NoSnapshot
    \/ /\ snap.status # "none" /\ snap.section <= row.section
       /\ snap.section = 0 <=> row.section = 0
       /\ snap.status = "submitted" => row.status = "submitted"
       /\ \A q \in Questions : snap.answers[q] <= stored[q]
       /\ \A q \in Questions : queued[q] > 0 => ~Later(q, snap.section)

Behind(snap) == BehindRow(snap, server, best, queue)

\* What a save under way brings to the server, seen from the page that sent it.
Carries(s) ==
    /\ s.edit <= edits
    /\ \A q \in Questions : s.acks[q] <= s.load[q]
    /\ s.snap \/ s.from \in Flows \cup {"flush"} => Sitting
    /\ s.from = "flush" => s.load = answers /\ expired /\ cache.section = 0
    /\ s.from = "expiry" => cache.section > 0
    /\ s.from \in Presses => /\ stage[s.from] = "draining"
                             /\ \A q \in Questions : \/ pressed[s.from][q] <= best[q]
                                                     \/ pressed[s.from][q] <= s.load[q]
    /\ s.snap /\ s.edit = edits =>
         \A q \in Questions : Ahead(q) => answers[q] <= s.load[q] \/ answers[q] <= best[q]

Saves(c) == {c[i] : i \in DOMAIN c}

SavesCarry == \A s \in Saves(chain) : Carries(s)

\* A press has one barrier at a time.
OnePress(c) == \A i, j \in DOMAIN c : c[i].from \in Presses /\ c[j].from = c[i].from => i = j

\* The copies of the session follow the row.
CopiesFollow ==
    /\ server.status # "none" /\ \A q \in Questions : server.answers[q] <= best[q]
    /\ \A q \in Questions : queue[q] > 0 => ~Later(q, server.section)
    /\ Behind(cache) /\ Behind(fetch) /\ (screen # "loading" => fetch = NoSnapshot)
    /\ Sitting => cache # NoSnapshot
    /\ screen = "result" => server.status = "submitted"

\* The queue holds the newest edits, and the page shows nothing older.
QueueIsNewest ==
    /\ \A q \in Questions : queue[q] \in {0, typed[q]} /\ typed[q] <= edits
    /\ Sitting => \A q \in Questions : queue[q] <= answers[q]

\* What the exam shows of its open sections is stored, queued or volatile.
ShownIsKept ==
    /\ volatile => Sitting
    /\ Sitting => \A q \in Questions : Later(q, cache.section) => answers[q] <= best[q]
    /\ screen = "exam" /\ ~volatile =>
         \A q \in Questions : Ahead(q) => answers[q] <= best[q] \/ queue[q] = answers[q]

\* What the two flows have made sure of.
FlowsKeep ==
    /\ fired => expired /\ Sitting /\ target \in {0, cache.section}
    /\ stage["expiry"] = "advancing" => target \in 1..NumSections
    /\ stage["expiry"] = "advancing" /\ fired => \A q \in Scope(target) : answers[q] <= best[q]
    /\ stage["expiry"] = "idle" => target \in {0, Closed}
    /\ target # 0 => Sitting
    /\ target = Closed => cache.section = Closed
    /\ \A p \in Presses : stage[p] = "posting" => \A q \in Questions : pressed[p][q] <= best[q]
    /\ \A f \in Flows : stage[f] # "idle" => Sitting
    /\ failed => Sitting
    /\ cache.section = 0 /\ (failed \/ stage["expiry"] # "idle") => expired

PageInv ==
    /\ TypeOK /\ SavesCarry /\ OnePress(chain) /\ CopiesFollow
    /\ QueueIsNewest /\ ShownIsKept /\ FlowsKeep
    /\ NothingForgotten /\ SavedMeansStored

-----------------------------------------------------------------------------
(* Lemmas about the saves of the chain *)

LEMMA Bounds ==
    /\ NumSections \in Nat /\ EditBound \in Nat /\ VisitBound \in Nat /\ Closed \in Nat
    /\ Closed = NumSections + 1 /\ 0 \in 0..Closed /\ 1 \in Positions /\ Positions \subseteq Nat
    /\ \A q \in Questions : SectionOf[q] \in Nat /\ 0 < SectionOf[q] /\ SectionOf[q] < Closed
    /\ None \in Answers /\ \A q \in Questions : None[q] = 0
    /\ NoSnapshot \in Snapshot /\ NoSnapshot.status = "none" /\ NoSnapshot.section = 0
    /\ \A e \in Edits : e \in Nat
    /\ \A p \in Presses : p \notin {"auto", "reconcile", "flush", "orphan", "expiry"}
    /\ "expiry" \in Flows /\ \A f \in Flows : f \in Presses \/ f = "expiry"
BY PageConstants DEF Flows, Closed, None, Answers, Edits, NoSnapshot, Snapshot

LEMMA AnswersAreNat == ASSUME NEW f \in Answers, NEW q \in Questions PROVE f[q] \in Edits /\ f[q] \in Nat
BY Bounds DEF Answers

LEMMA SaveFields ==
    ASSUME NEW s \in Save
    PROVE  /\ s.load \in Answers /\ s.acks \in Answers /\ s.at \in Positions /\ s.edit \in Edits
           /\ s.snap \in BOOLEAN /\ s.moves \in BOOLEAN /\ s.newest \in BOOLEAN
           /\ s.from \in {"auto", "reconcile", "flush", "orphan"} \cup Flows
           /\ \A q \in Questions : s.load[q] \in Nat /\ s.acks[q] \in Nat
BY AnswersAreNat DEF Save

LEMMA AppendSaves ==
    ASSUME NEW c \in Seq(Save), NEW s \in Save, OnePress(c),
           s.from \in Presses => \A t \in Saves(c) : t.from # s.from
    PROVE  /\ Append(c, s) \in Seq(Save) /\ Saves(Append(c, s)) = Saves(c) \cup {s}
           /\ OnePress(Append(c, s))
<1> DEFINE d == Append(c, s)
           n == Len(c)
<1>1. /\ d \in Seq(Save) /\ DOMAIN d = 1..(n + 1) /\ DOMAIN c = 1..n /\ n \in Nat
      /\ d[n + 1] = s
  OBVIOUS
<1>8. \A i \in 1..n : d[i] = c[i]
  OBVIOUS
<1> HIDE DEF d, n
<1>9. \A i \in 1..(n + 1) : i = n + 1 \/ i \in 1..n
  BY <1>1
<1>2. \A i \in DOMAIN d : (i = n + 1 /\ d[i] = s) \/ (i \in DOMAIN c /\ d[i] = c[i])
  BY ONLY <1>1, <1>8, <1>9
<1>3. \A i \in DOMAIN c : i \in DOMAIN d /\ d[i] = c[i]
  BY ONLY <1>1, <1>8
<1>4. n + 1 \in DOMAIN d /\ d[n + 1] = s
  BY <1>1
<1>5. Saves(d) = Saves(c) \cup {s}
  BY <1>2, <1>3, <1>4 DEF Saves
<1>6. OnePress(d)
  <2> SUFFICES ASSUME NEW i \in DOMAIN d, NEW j \in DOMAIN d,
                      d[i].from \in Presses, d[j].from = d[i].from
               PROVE  i = j
    BY DEF OnePress
  <2>1. CASE s.from \in Presses
    BY <1>2, <2>1 DEF Saves, OnePress
  <2>2. CASE s.from \notin Presses
    BY <1>2, <2>2 DEF OnePress
  <2>3. QED
    BY <2>1, <2>2
<1>7. QED
  BY <1>1, <1>5, <1>6 DEF d

LEMMA TailSaves ==
    ASSUME NEW c \in Seq(Save), c # <<>>, OnePress(c)
    PROVE  /\ Head(c) \in Save /\ Head(c) \in Saves(c)
           /\ Tail(c) \in Seq(Save) /\ Saves(Tail(c)) \subseteq Saves(c) /\ OnePress(Tail(c))
           /\ Head(c).from \in Presses => \A t \in Saves(Tail(c)) : t.from # Head(c).from
<1>1. /\ Len(c) \in Nat /\ Len(c) > 0 /\ DOMAIN c = 1..Len(c) /\ Head(c) = c[1] /\ c[1] \in Save
      /\ Tail(c) \in Seq(Save) /\ DOMAIN Tail(c) = 1..(Len(c) - 1)
      /\ \A i \in 1..(Len(c) - 1) : Tail(c)[i] = c[i + 1]
  OBVIOUS
<1> DEFINE d == Tail(c)
<1> HIDE DEF d
<1>2. \A i \in DOMAIN d : i \in Nat /\ i + 1 \in DOMAIN c /\ i + 1 # 1 /\ d[i] = c[i + 1]
  BY <1>1 DEF d
<1>3. 1 \in DOMAIN c
  BY <1>1
<1>4. Saves(d) \subseteq Saves(c) /\ Head(c) \in Saves(c)
  BY <1>1, <1>2, <1>3 DEF Saves
<1>5. OnePress(d)
  <2> SUFFICES ASSUME NEW i \in DOMAIN d, NEW j \in DOMAIN d,
                      d[i].from \in Presses, d[j].from = d[i].from
               PROVE  i = j
    BY DEF OnePress
  <2>1. i + 1 = j + 1
    BY <1>2 DEF OnePress
  <2>2. QED
    BY <1>2, <2>1
<1>6. Head(c).from \in Presses => \A t \in Saves(d) : t.from # Head(c).from
  BY <1>1, <1>2, <1>3 DEF Saves, OnePress
<1>7. QED
  BY <1>1, <1>4, <1>5, <1>6 DEF d

LEMMA JoinSaves ==
    ASSUME NEW c \in Seq(Save), NEW s \in Save
    PROVE  c \o <<>> = c /\ c \o <<s>> = Append(c, s) /\ <<s>> \o c \in Seq(Save)
OBVIOUS

\* Saves renamed one by one: superseded, or orphaned by a flow that gave up.
LEMMA RenamedSaves ==
    ASSUME NEW c \in Seq(Save), NEW d, DOMAIN d = DOMAIN c, OnePress(c),
           d = [i \in DOMAIN c |-> d[i]],
           \A i \in DOMAIN c : d[i] \in Save /\ (d[i].from \in Presses => c[i].from = d[i].from)
    PROVE  d \in Seq(Save) /\ OnePress(d) /\ Len(d) = Len(c)
<1>1. DOMAIN c = 1..Len(c) /\ Len(c) \in Nat
  OBVIOUS
<1>2. d = [i \in 1..Len(c) |-> d[i]] /\ \A i \in 1..Len(c) : d[i] \in Save
  BY <1>1
<1>3. d \in Seq(Save) /\ Len(d) = Len(c)
  BY <1>1, <1>2
<1>4. QED
  BY <1>3 DEF OnePress

LEMMA InScopeFits ==
    ASSUME NEW f \in Answers
    PROVE  /\ InScope(f) \in Answers
           /\ \A q \in Questions : InScope(f)[q] = IF q \in Scope(cache.section) THEN f[q] ELSE 0
           /\ cache.section = 0 => InScope(f) = f
BY Bounds DEF InScope, Answers, Edits, Scope

LEMMA SaveOfFits ==
    ASSUME TypeOK, NEW from \in {"auto"} \cup Flows, NEW qu \in Answers, NEW saved \in Positions,
           NEW vol \in BOOLEAN
    PROVE  LET s == SaveOf(from, qu, saved, vol)
           IN  /\ s \in Save /\ s.from = from /\ s.acks = InScope(qu) /\ s.edit = edits /\ s.snap = vol
               /\ vol => s.load = InScope(answers)
               /\ ~vol => s.load = InScope(qu)
<1>1. InScope(qu) \in Answers /\ InScope(answers) \in Answers
  BY InScopeFits DEF TypeOK
<1>2. pos \in Positions /\ edits \in Edits
  BY DEF TypeOK
<1>3. CASE vol
  BY <1>1, <1>2, <1>3 DEF SaveOf, Save
<1>4. CASE ~vol
  BY <1>1, <1>2, <1>4 DEF SaveOf, Save
<1>5. QED
  BY <1>3, <1>4

LEMMA FullSaveFits ==
    ASSUME TypeOK, NEW from \in {"reconcile", "flush"}, NEW shown \in Answers, NEW at \in Positions
    PROVE  LET s == FullSave(from, shown, at)
           IN  /\ s \in Save /\ s.from = from /\ s.acks = None /\ s.edit = edits /\ s.snap = FALSE
               /\ s.load = shown
BY Bounds DEF FullSave, Save, TypeOK

LEMMA ScopedFits ==
    ASSUME NEW f \in Answers, NEW section
    PROVE  ScopedTo(section, f) \in Answers
BY Bounds DEF ScopedTo, Answers, Edits

LEMMA ReplayFits ==
    ASSUME TypeOK, NEW section, NEW at \in Positions
    PROVE  /\ Replay(section, at) \in Seq(Save) /\ OnePress(Replay(section, at))
           /\ \A s \in Saves(Replay(section, at)) :
                s.from = "auto" /\ s.acks = s.load /\ s.edit = edits /\ s.snap = FALSE
<1> DEFINE s == [from |-> "auto", load |-> ScopedTo(section, queue), acks |-> ScopedTo(section, queue),
                 at |-> at, moves |-> FALSE, edit |-> edits, newest |-> TRUE, snap |-> FALSE]
<1>1. s \in Save /\ s.from = "auto" /\ s.acks = s.load /\ s.edit = edits /\ s.snap = FALSE
  BY ScopedFits DEF Save, TypeOK
<1>2. Replay(section, at) \in {<<>>, <<s>>}
  BY DEF Replay
<1> HIDE DEF s
<1>3. CASE Replay(section, at) = <<>>
  BY <1>3 DEF OnePress, Saves
<1>4. CASE Replay(section, at) = <<s>>
  <2>1. DOMAIN <<s>> = {1} /\ <<s>>[1] = s /\ <<s>> \in Seq(Save)
    BY <1>1
  <2>2. QED
    BY <1>1, <1>4, <2>1 DEF OnePress, Saves
<1>5. QED
  BY <1>2, <1>3, <1>4

LEMMA NotNewestFits ==
    ASSUME NEW s \in Save
    PROVE  LET t == [s EXCEPT !.newest = FALSE]
           IN  /\ t \in Save /\ t.from = s.from /\ t.acks = s.acks /\ t.load = s.load
               /\ t.edit = s.edit /\ t.snap = s.snap
BY DEF Save

LEMMA OrphanFits ==
    ASSUME NEW s \in Save
    PROVE  LET t == [s EXCEPT !.from = "orphan"]
           IN  /\ t \in Save /\ t.from = "orphan" /\ t.acks = s.acks /\ t.load = s.load
               /\ t.edit = s.edit /\ t.snap = s.snap
BY DEF Save

\* What an older save carries does not depend on whether a newer one was sent.
LEMMA SupersededSaves ==
    ASSUME NEW c \in Seq(Save), OnePress(c)
    PROVE  /\ Superseded(c) \in Seq(Save) /\ OnePress(Superseded(c))
           /\ \A t \in Saves(Superseded(c)) : \E s \in Saves(c) :
                /\ s \in Save /\ t.from = s.from /\ t.acks = s.acks /\ t.load = s.load
                /\ t.edit = s.edit /\ t.snap = s.snap
<1> DEFINE d == Superseded(c)
<1>1. DOMAIN d = DOMAIN c /\ d = [i \in DOMAIN c |-> d[i]]
  BY DEF Superseded
<1>2. \A i \in DOMAIN c : c[i] \in Save /\ d[i] = [c[i] EXCEPT !.newest = FALSE]
  BY DEF Superseded
<1> HIDE DEF d
<1>3. \A i \in DOMAIN c : /\ d[i] \in Save /\ d[i].from = c[i].from /\ d[i].acks = c[i].acks
                          /\ d[i].load = c[i].load /\ d[i].edit = c[i].edit /\ d[i].snap = c[i].snap
  BY <1>2, NotNewestFits
<1>4. d \in Seq(Save) /\ OnePress(d)
  BY <1>1, <1>3, RenamedSaves
<1>5. QED
  BY <1>1, <1>2, <1>3, <1>4 DEF Saves, d

\* The saves of a flow that stopped waiting stay, as nobody's.
Orphaned(f) == [i \in DOMAIN chain |->
                  IF chain[i].from = f THEN [chain[i] EXCEPT !.from = "orphan"] ELSE chain[i]]

LEMMA OrphanedSaves ==
    ASSUME chain \in Seq(Save), OnePress(chain), NEW f \in Flows
    PROVE  /\ Orphaned(f) \in Seq(Save) /\ OnePress(Orphaned(f))
           /\ \A t \in Saves(Orphaned(f)) : \E s \in Saves(chain) :
                /\ s \in Save /\ t.from \in {s.from, "orphan"} /\ t.acks = s.acks /\ t.load = s.load
                /\ t.edit = s.edit /\ t.snap = s.snap /\ t.from # f
<1> DEFINE d == Orphaned(f)
<1>1. DOMAIN d = DOMAIN chain /\ d = [i \in DOMAIN chain |-> d[i]]
  BY DEF Orphaned
<1>2. \A i \in DOMAIN chain :
         chain[i] \in Save /\ d[i] = IF chain[i].from = f THEN [chain[i] EXCEPT !.from = "orphan"]
                                                          ELSE chain[i]
  BY DEF Orphaned
<1> HIDE DEF d
<1>3. \A i \in DOMAIN chain :
         /\ d[i] \in Save /\ d[i].from \in {chain[i].from, "orphan"} /\ d[i].acks = chain[i].acks
         /\ d[i].load = chain[i].load /\ d[i].edit = chain[i].edit /\ d[i].snap = chain[i].snap
         /\ d[i].from # f /\ (d[i].from \in Presses => chain[i].from = d[i].from)
  <2> TAKE i \in DOMAIN chain
  <2>1. CASE chain[i].from = f
    <3>1. d[i] = [chain[i] EXCEPT !.from = "orphan"] /\ chain[i] \in Save
      BY <1>2, <2>1
    <3>2. /\ d[i] \in Save /\ d[i].from = "orphan" /\ d[i].acks = chain[i].acks
          /\ d[i].load = chain[i].load /\ d[i].edit = chain[i].edit /\ d[i].snap = chain[i].snap
      BY <3>1, OrphanFits
    <3>3. f # "orphan" /\ "orphan" \notin Presses
      BY Bounds
    <3>4. QED
      BY <3>2, <3>3
  <2>2. CASE chain[i].from # f
    BY <1>2, <2>2
  <2>3. QED
    BY <2>1, <2>2
<1>4. d \in Seq(Save) /\ OnePress(d)
  BY <1>1, <1>3, RenamedSaves
<1>5. QED
  BY <1>1, <1>2, <1>3, <1>4 DEF Saves, d

-----------------------------------------------------------------------------
(* Types *)

Stages == {"idle", "draining", "flushing", "advancing", "posting"}

FlowTypes ==
    /\ stage \in [Flows -> Stages] /\ target \in 0..Closed /\ pressed \in [Presses -> Answers]
    /\ submitting \in BOOLEAN /\ failed \in BOOLEAN
    /\ screen \in {"away", "loading", "exam", "result"} /\ queue \in Answers

ClockTypes == expired \in BOOLEAN /\ fired \in BOOLEAN /\ edits \in Edits /\ visits \in 0..VisitBound
              /\ typed \in Answers /\ answers \in Answers /\ pos \in Positions

SaveTypes ==
    /\ savedPos \in Positions /\ chain \in Seq(Save) /\ volatile \in BOOLEAN
    /\ timers \subseteq {"debounce", "retry"} /\ status \in {"saved", "saving", "unsaved"}

RowTypes == server \in Snapshot /\ cache \in Snapshot /\ fetch \in Snapshot /\ best \in Answers

LEMMA TypeParts == TypeOK <=> FlowTypes /\ ClockTypes /\ SaveTypes /\ RowTypes
BY DEF TypeOK, FlowTypes, ClockTypes, SaveTypes, RowTypes, Stages

LEMMA ToStage ==
    ASSUME FlowTypes, NEW f \in Flows, NEW next \in Stages
    PROVE  /\ [stage EXCEPT ![f] = next] \in [Flows -> Stages]
           /\ [stage EXCEPT ![f] = next][f] = next
           /\ \A g \in Flows : g # f => [stage EXCEPT ![f] = next][g] = stage[g]
BY DEF FlowTypes

\* A flow that ends forgets what it had read.
LEMMA IdleFits ==
    ASSUME FlowTypes, NEW f \in Flows, Idle(f)
    PROVE  /\ stage' \in [Flows -> Stages] /\ target' \in 0..Closed /\ pressed' \in [Presses -> Answers]
           /\ target' \in {0, target}
           /\ \A p \in Presses : pressed'[p] = IF p = f THEN None ELSE pressed[p]
           /\ stage'[f] = "idle" /\ \A g \in Flows : g # f => stage'[g] = stage[g]
           /\ f = "expiry" => target' = 0 /\ pressed' = pressed
           /\ f \in Presses => target' = target
<1>1. /\ stage' \in [Flows -> Stages] /\ stage'[f] = "idle" /\ \A g \in Flows : g # f => stage'[g] = stage[g]
  BY ToStage DEF Idle, Stages
<1>2. target' \in 0..Closed /\ target' \in {0, target} /\ (f \in Presses => target' = target)
      /\ (f = "expiry" => target' = 0)
  BY Bounds DEF Idle, FlowTypes
<1>3. /\ pressed' = [p \in Presses |-> IF p = f THEN None ELSE pressed[p]] /\ pressed \in [Presses -> Answers]
      /\ None \in Answers /\ (f = "expiry" => f \notin Presses)
  BY Bounds DEF Idle, FlowTypes
<1>4. pressed' \in [Presses -> Answers] /\ (f = "expiry" => pressed' = pressed)
  BY <1>3
<1>5. QED
  BY <1>1, <1>2, <1>3, <1>4

\* So does one that gives up, or that finds the session submitted.
LEMMA FlowFailsFits ==
    ASSUME FlowTypes, NEW f \in Flows, NEW already \in BOOLEAN, FlowFails(f, already)
    PROVE  /\ FlowTypes' /\ Idle(f)
           /\ UNCHANGED <<queue, screen>> \/ (already /\ queue' = None /\ screen' = "result")
<1>1. Idle(f)
  BY DEF FlowFails, ToResult
<1>2. stage' \in [Flows -> Stages] /\ target' \in 0..Closed /\ pressed' \in [Presses -> Answers]
  BY <1>1, IdleFits
<1>3. UNCHANGED <<queue, screen>> \/ (already /\ queue' = None /\ screen' = "result")
  BY DEF FlowFails, ToResult
<1>4. queue' \in Answers /\ screen' \in {"away", "loading", "exam", "result"}
  BY <1>3, Bounds DEF FlowTypes
<1>5. submitting' \in BOOLEAN /\ failed' \in BOOLEAN
  BY DEF FlowFails, FlowTypes
<1>6. QED
  BY <1>1, <1>2, <1>3, <1>4, <1>5 DEF FlowTypes

LEMMA StoredFits ==
    ASSUME NEW s \in Save, server \in Snapshot, best \in Answers,
           server' = Stored(s), best' = [q \in Questions |-> Newer(best[q], server'.answers[q])]
    PROVE  /\ server' \in Snapshot /\ best' \in Answers
           /\ server'.status = server.status /\ server'.section = server.section
           /\ \A q \in Questions : /\ server'.answers[q] = (IF s.load[q] > 0 THEN s.load[q] ELSE server.answers[q])
                                   /\ best'[q] \in Nat /\ best[q] <= best'[q]
                                   /\ server'.answers[q] <= best'[q] /\ s.load[q] <= best'[q]
<1> DEFINE a == [q \in Questions |-> IF s.load[q] > 0 THEN s.load[q] ELSE server.answers[q]]
           p == IF s.moves THEN s.at ELSE server.pos
<1>1. /\ s.load \in Answers /\ server.answers \in Answers /\ s.at \in Positions
      /\ server.pos \in Positions /\ server.status \in {"none", "in_progress", "submitted"}
      /\ server.section \in 0..Closed
  BY SaveFields DEF Snapshot
<1>2. a \in Answers /\ p \in Positions
  BY <1>1, Bounds, AnswersAreNat DEF Answers
<1>3. server = [status |-> server.status, section |-> server.section,
                answers |-> server.answers, pos |-> server.pos]
  BY DEF Snapshot
<1>4. server' = [status |-> server.status, section |-> server.section, answers |-> a, pos |-> p]
  BY <1>3 DEF Stored
<1>5. server' \in Snapshot /\ server'.answers = a /\ server'.status = server.status
      /\ server'.section = server.section
  BY <1>1, <1>2, <1>4 DEF Snapshot
<1> HIDE DEF a, p
<1>6. \A q \in Questions : /\ a[q] \in Edits /\ a[q] \in Nat /\ best[q] \in Edits /\ best[q] \in Nat
                           /\ best'[q] = Newer(best[q], a[q])
  BY <1>2, <1>5, AnswersAreNat
<1>7. \A q \in Questions : best'[q] \in Edits /\ best'[q] \in Nat /\ best[q] <= best'[q] /\ a[q] <= best'[q]
  BY <1>6 DEF Newer
<1>8. best' \in Answers
  BY <1>7 DEF Answers
<1>9. \A q \in Questions : /\ s.load[q] \in Nat /\ (s.load[q] > 0 => a[q] = s.load[q])
                           /\ a[q] = (IF s.load[q] > 0 THEN s.load[q] ELSE server.answers[q])
  BY SaveFields DEF a
<1>10. \A q \in Questions : s.load[q] <= best'[q]
  BY <1>7, <1>9
<1>11. QED
  BY <1>5, <1>7, <1>8, <1>9, <1>10

LEMMA SnapshotMoves ==
    ASSUME NEW s \in Snapshot
    PROVE  /\ [s EXCEPT !.status = "submitted"] \in Snapshot
           /\ s.section < Closed =>
                /\ [s EXCEPT !.section = @ + 1] \in Snapshot
                /\ \A st \in {"none", "in_progress", "submitted"} :
                     [s EXCEPT !.section = @ + 1, !.status = st] \in Snapshot
<1>1. /\ s.status \in {"none", "in_progress", "submitted"} /\ s.section \in 0..Closed
      /\ s.answers \in Answers /\ s.pos \in Positions
      /\ s = [status |-> s.status, section |-> s.section, answers |-> s.answers, pos |-> s.pos]
  BY DEF Snapshot
<1>2. [s EXCEPT !.status = "submitted"] \in Snapshot
  BY DEF Snapshot
<1>3. ASSUME s.section < Closed PROVE s.section + 1 \in 0..Closed
  BY <1>1, <1>3, Bounds
<1>4. ASSUME s.section < Closed, NEW st \in {"none", "in_progress", "submitted"}
      PROVE  [s EXCEPT !.section = @ + 1, !.status = st] \in Snapshot
  BY <1>1, <1>3, <1>4 DEF Snapshot
<1>5. ASSUME s.section < Closed PROVE [s EXCEPT !.section = @ + 1] \in Snapshot
  BY <1>1, <1>3, <1>5 DEF Snapshot
<1>6. QED
  BY <1>2, <1>4, <1>5

LEMMA AckedQueueFits ==
    ASSUME queue \in Answers, volatile \in BOOLEAN, NEW s \in Save
    PROVE  /\ AckedQueue(s) \in Answers /\ VolatileAfter(s) \in BOOLEAN
           /\ \A q \in Questions : AckedQueue(s)[q] = IF s.acks[q] = queue[q] THEN 0 ELSE queue[q]
BY Bounds DEF AckedQueue, Answers, Edits, VolatileAfter

LEMMA AfterDrainFits ==
    ASSUME NEW f \in Flows, NEW section \in 0..Closed
    PROVE  /\ AfterDrain(f, section) \in {"posting", "advancing", "idle"}
           /\ f \in Presses => AfterDrain(f, section) = "posting"
           /\ AfterDrain("expiry", section) = "advancing" => section \in 1..NumSections
           /\ AfterDrain("expiry", section) = "idle" => section \in {0, Closed}
           /\ AfterDrain("expiry", section) # "posting"
<1>1. f \in Presses => AfterDrain(f, section) = "posting"
  BY DEF AfterDrain
<1>2. AfterDrain("expiry", section) = IF section \in 1..NumSections THEN "advancing" ELSE "idle"
  BY Bounds DEF AfterDrain
<1>3. section \notin 1..NumSections => section \in {0, Closed}
  BY Bounds
<1>4. QED
  BY <1>1, <1>2, <1>3, Bounds

\* What a settled save leaves in the chain.
LEMMA IssueOnlyFits ==
    ASSUME chain \in Seq(Save), chain # <<>>, OnePress(chain), NEW saves,
           \/ saves = <<>>
           \/ \E s \in Save : saves = <<s>> /\ s.from = Head(chain).from,
           IssueOnly(saves)
    PROVE  /\ chain' \in Seq(Save) /\ OnePress(chain')
           /\ saves = <<>> => chain' = Tail(chain)
           /\ \A s \in Save : saves = <<s>> => Saves(chain') = Saves(Tail(chain)) \cup {s}
<1>1. /\ Head(chain) \in Save /\ Tail(chain) \in Seq(Save) /\ OnePress(Tail(chain))
      /\ Head(chain).from \in Presses => \A t \in Saves(Tail(chain)) : t.from # Head(chain).from
  BY TailSaves
<1> DEFINE c == Tail(chain)
<1>2. chain' = c \o saves
  BY DEF IssueOnly
<1>3. CASE saves = <<>>
  BY <1>1, <1>2, <1>3, JoinSaves
<1>4. ASSUME NEW s \in Save, saves = <<s>>, s.from = Head(chain).from
      PROVE  chain' \in Seq(Save) /\ OnePress(chain') /\ Saves(chain') = Saves(c) \cup {s}
  <2>1. chain' = Append(c, s)
    BY <1>1, <1>2, <1>4, JoinSaves
  <2>2. s.from \in Presses => \A t \in Saves(c) : t.from # s.from
    BY <1>1, <1>4
  <2> HIDE DEF c
  <2>3. c \in Seq(Save) /\ OnePress(c)
    BY <1>1 DEF c
  <2>4. QED
    BY <2>1, <2>2, <2>3, AppendSaves, Bounds
<1>5. \A s \in Save : saves = <<s>> => saves # <<>>
  OBVIOUS
<1>6. \A s, t \in Save : <<s>> = <<t>> => s = t
  OBVIOUS
<1>7. QED
  BY <1>3, <1>4, <1>5, <1>6

\* The types after a save is settled.
SettledTypes == FlowTypes' /\ savedPos' \in Positions /\ chain' \in Seq(Save) /\ volatile' \in BOOLEAN
                /\ timers' \subseteq {"debounce", "retry"}
                /\ status' \in {"saved", "saving", "unsaved"} /\ OnePress(chain')

\* The save a barrier goes round with.
NextRound(s) == SaveOf(s.from, AckedQueue(s), s.at, VolatileAfter(s))

LEMMA NextRoundFits ==
    ASSUME TypeOK, NEW s \in Save, s.from \in Flows
    PROVE  /\ NextRound(s) \in Save /\ NextRound(s).from = s.from /\ NextRound(s).edit = edits
           /\ NextRound(s).acks = InScope(AckedQueue(s)) /\ NextRound(s).snap = VolatileAfter(s)
           /\ VolatileAfter(s) => NextRound(s).load = InScope(answers)
           /\ ~VolatileAfter(s) => NextRound(s).load = InScope(AckedQueue(s))
<1>1. AckedQueue(s) \in Answers /\ VolatileAfter(s) \in BOOLEAN /\ s.at \in Positions
  BY AckedQueueFits, SaveFields DEF TypeOK
<1>2. s.from \in {"auto"} \cup Flows
  OBVIOUS
<1>3. InScope(AckedQueue(s)) \in Answers /\ InScope(answers) \in Answers
  BY <1>1, InScopeFits DEF TypeOK
<1>4. pos \in Positions /\ edits \in Edits
  BY DEF TypeOK
<1>5. CASE VolatileAfter(s)
  BY <1>1, <1>2, <1>3, <1>4, <1>5 DEF NextRound, SaveOf, Save
<1>6. CASE ~VolatileAfter(s)
  BY <1>1, <1>2, <1>3, <1>4, <1>6 DEF NextRound, SaveOf, Save
<1>7. QED
  BY <1>5, <1>6

LEMMA SettleFits ==
    ASSUME TypeOK, chain # <<>>, OnePress(chain), NEW ok \in BOOLEAN, Settles(Head(chain), ok)
    PROVE  SettledTypes
<1> DEFINE s == Head(chain)
<1>1. s \in Save /\ s.at \in Positions /\ AckedQueue(s) \in Answers /\ VolatileAfter(s) \in BOOLEAN
  BY TailSaves, SaveFields, AckedQueueFits DEF TypeOK
<1>2. FlowTypes /\ SaveTypes /\ pos \in Positions
  BY TypeParts DEF TypeOK
<1>3. IssueOnly(<<>>) => chain' \in Seq(Save) /\ OnePress(chain')
  BY <1>2, IssueOnlyFits DEF SaveTypes
<1> HIDE DEF s
<1>4. ASSUME UNCHANGED <<screen, flowVars, failed>>, queue' \in Answers PROVE FlowTypes'
  BY <1>2, <1>4 DEF FlowTypes, flowVars
<1>5. ASSUME AutoAcked(s) PROVE SettledTypes
  <2>1. FlowTypes'
    BY <1>1, <1>4, <1>5 DEF AutoAcked
  <2>2. savedPos' \in Positions /\ status' \in {"saved", "saving", "unsaved"}
    BY <1>1, <1>2, <1>5 DEF AutoAcked, SaveTypes
  <2>3. QED
    BY <1>1, <1>2, <1>3, <1>5, <2>1, <2>2 DEF AutoAcked, SaveTypes, SettledTypes
<1>6. ASSUME AutoFailed(s) PROVE SettledTypes
  <2>1. FlowTypes'
    BY <1>2, <1>4, <1>6 DEF AutoFailed, FlowTypes
  <2>2. timers' \subseteq {"debounce", "retry"} /\ status' \in {"saved", "saving", "unsaved"}
    BY <1>2, <1>6 DEF AutoFailed, SaveTypes
  <2>3. QED
    BY <1>2, <1>3, <1>6, <2>1, <2>2 DEF AutoFailed, SaveTypes, SettledTypes
<1>7. ASSUME ReconcileAcked(s) PROVE SettledTypes
  <2>1. FlowTypes'
    BY <1>2, <1>4, <1>7 DEF ReconcileAcked, FlowTypes
  <2>2. QED
    BY <1>2, <1>3, <1>7, <2>1 DEF ReconcileAcked, SaveTypes, SettledTypes
<1>8. ASSUME ReconcileFailed(s) PROVE SettledTypes
  <2>1. FlowTypes'
    BY <1>2, <1>4, <1>8 DEF ReconcileFailed, FlowTypes
  <2>2. QED
    BY <1>2, <1>3, <1>8, <2>1 DEF ReconcileFailed, SaveTypes, SettledTypes
<1>9. ASSUME s.from \in Flows, BarrierAcked(s) PROVE SettledTypes
  <2>1. /\ queue' \in Answers /\ volatile' \in BOOLEAN /\ savedPos' \in Positions
        /\ UNCHANGED <<screen, timers, submitting, failed>>
    BY <1>1, <1>9 DEF BarrierAcked
  <2>2. CASE Holds(AckedQueue(s)) \/ VolatileAfter(s)
    <3>1. IssueOnly(<<NextRound(s)>>) /\ UNCHANGED <<status, stage, target, pressed>>
      BY <1>9, <2>2 DEF BarrierAcked, NextRound
    <3>2. NextRound(s) \in Save /\ NextRound(s).from = s.from
      BY <1>1, <1>9, NextRoundFits
    <3>3. chain' \in Seq(Save) /\ OnePress(chain')
      BY <1>2, <3>1, <3>2, IssueOnlyFits DEF SaveTypes, s
    <3>4. FlowTypes'
      BY <1>2, <2>1, <3>1 DEF FlowTypes
    <3>5. QED
      BY <1>2, <2>1, <3>1, <3>3, <3>4 DEF SaveTypes, SettledTypes
  <2>3. CASE ~(Holds(AckedQueue(s)) \/ VolatileAfter(s))
    <3>1. IssueOnly(<<>>) /\ status' = "saved" /\ Moves(s.from, AfterDrain(s.from, target))
      BY <1>9, <2>3 DEF BarrierAcked
    <3>2. AfterDrain(s.from, target) \in Stages
      BY <1>2, <1>9, AfterDrainFits DEF FlowTypes, Stages
    <3>3. stage' \in [Flows -> Stages] /\ UNCHANGED <<target, pressed>>
      BY <1>2, <1>9, <3>1, <3>2, ToStage DEF Moves
    <3>4. FlowTypes'
      BY <1>2, <2>1, <3>3 DEF FlowTypes
    <3>5. QED
      BY <1>2, <1>3, <2>1, <3>1, <3>4 DEF SaveTypes, SettledTypes
  <2>4. QED
    BY <2>2, <2>3
<1>10. ASSUME s.from \in Flows, BarrierFailed(s) PROVE SettledTypes
  <2>1. FlowTypes'
    BY <1>2, <1>10, FlowFailsFits DEF BarrierFailed
  <2>2. QED
    BY <1>2, <1>3, <1>10, <2>1 DEF BarrierFailed, SaveTypes, SettledTypes
<1>11. ASSUME FlushAcked(s) PROVE SettledTypes
  <2>1. stage' \in [Flows -> Stages] /\ UNCHANGED <<target, pressed>>
    BY <1>2, <1>11, ToStage DEF FlushAcked, Moves, Flows, Stages
  <2>2. FlowTypes'
    BY <1>2, <1>11, <2>1, Bounds DEF FlushAcked, FlowTypes
  <2>3. QED
    BY <1>2, <1>3, <1>11, <2>2 DEF FlushAcked, SaveTypes, SettledTypes
<1>12. ASSUME FlushFailed(s) PROVE SettledTypes
  <2>1. UNCHANGED <<volatile, savedPos, timers, status, submitting, failed>>
    BY <1>12 DEF FlushFailed
  <2>2. CASE IssueOnly(<<>>) /\ ToResult("expiry")
    <3>1. FlowTypes'
      BY <1>2, <2>1, <2>2, IdleFits, Bounds DEF ToResult, FlowTypes, Flows
    <3>2. QED
      BY <1>2, <1>3, <2>1, <2>2, <3>1 DEF SaveTypes, SettledTypes
  <2>3. CASE IssueOnly(<<s>>) /\ UNCHANGED <<queue, screen, stage, target, pressed>>
    <3>1. FlowTypes'
      BY <1>2, <2>1, <2>3 DEF FlowTypes
    <3>2. chain' \in Seq(Save) /\ OnePress(chain')
      BY <1>1, <1>2, <2>3, IssueOnlyFits DEF SaveTypes, s
    <3>3. QED
      BY <1>2, <2>1, <3>1, <3>2 DEF SaveTypes, SettledTypes
  <2>4. CASE IssueOnly(<<>>) /\ Moves("expiry", "posting") /\ UNCHANGED <<queue, screen>>
    <3>1. stage' \in [Flows -> Stages] /\ UNCHANGED <<target, pressed>>
      BY <1>2, <2>4, ToStage DEF Moves, Flows, Stages
    <3>2. FlowTypes'
      BY <1>2, <2>1, <2>4, <3>1 DEF FlowTypes
    <3>3. QED
      BY <1>2, <1>3, <2>1, <2>4, <3>2 DEF SaveTypes, SettledTypes
  <2>5. QED
    BY <1>12, <2>2, <2>3, <2>4 DEF FlushFailed
<1>13. ASSUME IssueOnly(<<>>),
              UNCHANGED <<queue, volatile, savedPos, screen, timers, status, flowVars, failed>>
       PROVE  SettledTypes
  <2>1. FlowTypes'
    BY <1>2, <1>4, <1>13 DEF FlowTypes
  <2>2. QED
    BY <1>2, <1>3, <1>13, <2>1 DEF SaveTypes, SettledTypes
<1>14. QED
  BY <1>5, <1>6, <1>7, <1>8, <1>9, <1>10, <1>11, <1>12, <1>13 DEF Settles, s

LEMMA AttemptFits ==
    ASSUME TypeOK, OnePress(chain), AttemptSave(queue)
    PROVE  /\ chain' \in Seq(Save) /\ OnePress(chain') /\ status' \in {"saved", "saving", "unsaved"}
           /\ \/ UNCHANGED <<chain, status>>
              \/ /\ UNCHANGED chain /\ status' = "saved" /\ ~Dirty(queue, savedPos, volatile)
              \/ /\ status' = "saving"
                 /\ Saves(chain') = Saves(Superseded(chain)) \cup {SaveOf("auto", queue, savedPos, volatile)}
<1>1. CASE UNCHANGED <<chain, status>>
  BY <1>1 DEF TypeOK
<1>4. CASE ~Dirty(queue, savedPos, volatile) /\ status' = "saved" /\ UNCHANGED chain
  BY <1>4 DEF TypeOK
<1>2. CASE /\ status' = "saving"
           /\ chain' = Append(Superseded(chain), SaveOf("auto", queue, savedPos, volatile))
  <2> DEFINE s == SaveOf("auto", queue, savedPos, volatile)
             c == Superseded(chain)
  <2>1. s \in Save /\ s.from = "auto"
    BY SaveOfFits DEF TypeOK
  <2>2. c \in Seq(Save) /\ OnePress(c)
    BY SupersededSaves DEF TypeOK
  <2>3. chain' = Append(c, s)
    BY <1>2
  <2> HIDE DEF s, c
  <2>4. chain' \in Seq(Save) /\ OnePress(chain') /\ Saves(chain') = Saves(c) \cup {s}
    BY <2>1, <2>2, <2>3, AppendSaves, Bounds
  <2>5. QED
    BY <1>2, <2>4 DEF s, c
<1>3. QED
  BY <1>1, <1>2, <1>4 DEF AttemptSave

\* A flow's first save, or the next stage at once.
LEMMA StartFits ==
    ASSUME TypeOK, OnePress(chain), NEW f \in Flows, NEW section \in 0..Closed,
           StartBarrier(f, section), f \in Presses => \A t \in Saves(chain) : t.from # f
    PROVE  /\ chain' \in Seq(Save) /\ OnePress(chain') /\ status' \in {"saved", "saving", "unsaved"}
           /\ stage' \in [Flows -> Stages] /\ target' = section
           /\ \A g \in Flows : g # f => stage'[g] = stage[g]
           /\ \/ /\ stage'[f] = "draining" /\ status' = "saving"
                 /\ Saves(chain') = Saves(chain) \cup {SaveOf(f, queue, savedPos, volatile)}
              \/ /\ ~Dirty(queue, savedPos, volatile) /\ stage'[f] = AfterDrain(f, section)
                 /\ UNCHANGED chain /\ status' = "saved"
<1>1. CASE Dirty(queue, savedPos, volatile)
  <2> DEFINE s == SaveOf(f, queue, savedPos, volatile)
  <2>0. f \in {"auto"} \cup Flows /\ queue \in Answers /\ savedPos \in Positions /\ volatile \in BOOLEAN
    BY DEF TypeOK
  <2>1. s \in Save /\ s.from = f
    BY <2>0, SaveOfFits
  <2>2. chain' = Append(chain, s) /\ stage' = [stage EXCEPT ![f] = "draining"] /\ status' = "saving"
    BY <1>1 DEF StartBarrier
  <2> HIDE DEF s
  <2>3. chain' \in Seq(Save) /\ OnePress(chain') /\ Saves(chain') = Saves(chain) \cup {s}
    BY <2>1, <2>2, AppendSaves, Bounds DEF TypeOK
  <2>4. /\ stage' \in [Flows -> Stages] /\ stage'[f] = "draining"
        /\ \A g \in Flows : g # f => stage'[g] = stage[g]
    BY <2>2, ToStage, TypeParts DEF Stages
  <2>5. QED
    BY <2>2, <2>3, <2>4 DEF StartBarrier, s
<1>2. CASE ~Dirty(queue, savedPos, volatile)
  <2>1. stage' = [stage EXCEPT ![f] = AfterDrain(f, section)] /\ status' = "saved" /\ UNCHANGED chain
    BY <1>2 DEF StartBarrier
  <2>2. AfterDrain(f, section) \in Stages
    BY AfterDrainFits DEF Stages
  <2>3. /\ stage' \in [Flows -> Stages] /\ stage'[f] = AfterDrain(f, section)
        /\ \A g \in Flows : g # f => stage'[g] = stage[g]
    BY <2>1, <2>2, ToStage, TypeParts
  <2>4. QED
    BY <1>2, <2>1, <2>3 DEF StartBarrier, TypeOK
<1>3. QED
  BY <1>1, <1>2

LEMMA ShownFits ==
    ASSUME queue \in Answers, NEW snap \in Snapshot
    PROVE  Shown(snap) \in Answers /\ snap.pos \in Positions /\ snap.answers \in Answers
           /\ \A q \in Questions : Shown(snap)[q] = IF queue[q] > 0 THEN queue[q] ELSE snap.answers[q]
BY Bounds DEF Shown, Answers, Snapshot

\* The chain once a session was hydrated.
LEMMA HydrateFits ==
    ASSUME TypeOK, NEW snap \in Snapshot, NEW before \in Seq(Save), NEW after \in Seq(Save),
           OnePress(before), before = <<>> \/ after = <<>>,
           \A s \in Saves(after) : s.from \notin Presses, Hydrate(snap, before, after)
    PROVE  /\ chain' \in Seq(Save) /\ OnePress(chain') /\ answers' \in Answers
           /\ screen' \in {"exam", "result"} /\ status' \in {"saved", "saving"}
           /\ \E s \in Save : /\ s.from = "reconcile" /\ s.acks = None /\ s.edit = edits /\ s.snap = FALSE
                              /\ Saves(chain') \subseteq Saves(before) \cup Saves(after) \cup {s}
<1> DEFINE s == FullSave("reconcile", ScopedTo(snap.section, Shown(snap)), snap.pos)
<1>1. s \in Save /\ s.from = "reconcile" /\ s.acks = None /\ s.edit = edits /\ s.snap = FALSE
  <2>1. Shown(snap) \in Answers /\ snap.pos \in Positions
    BY ShownFits DEF TypeOK
  <2>2. ScopedTo(snap.section, Shown(snap)) \in Answers
    BY <2>1, ScopedFits
  <2> DEFINE shown == ScopedTo(snap.section, Shown(snap))
  <2> HIDE DEF shown
  <2>3. shown \in Answers /\ s = FullSave("reconcile", shown, snap.pos)
    BY <2>2 DEF shown
  <2>4. edits \in Edits
    BY DEF TypeOK
  <2> HIDE DEF s
  <2>5. QED
    BY <2>1, <2>3, <2>4, Bounds DEF FullSave, Save
<1>2. answers' \in Answers /\ screen' \in {"exam", "result"} /\ status' \in {"saved", "saving"}
  BY ShownFits DEF Hydrate, TypeOK
<1>3. chain' = before \/ chain' = before \o <<s>> \o after
  BY DEF Hydrate
<1> HIDE DEF s
<1>4. CASE chain' = before
  BY <1>1, <1>2, <1>4
<1>5. CASE chain' = before \o <<s>> \o after /\ after = <<>>
  <2>1. chain' = Append(before, s)
    BY <1>1, <1>5
  <2>2. chain' \in Seq(Save) /\ OnePress(chain') /\ Saves(chain') = Saves(before) \cup {s}
    BY <1>1, <2>1, AppendSaves, Bounds
  <2>3. QED
    BY <1>1, <1>2, <2>2
<1>6. CASE chain' = before \o <<s>> \o after /\ before = <<>>
  <2>1. chain' = <<s>> \o after /\ chain' \in Seq(Save)
    BY <1>1, <1>6
  <2>2. \A i \in DOMAIN chain' : chain'[i] \in Saves(after) \cup {s}
    <3>1. /\ DOMAIN chain' = 1..(1 + Len(after)) /\ chain'[1] = s /\ Len(after) \in Nat
          /\ DOMAIN after = 1..Len(after)
      BY <1>1, <2>1
    <3>2. \A i \in 1..Len(after) : chain'[1 + i] = after[i]
      BY <1>1, <2>1
    <3>3. TAKE i \in DOMAIN chain'
    <3>4. CASE i = 1
      BY <3>1, <3>4
    <3>5. CASE i # 1
      <4>1. i - 1 \in 1..Len(after) /\ i = 1 + (i - 1)
        BY <3>1, <3>5
      <4>2. chain'[i] = after[i - 1] /\ i - 1 \in DOMAIN after
        BY <3>1, <3>2, <4>1
      <4>3. QED
        BY <4>2 DEF Saves
    <3>6. QED
      BY <3>4, <3>5
  <2>3. Saves(chain') \subseteq Saves(after) \cup {s}
    BY <2>2 DEF Saves
  <2>4. OnePress(chain')
    BY <1>1, <2>2, Bounds DEF OnePress
  <2>5. QED
    BY <1>1, <1>2, <2>1, <2>3, <2>4
<1>7. QED
  BY <1>3, <1>4, <1>5, <1>6

\* Only a press whose barrier still drains has a save in the chain.
LEMMA NoPressSave ==
    ASSUME SavesCarry, NEW p \in Presses, stage[p] # "draining" PROVE \A t \in Saves(chain) : t.from # p
BY DEF SavesCarry, Carries

LEMMA RecoveryFits ==
    ASSUME TypeOK, OnePress(chain), RunRecovery
    PROVE  /\ chain' \in Seq(Save) /\ OnePress(chain') /\ status' \in {"saved", "saving", "unsaved"}
           /\ stage' \in [Flows -> Stages] /\ target' \in 0..Closed /\ pressed' = pressed
           /\ \A p \in Presses : stage'[p] = stage[p]
           /\ \/ /\ cache.section = 0 /\ UNCHANGED <<status, target>> /\ stage'["expiry"] = "flushing"
                 /\ Saves(chain') = Saves(chain) \cup {FullSave("flush", InScope(answers), pos)}
              \/ /\ cache.section # 0 /\ target' = cache.section
                 /\ \/ /\ stage'["expiry"] = "draining" /\ status' = "saving"
                       /\ Saves(chain') = Saves(chain) \cup {SaveOf("expiry", queue, savedPos, volatile)}
                    \/ /\ ~Dirty(queue, savedPos, volatile)
                       /\ stage'["expiry"] = AfterDrain("expiry", cache.section)
                       /\ UNCHANGED chain /\ status' = "saved"
<1>1. CASE cache.section = 0
  <2> DEFINE s == FullSave("flush", InScope(answers), pos)
             shown == InScope(answers)
  <2>1. shown \in Answers /\ pos \in Positions /\ edits \in Edits
    BY InScopeFits DEF TypeOK
  <2>2. chain' = Append(chain, s) /\ Moves("expiry", "flushing") /\ UNCHANGED status
    BY <1>1 DEF RunRecovery
  <2>3. s = FullSave("flush", shown, pos)
    OBVIOUS
  <2> HIDE DEF s, shown
  <2>4. s \in Save /\ s.from = "flush"
    BY <2>1, <2>3, Bounds DEF FullSave, Save
  <2>5. chain' \in Seq(Save) /\ OnePress(chain') /\ Saves(chain') = Saves(chain) \cup {s}
    BY <2>2, <2>4, AppendSaves, Bounds DEF TypeOK
  <2>6. /\ stage' \in [Flows -> Stages] /\ stage'["expiry"] = "flushing"
        /\ \A g \in Flows : g # "expiry" => stage'[g] = stage[g]
        /\ UNCHANGED <<target, pressed>>
    BY <2>2, ToStage, TypeParts, Bounds DEF Moves, Stages
  <2>7. QED
    BY <1>1, <2>2, <2>5, <2>6, Bounds DEF s, TypeOK, Flows
<1>2. CASE cache.section # 0
  <2>1. StartBarrier("expiry", cache.section) /\ pressed' = pressed
    BY <1>2 DEF RunRecovery
  <2>2. /\ cache.section \in 0..Closed /\ "expiry" \in Flows /\ "expiry" \notin Presses
        /\ Presses \subseteq Flows
    BY Bounds DEF TypeOK, Snapshot, Flows
  <2>3. QED
    BY <1>2, <2>1, <2>2, StartFits
<1>3. QED
  BY <1>1, <1>2

LEMMA UnmountedFits ==
    ASSUME TypeOK, Unmounted PROVE FlowTypes' /\ ClockTypes' /\ SaveTypes' /\ OnePress(chain')
<1>1. chain' = <<>> /\ OnePress(chain') /\ chain' \in Seq(Save)
  BY DEF Unmounted, OnePress
<1>2. stage' \in [Flows -> Stages] /\ target' \in 0..Closed /\ pressed' \in [Presses -> Answers]
  BY Bounds DEF Unmounted, Stages
<1>3. FlowTypes'
  BY <1>2 DEF TypeOK, Unmounted, FlowTypes
<1>4. ClockTypes'
  BY Bounds DEF TypeOK, Unmounted, ClockTypes
<1>5. SaveTypes'
  BY <1>1, Bounds DEF Unmounted, SaveTypes
<1>6. QED
  BY <1>1, <1>3, <1>4, <1>5

LEMMA StoreHeadFits ==
    ASSUME TypeOK, OnePress(chain), chain # <<>>, StoreHead
    PROVE  /\ Head(chain) \in Save /\ Accepts(Head(chain))
           /\ server' \in Snapshot /\ best' \in Answers
           /\ server'.status = server.status /\ server'.section = server.section
           /\ \A q \in Questions :
                /\ server'.answers[q] =
                     (IF Head(chain).load[q] > 0 THEN Head(chain).load[q] ELSE server.answers[q])
                /\ best'[q] \in Nat /\ best[q] <= best'[q]
                /\ server'.answers[q] <= best'[q] /\ Head(chain).load[q] <= best'[q]
<1>1. Head(chain) \in Save /\ server \in Snapshot /\ best \in Answers
  BY TailSaves DEF TypeOK
<1>2. QED
  BY <1>1, StoredFits DEF StoreHead

LEMMA AdvancedFits ==
    ASSUME TypeOK, NEW section \in 1..NumSections
    PROVE  /\ Advanced(section) \in Snapshot /\ Advanced(section).status = server.status
           /\ Advanced(section).answers = server.answers
           /\ \/ Advanced(section) = server
              \/ /\ server.section = section /\ Advanced(section).section = section + 1
<1>1. server \in Snapshot /\ NumSections \in Nat /\ Closed = NumSections + 1
  BY Bounds DEF TypeOK
<1>2. CASE server.section = section
  <2>1. server.section < Closed
    BY <1>1, <1>2
  <2>2. [server EXCEPT !.section = @ + 1] \in Snapshot
    BY <1>1, <2>1, SnapshotMoves
  <2>3. QED
    BY <1>1, <1>2, <2>2 DEF Advanced, Snapshot
<1>3. CASE server.section # section
  BY <1>1, <1>3 DEF Advanced
<1>4. QED
  BY <1>2, <1>3

PageTypes == TypeOK /\ OnePress(chain)

LEMMA TypeStep ==
    ASSUME TypeOK, OnePress(chain), SavesCarry, FlowsKeep, [Next]_vars
    PROVE  PageTypes'
<1>0. /\ FlowTypes /\ ClockTypes /\ SaveTypes /\ RowTypes
      /\ (FlowTypes /\ ClockTypes /\ SaveTypes /\ RowTypes => TypeOK)
      /\ Presses \subseteq Flows /\ "expiry" \in Flows
  BY TypeParts DEF Flows
<1>1. (FlowTypes' /\ ClockTypes' /\ SaveTypes' /\ RowTypes' => TypeOK')
  BY DEF TypeOK, FlowTypes, ClockTypes, SaveTypes, RowTypes, Stages
<1>2. ASSUME UNCHANGED <<server, sessionVars, best>> PROVE RowTypes'
  BY <1>0, <1>2 DEF RowTypes, sessionVars
<1>3. ASSUME UNCHANGED <<flowVars, failed, screen, queue>> PROVE FlowTypes'
  BY <1>0, <1>3 DEF FlowTypes, flowVars
<1>4. ASSUME UNCHANGED <<expired, fired, edits, visits, typed, answers, pos>> PROVE ClockTypes'
  BY <1>0, <1>4 DEF ClockTypes
<1>5. ASSUME UNCHANGED <<savedPos, chain, volatile, timers, status>> PROVE SaveTypes' /\ OnePress(chain')
  BY <1>0, <1>5 DEF SaveTypes
<1>6. ASSUME NEW q \in Questions, Edit(q) PROVE PageTypes'
  <2>1. edits + 1 \in Edits
    <3>1. edits \in 0..EditBound /\ edits < EditBound /\ EditBound \in Nat
      BY <1>0, <1>6, Bounds DEF Edit, ClockTypes, Edits
    <3>2. QED
      BY ONLY <3>1 DEF Edits
  <2>2. \A f \in Answers : [f EXCEPT ![q] = edits + 1] \in Answers
    BY <2>1 DEF Answers
  <2>3. queue' \in Answers /\ typed' \in Answers /\ answers' \in Answers /\ edits' \in Edits
        /\ volatile' \in BOOLEAN
    BY <1>0, <1>6, <2>1, <2>2 DEF Edit, FlowTypes, ClockTypes, SaveTypes
  <2>4. /\ status' = "unsaved" /\ timers' = timers \cup {"debounce"}
        /\ UNCHANGED <<server, sessionVars, screen, pos, savedPos, chain, flowVars, clockVars, visits, best>>
    BY <1>6 DEF Edit
  <2>5. FlowTypes' /\ ClockTypes' /\ SaveTypes' /\ RowTypes' /\ OnePress(chain')
    BY <1>0, <1>2, <2>3, <2>4 DEF FlowTypes, ClockTypes, SaveTypes, flowVars, clockVars
  <2>6. QED
    BY <1>1, <2>5 DEF PageTypes
<1>7. ASSUME NEW p \in Positions, GoTo(p) PROVE PageTypes'
  <2>1. /\ pos' = p /\ status' = "unsaved" /\ timers' = timers \cup {"debounce"}
        /\ UNCHANGED <<server, queue, sessionVars, screen, answers, savedPos, chain,
                       volatile, flowVars, clockVars, history>>
    BY <1>7 DEF GoTo
  <2>2. FlowTypes' /\ ClockTypes' /\ SaveTypes' /\ RowTypes' /\ OnePress(chain')
    BY <1>0, <1>2, <1>3, <2>1 DEF ClockTypes, SaveTypes, clockVars, history
  <2>3. QED
    BY <1>1, <2>2 DEF PageTypes
<1>8. CASE Flush \/ Retry \/ Online
  <2>1. /\ AttemptSave(queue) /\ timers' \subseteq {"debounce", "retry"}
        /\ UNCHANGED <<server, queue, sessionVars, viewVars, savedPos, volatile,
                       flowVars, clockVars, history>>
    BY <1>0, <1>8 DEF Flush, Retry, Online, SaveTypes
  <2>2. SaveTypes' /\ OnePress(chain')
    BY <1>0, <2>1, AttemptFits DEF SaveTypes
  <2>3. FlowTypes' /\ ClockTypes' /\ RowTypes'
    BY <1>2, <1>3, <1>4, <2>1 DEF clockVars, history, viewVars
  <2>4. QED
    BY <1>1, <2>2, <2>3 DEF PageTypes
<1>9. CASE Reconcile
  <2> DEFINE s == FullSave("reconcile", InScope(answers), pos)
  <2>1. s \in Save /\ s.from = "reconcile"
    <3>1. InScope(answers) \in Answers /\ pos \in Positions /\ edits \in Edits
      BY <1>0, InScopeFits DEF ClockTypes
    <3>2. QED
      BY <3>1, Bounds DEF FullSave, Save
  <2>2. /\ chain' = Append(chain, s) /\ status' = "saving"
        /\ UNCHANGED <<server, queue, sessionVars, viewVars, savedPos, timers, volatile,
                       flowVars, clockVars, history>>
    BY <1>9 DEF Reconcile
  <2> HIDE DEF s
  <2>3. SaveTypes' /\ OnePress(chain')
    BY <1>0, <2>1, <2>2, AppendSaves, Bounds DEF SaveTypes
  <2>4. FlowTypes' /\ ClockTypes' /\ RowTypes'
    BY <1>2, <1>3, <1>4, <2>2 DEF clockVars, history, viewVars
  <2>5. QED
    BY <1>1, <2>3, <2>4 DEF PageTypes
<1>10. ASSUME NEW p \in Presses, PressSubmit(p) PROVE PageTypes'
  <2> DEFINE shown == IF cache.section = Closed THEN None ELSE InScope(answers)
  <2>1. shown \in Answers /\ target \in 0..Closed
    BY <1>0, InScopeFits, Bounds DEF ClockTypes, FlowTypes
  <2>2. /\ StartBarrier(p, target) /\ pressed' = [pressed EXCEPT ![p] = shown]
        /\ submitting' = TRUE /\ timers' = {} /\ stage[p] = "idle"
        /\ UNCHANGED <<server, queue, sessionVars, viewVars, savedPos, volatile, clockVars, history>>
    BY <1>10 DEF PressSubmit
  <2> HIDE DEF shown
  <2>3. \A t \in Saves(chain) : t.from # p
    BY <2>2, NoPressSave
  <2>4. /\ chain' \in Seq(Save) /\ OnePress(chain') /\ status' \in {"saved", "saving", "unsaved"}
        /\ stage' \in [Flows -> Stages] /\ target' = target
    BY <1>0, <2>1, <2>2, <2>3, StartFits
  <2>8. pressed' \in [Presses -> Answers]
    BY <1>0, <2>1, <2>2 DEF FlowTypes
  <2>5. FlowTypes' /\ SaveTypes'
    BY <1>0, <2>1, <2>2, <2>4, <2>8 DEF FlowTypes, SaveTypes, viewVars, clockVars
  <2>6. ClockTypes' /\ RowTypes'
    BY <1>2, <1>4, <2>2 DEF clockVars, history, viewVars
  <2>7. QED
    BY <1>1, <2>4, <2>5, <2>6 DEF PageTypes
<1>11. CASE Tick
  <2>1. /\ expired' = TRUE
        /\ UNCHANGED <<server, queue, sessionVars, viewVars, savedPos, chain, timers, volatile,
                       status, flowVars, fired, failed, history>>
    BY <1>11 DEF Tick
  <2>2. FlowTypes' /\ ClockTypes' /\ SaveTypes' /\ RowTypes' /\ OnePress(chain')
    BY <1>0, <1>2, <1>3, <1>5, <2>1 DEF ClockTypes, viewVars, history
  <2>3. QED
    BY <1>1, <2>2 DEF PageTypes
<1>12. CASE ExpiryStarts \/ RetryRecovery
  <2>1. /\ RunRecovery /\ fired' \in {TRUE, fired} /\ failed' = FALSE /\ submitting' = TRUE /\ timers' = {}
        /\ UNCHANGED <<server, queue, sessionVars, viewVars, savedPos, volatile, expired, history>>
    BY <1>12 DEF ExpiryStarts, RetryRecovery, RunRecovery
  <2>2. /\ chain' \in Seq(Save) /\ OnePress(chain') /\ status' \in {"saved", "saving", "unsaved"}
        /\ stage' \in [Flows -> Stages] /\ target' \in 0..Closed /\ pressed' = pressed
    BY <2>1, RecoveryFits
  <2>3. FlowTypes' /\ SaveTypes'
    BY <1>0, <2>1, <2>2 DEF FlowTypes, SaveTypes, viewVars
  <2>4. ClockTypes' /\ RowTypes'
    BY <1>0, <1>2, <2>1 DEF ClockTypes, viewVars, history
  <2>5. QED
    BY <1>1, <2>2, <2>3, <2>4 DEF PageTypes
<1>13. CASE Acked \/ Refused \/ Dropped
  <2>1. PICK ok \in BOOLEAN : Settles(Head(chain), ok)
    BY <1>13 DEF Acked, Refused, Dropped
  <2>2. chain # <<>> /\ UNCHANGED settled /\ (StoreHead \/ UNCHANGED <<server, best>>)
    BY <1>13 DEF Acked, Refused, Dropped
  <2>3. FlowTypes' /\ SaveTypes' /\ OnePress(chain')
    BY <2>1, <2>2, SettleFits DEF SettledTypes, SaveTypes
  <2>4. RowTypes'
    BY <1>0, <1>2, <2>2, StoreHeadFits DEF RowTypes, settled, sessionVars
  <2>5. ClockTypes'
    BY <1>4, <2>2 DEF settled
  <2>6. QED
    BY <1>1, <2>3, <2>4, <2>5 DEF PageTypes
<1>14. ASSUME NEW f \in Flows, BarrierTimesOut(f) PROVE PageTypes'
  <2>1. /\ chain' = Orphaned(f) /\ status' = "unsaved" /\ FlowFails(f, FALSE)
        /\ UNCHANGED <<server, sessionVars, answers, pos, savedPos, timers, volatile,
                       expired, fired, history>>
    BY <1>14 DEF BarrierTimesOut, Orphaned
  <2>2. FlowTypes'
    BY <1>0, <2>1, FlowFailsFits
  <2>3. SaveTypes' /\ OnePress(chain')
    BY <1>0, <2>1, OrphanedSaves DEF SaveTypes
  <2>4. ClockTypes' /\ RowTypes'
    BY <1>2, <1>4, <2>1 DEF history
  <2>5. QED
    BY <1>1, <2>2, <2>3, <2>4 DEF PageTypes
<1>15. ASSUME NEW f \in Flows, SubmitPosted(f) PROVE PageTypes'
  <2>1. FlowTypes'
    BY <1>0, <1>15, IdleFits, Bounds DEF SubmitPosted, FlowTypes
  <2>2. RowTypes'
    BY <1>0, <1>15, SnapshotMoves DEF SubmitPosted, RowTypes, sessionVars, posted, history
  <2>3. ClockTypes' /\ SaveTypes' /\ OnePress(chain')
    BY <1>4, <1>5, <1>15 DEF SubmitPosted, posted, history
  <2>4. QED
    BY <1>1, <2>1, <2>2, <2>3 DEF PageTypes
<1>16. ASSUME NEW f \in Flows, SubmitFails(f) PROVE PageTypes'
  <2>1. FlowFails(f, TRUE) \/ FlowFails(f, FALSE) \/ UNCHANGED <<queue, screen, flowVars, failed>>
    BY <1>16 DEF SubmitFails
  <2>2. FlowTypes'
    BY <1>0, <1>3, <2>1, FlowFailsFits
  <2>3. RowTypes'
    BY <1>0, <1>16, SnapshotMoves DEF SubmitFails, RowTypes, sessionVars, posted, history
  <2>4. ClockTypes' /\ SaveTypes' /\ OnePress(chain')
    BY <1>4, <1>5, <1>16 DEF SubmitFails, posted, history
  <2>5. QED
    BY <1>1, <2>2, <2>3, <2>4 DEF PageTypes
<1>17. CASE AdvancePosted
  <2>1. target \in 1..NumSections
    BY <1>17 DEF AdvancePosted, FlowsKeep
  <2>2. RowTypes'
    BY <1>0, <1>17, <2>1, AdvancedFits DEF AdvancePosted, RowTypes, sessionVars, posted, history
  <2>3. \/ Moves("expiry", "posting") /\ UNCHANGED submitting
        \/ Idle("expiry") /\ submitting' = FALSE
    BY <1>17 DEF AdvancePosted
  <2>4. stage' \in [Flows -> Stages] /\ target' \in 0..Closed /\ pressed' \in [Presses -> Answers]
        /\ submitting' \in BOOLEAN
    <3>1. CASE Moves("expiry", "posting") /\ UNCHANGED submitting
      BY <1>0, <3>1, ToStage DEF Moves, Stages, FlowTypes
    <3>2. CASE Idle("expiry") /\ submitting' = FALSE
      BY <1>0, <3>2, IdleFits
    <3>3. QED
      BY <2>3, <3>1, <3>2
  <2>5. FlowTypes'
    BY <1>0, <1>17, <2>4 DEF AdvancePosted, FlowTypes
  <2>6. ClockTypes' /\ SaveTypes' /\ OnePress(chain')
    BY <1>4, <1>5, <1>17 DEF AdvancePosted, posted, history
  <2>7. QED
    BY <1>1, <2>2, <2>5, <2>6 DEF PageTypes
<1>18. CASE AdvanceFails
  <2>1. target \in 1..NumSections
    BY <1>18 DEF AdvanceFails, FlowsKeep
  <2>2. RowTypes'
    BY <1>0, <1>18, <2>1, AdvancedFits DEF AdvanceFails, RowTypes, sessionVars, posted, history
  <2>3. FlowFails("expiry", TRUE) \/ FlowFails("expiry", FALSE) \/ UNCHANGED <<queue, screen, flowVars, failed>>
    BY <1>18 DEF AdvanceFails
  <2>4. FlowTypes'
    BY <1>0, <1>3, <2>3, FlowFailsFits
  <2>5. ClockTypes' /\ SaveTypes' /\ OnePress(chain')
    BY <1>4, <1>5, <1>18 DEF AdvanceFails, posted, history
  <2>6. QED
    BY <1>1, <2>2, <2>4, <2>5 DEF PageTypes
<1>19. CASE ServerCloses
  <2>1. UNCHANGED <<queue, sessionVars, viewVars, savedPos, chain, timers, volatile, status,
                    flowVars, clockVars, history>>
    BY <1>19 DEF ServerCloses
  <2>2. server' \in Snapshot
    <3>1. server \in Snapshot /\ server.section \in 0..Closed
      BY <1>0 DEF RowTypes, Snapshot
    <3>2. CASE server.section \in {0, Closed}
      BY <1>19, <3>1, <3>2, SnapshotMoves DEF ServerCloses
    <3>3. CASE server.section \notin {0, Closed}
      <4>1. server.section < Closed
        BY <3>1, <3>3, Bounds
      <4>2. PICK st \in {"none", "in_progress", "submitted"} :
               server' = [server EXCEPT !.section = @ + 1, !.status = st]
        BY <1>19, <3>1, <3>3 DEF ServerCloses, Snapshot
      <4>3. QED
        BY <3>1, <4>1, <4>2, SnapshotMoves
    <3>4. QED
      BY <3>2, <3>3
  <2>3. RowTypes'
    BY <1>0, <2>1, <2>2 DEF RowTypes, sessionVars, history
  <2>4. FlowTypes' /\ ClockTypes' /\ SaveTypes' /\ OnePress(chain')
    BY <1>3, <1>4, <1>5, <2>1 DEF clockVars, history, viewVars
  <2>5. QED
    BY <1>1, <2>3, <2>4 DEF PageTypes
<1>20. CASE FetchReads
  <2>1. RowTypes'
    BY <1>0, <1>20 DEF FetchReads, RowTypes, history
  <2>2. FlowTypes' /\ ClockTypes' /\ SaveTypes' /\ OnePress(chain')
    BY <1>3, <1>4, <1>5, <1>20 DEF FetchReads, clockVars, history, viewVars
  <2>3. QED
    BY <1>1, <2>1, <2>2 DEF PageTypes
<1>21. CASE FetchArrives
  <2>1. /\ Hydrate(fetch, chain, <<>>) /\ fetch' = NoSnapshot
        /\ UNCHANGED <<server, queue, timers, volatile, flowVars, clockVars, history>>
    BY <1>21 DEF FetchArrives
  <2>2. fetch \in Snapshot /\ chain \in Seq(Save) /\ <<>> \in Seq(Save) /\ Saves(<<>>) = {}
    BY <1>0 DEF RowTypes, SaveTypes, Saves
  <2>3. /\ chain' \in Seq(Save) /\ OnePress(chain') /\ answers' \in Answers
        /\ screen' \in {"exam", "result"} /\ status' \in {"saved", "saving"}
    BY <2>1, <2>2, HydrateFits
  <2>4. cache' = fetch /\ pos' = fetch.pos /\ savedPos' = fetch.pos /\ fetch.pos \in Positions
    BY <1>0, <2>1, <2>2, ShownFits DEF Hydrate, FlowTypes
  <2>5. FlowTypes' /\ ClockTypes' /\ SaveTypes' /\ RowTypes'
    BY <1>0, <2>1, <2>2, <2>3, <2>4, Bounds
       DEF FlowTypes, ClockTypes, SaveTypes, RowTypes, flowVars, clockVars, history
  <2>6. QED
    BY <1>1, <2>3, <2>5 DEF PageTypes
<1>22. CASE Refetch
  <2>1. /\ cache' = server /\ pos' \in Positions /\ savedPos' \in Positions
        /\ expired' \in BOOLEAN /\ fired' \in BOOLEAN
        /\ UNCHANGED <<server, queue, fetch, screen, answers, chain, timers, volatile, status,
                       flowVars, failed, history>>
    BY <1>0, <1>22, Bounds DEF Refetch, ClockTypes, SaveTypes
  <2>2. FlowTypes' /\ ClockTypes' /\ SaveTypes' /\ RowTypes' /\ OnePress(chain')
    BY <1>0, <1>3, <2>1 DEF ClockTypes, SaveTypes, RowTypes, history
  <2>3. QED
    BY <1>1, <2>2 DEF PageTypes
<1>23. CASE Enter
  <2>1. /\ screen = "away" /\ visits < VisitBound /\ visits' = visits + 1
        /\ UNCHANGED <<server, queue, fetch, timers, volatile, flowVars, clockVars, edits, typed, best>>
    BY <1>23 DEF Enter
  <2>2. visits' \in 0..VisitBound
    BY <1>0, <2>1, Bounds DEF ClockTypes
  <2>3. CASE Hydrate(cache, <<>>, Replay(cache.section, cache.pos))
    <3> DEFINE after == Replay(cache.section, cache.pos)
    <3>1. cache \in Snapshot /\ cache.pos \in Positions
      BY <1>0 DEF RowTypes, Snapshot
    <3>2. <<>> \in Seq(Save) /\ OnePress(<<>>) /\ Saves(<<>>) = {}
      BY DEF OnePress, Saves
    <3>3. after \in Seq(Save) /\ \A s \in Saves(after) : s.from \notin Presses
      <4>1. after \in Seq(Save) /\ \A s \in Saves(after) : s.from = "auto"
        BY <3>1, ReplayFits
      <4>2. QED
        BY <4>1, Bounds
    <3> HIDE DEF after
    <3>4. Hydrate(cache, <<>>, after)
      BY <2>3 DEF after
    <3>5. /\ chain' \in Seq(Save) /\ OnePress(chain') /\ answers' \in Answers
          /\ screen' \in {"exam", "result"} /\ status' \in {"saved", "saving"}
      BY <3>1, <3>2, <3>3, <3>4, HydrateFits
    <3>6. cache' = cache /\ pos' = cache.pos /\ savedPos' = cache.pos
      BY <3>4 DEF Hydrate
    <3>7. FlowTypes' /\ ClockTypes' /\ SaveTypes' /\ RowTypes'
      BY <1>0, <2>1, <2>2, <3>1, <3>5, <3>6
         DEF FlowTypes, ClockTypes, SaveTypes, RowTypes, flowVars, clockVars
    <3>8. QED
      BY <1>1, <3>5, <3>7 DEF PageTypes
  <2>4. CASE /\ cache' = NoSnapshot
             /\ screen' = "loading" /\ answers' = None /\ pos' = 1 /\ savedPos' = 1
             /\ chain' = Replay(0, 1)
             /\ status' = IF chain' = <<>> THEN "saved" ELSE "saving"
    <3>1. chain' \in Seq(Save) /\ OnePress(chain')
      BY <2>4, ReplayFits, Bounds
    <3>2. FlowTypes' /\ ClockTypes' /\ SaveTypes' /\ RowTypes'
      BY <1>0, <2>1, <2>2, <2>4, <3>1, Bounds
         DEF FlowTypes, ClockTypes, SaveTypes, RowTypes, flowVars, clockVars
    <3>3. QED
      BY <1>1, <3>1, <3>2 DEF PageTypes
  <2>5. QED
    BY <1>23, <2>3, <2>4 DEF Enter
<1>24. CASE Leave
  <2>1. FlowTypes' /\ ClockTypes' /\ SaveTypes' /\ OnePress(chain')
    BY <1>24, UnmountedFits DEF Leave
  <2>2. RowTypes'
    BY <1>0, <1>24, Bounds DEF Leave, Unmounted, RowTypes
  <2>3. QED
    BY <1>1, <2>1, <2>2 DEF PageTypes
<1>25. CASE Reload
  <2>1. FlowTypes' /\ ClockTypes' /\ SaveTypes' /\ OnePress(chain')
    BY <1>25, UnmountedFits DEF Reload
  <2>2. server' \in Snapshot /\ best' \in Answers
    <3>1. CASE chain # <<>> /\ StoreHead
      BY <3>1, StoreHeadFits
    <3>2. CASE UNCHANGED <<server, best>>
      BY <1>0, <3>2 DEF RowTypes
    <3>3. QED
      BY <1>25, <3>1, <3>2 DEF Reload
  <2>3. RowTypes'
    BY <1>25, <2>2, Bounds DEF Reload, Unmounted, RowTypes
  <2>4. QED
    BY <1>1, <2>1, <2>3 DEF PageTypes
<1>26. CASE UNCHANGED vars
  <2>1. FlowTypes' /\ ClockTypes' /\ SaveTypes' /\ RowTypes' /\ OnePress(chain')
    BY <1>2, <1>3, <1>4, <1>5, <1>26
       DEF vars, sessionVars, viewVars, flowVars, clockVars, history
  <2>2. QED
    BY <1>1, <2>1 DEF PageTypes
<1>27. QED
  BY <1>6, <1>7, <1>8, <1>9, <1>10, <1>11, <1>12, <1>13, <1>14, <1>15, <1>16, <1>17, <1>18, <1>19,
     <1>20, <1>21, <1>22, <1>23, <1>24, <1>25, <1>26 DEF Next, Student, Timers, Network, Visits

-----------------------------------------------------------------------------
(* What most steps do to the answers *)

\* The row goes forward only, and forgets no newest answer.
RowGrows ==
    /\ server'.status \in {server.status, "submitted"}
    /\ server.section <= server'.section /\ (server'.section = 0 <=> server.section = 0)
    /\ \A q \in Questions : best[q] <= best'[q] /\ server'.answers[q] <= best'[q]

\* The queue lets an entry go when it is stored, or when the session is over.
QueueShrinks ==
    \A q \in Questions :
       \/ queue'[q] = queue[q]
       \/ /\ queue'[q] = 0
          /\ queue[q] <= best'[q] \/ (server'.status = "submitted" /\ screen' = "result")

\* What the page shows stays, and volatile edits are flagged until they are stored.
PageGoesOn ==
    /\ RowGrows /\ QueueShrinks
    /\ UNCHANGED <<cache, fetch, answers, typed, edits>>
    /\ screen' = screen \/ (screen' = "result" /\ Sitting /\ server'.status = "submitted")
    /\ \/ volatile' = volatile
       \/ volatile /\ ~volatile' /\ \A q \in Questions : Ahead(q) => answers[q] <= best'[q]

\* The numbers behind the types, before a step and after it.
LEMMA Numbers ==
    ASSUME TypeOK
    PROVE  /\ \A q \in Questions : /\ queue[q] \in Nat /\ typed[q] \in Nat /\ best[q] \in Nat /\ answers[q] \in Nat
                                   /\ server.answers[q] \in Nat /\ \A p \in Presses : pressed[p][q] \in Nat
                                   /\ SectionOf[q] \in Nat /\ 0 < SectionOf[q] /\ SectionOf[q] < Closed
           /\ server.section \in Nat /\ cache.section \in Nat /\ fetch.section \in Nat
           /\ server.section <= Closed /\ cache.section <= Closed /\ fetch.section <= Closed
           /\ edits \in Nat /\ Closed \in Nat /\ target \in Nat /\ target <= Closed
<1>1. server \in Snapshot /\ cache \in Snapshot /\ fetch \in Snapshot
  BY DEF TypeOK
<1>2. queue \in Answers /\ answers \in Answers /\ typed \in Answers /\ best \in Answers
      /\ (\A p \in Presses : pressed[p] \in Answers) /\ server.answers \in Answers
  BY <1>1 DEF TypeOK, Snapshot
<1>3. Closed \in Nat /\ \A q \in Questions : SectionOf[q] \in Nat /\ 0 < SectionOf[q] /\ SectionOf[q] < Closed
  BY Bounds
<1>4. server.section \in 0..Closed /\ cache.section \in 0..Closed /\ fetch.section \in 0..Closed
  BY <1>1 DEF Snapshot
<1>5. edits \in 0..EditBound /\ EditBound \in Nat /\ target \in 0..Closed
  BY Bounds, PageConstants DEF TypeOK, Edits
<1>6. \A q \in Questions : /\ queue[q] \in Nat /\ typed[q] \in Nat /\ best[q] \in Nat /\ answers[q] \in Nat
                           /\ server.answers[q] \in Nat /\ \A p \in Presses : pressed[p][q] \in Nat
  BY ONLY <1>2, AnswersAreNat
<1>7. QED
  BY ONLY <1>3, <1>4, <1>5, <1>6

LEMMA BehindStays ==
    ASSUME NEW snap \in Snapshot, TypeOK, TypeOK', RowGrows, Behind(snap),
           \A q \in Questions : queue'[q] \in {0, queue[q]}
    PROVE  BehindRow(snap, server', best', queue')
<1>1. CASE snap = NoSnapshot
  BY <1>1 DEF BehindRow
<1>2. CASE snap # NoSnapshot
  <2>1. /\ snap.status # "none" /\ snap.section <= server.section
        /\ snap.section = 0 <=> server.section = 0
        /\ snap.status = "submitted" => server.status = "submitted"
        /\ \A q \in Questions : snap.answers[q] <= best[q]
        /\ \A q \in Questions : queue[q] > 0 => ~Later(q, snap.section)
    BY <1>2 DEF Behind, BehindRow
  <2>2. /\ server.section \in Nat /\ server'.section \in Nat /\ snap.section \in Nat
        /\ \A q \in Questions : best[q] \in Nat /\ best'[q] \in Nat /\ snap.answers[q] \in Nat
    <3>1. \A q \in Questions : best[q] \in Nat /\ best'[q] \in Nat
      BY AnswersAreNat DEF TypeOK
    <3>2. server.section \in Nat /\ server'.section \in Nat /\ snap.section \in Nat
      BY Bounds DEF TypeOK, Snapshot
    <3>3. snap.answers \in Answers
      BY DEF Snapshot
    <3>4. QED
      BY <3>1, <3>2, <3>3, AnswersAreNat
  <2>3. snap.section <= server'.section /\ (snap.section = 0 <=> server'.section = 0)
    BY <2>1, <2>2 DEF RowGrows
  <2>4. snap.status = "submitted" => server'.status = "submitted"
    BY <2>1 DEF RowGrows
  <2>5. \A q \in Questions : snap.answers[q] <= best'[q]
    BY <2>1, <2>2 DEF RowGrows
  <2>6. \A q \in Questions : queue'[q] > 0 => ~Later(q, snap.section)
    BY <2>1
  <2>7. QED
    BY <2>1, <2>3, <2>4, <2>5, <2>6 DEF BehindRow
<1>3. QED
  BY <1>1, <1>2

LEMMA RowStaysAhead ==
    ASSUME TypeOK, TypeOK', RowGrows, CopiesFollow, \A q \in Questions : queue'[q] \in {0, queue[q]}
    PROVE  /\ server'.status # "none" /\ \A q \in Questions : server'.answers[q] <= best'[q]
           /\ \A q \in Questions : queue'[q] > 0 => ~Later(q, server'.section)
<1>1. server'.status # "none"
  BY DEF RowGrows, CopiesFollow
<1>2. ASSUME NEW q \in Questions, queue'[q] > 0 PROVE ~Later(q, server'.section)
  <2>1. queue[q] > 0
    BY <1>2
  <2>2. ~Later(q, server.section)
    BY <2>1 DEF CopiesFollow
  <2>3. server.section \in Nat /\ server'.section \in Nat /\ SectionOf[q] \in Nat
    BY Bounds DEF TypeOK, Snapshot
  <2>4. QED
    BY <2>2, <2>3 DEF Later, RowGrows
<1>3. QED
  BY <1>1, <1>2 DEF RowGrows

LEMMA GoesOnKeeps ==
    ASSUME PageInv, TypeOK', PageGoesOn
    PROVE  CopiesFollow' /\ QueueIsNewest' /\ ShownIsKept' /\ NothingForgotten'
<1>0. TypeOK /\ CopiesFollow /\ QueueIsNewest /\ ShownIsKept /\ NothingForgotten
  BY DEF PageInv
<1>1. /\ \A q \in Questions : /\ queue[q] \in Nat /\ typed[q] \in Nat /\ best[q] \in Nat /\ answers[q] \in Nat
                              /\ best'[q] \in Nat /\ queue'[q] \in Nat
      /\ RowGrows /\ QueueShrinks /\ UNCHANGED <<cache, fetch, answers, typed>>
  BY <1>0, AnswersAreNat DEF TypeOK, PageGoesOn
<1>2. \A q \in Questions : queue'[q] \in {0, queue[q]}
  BY <1>1 DEF QueueShrinks
<1>3. /\ screen' = screen \/ (screen' = "result" /\ Sitting /\ server'.status = "submitted")
      /\ Sitting' <=> Sitting
      /\ screen' = "exam" => screen = "exam"
  BY DEF PageGoesOn, Sitting
<1>4. CopiesFollow'
  <2>1. BehindRow(cache, server', best', queue') /\ BehindRow(fetch, server', best', queue')
    BY <1>0, <1>1, <1>2, BehindStays DEF CopiesFollow, TypeOK
  <2>2. Behind(cache)' /\ Behind(fetch)'
    BY <1>1, <2>1 DEF Behind
  <2>3. Sitting' => cache' # NoSnapshot
    BY <1>0, <1>1, <1>3 DEF CopiesFollow
  <2>4. screen' = "result" => server'.status = "submitted"
    BY <1>0, <1>1, <1>3 DEF CopiesFollow, RowGrows
  <2>5. screen' # "loading" => fetch' = NoSnapshot
    BY <1>0, <1>1, <1>3 DEF CopiesFollow, Sitting
  <2>6. QED
    BY <1>0, <1>1, <1>2, <2>2, <2>3, <2>4, <2>5, RowStaysAhead DEF CopiesFollow
<1>5. QueueIsNewest'
  BY <1>0, <1>1, <1>2, <1>3 DEF QueueIsNewest, PageGoesOn
<1>6. ShownIsKept'
  <2>1. volatile' => Sitting'
    BY <1>0, <1>3 DEF ShownIsKept, PageGoesOn
  <2>2. ASSUME Sitting', NEW q \in Questions, Later(q, cache'.section) PROVE answers'[q] <= best'[q]
    <3>1. answers[q] <= best[q] /\ best[q] <= best'[q]
      BY <1>0, <1>1, <1>3, <2>2 DEF ShownIsKept, RowGrows
    <3>2. QED
      BY <1>1, <3>1
  <2>3. ASSUME screen' = "exam", ~volatile', NEW q \in Questions, Ahead(q)
        PROVE  answers'[q] <= best'[q] \/ queue'[q] = answers'[q]
    <3>1. CASE volatile' = volatile
      <4>1. answers[q] <= best[q] \/ queue[q] = answers[q]
        BY <1>0, <1>3, <2>3, <3>1 DEF ShownIsKept
      <4>2. best[q] <= best'[q]
        BY <1>1 DEF RowGrows
      <4>3. queue'[q] = queue[q] \/ queue[q] <= best'[q]
        BY <1>1, <2>3 DEF QueueShrinks
      <4>4. QED
        BY <1>1, <4>1, <4>2, <4>3
    <3>2. CASE volatile' # volatile
      BY <1>1, <2>3, <3>2 DEF PageGoesOn
    <3>3. QED
      BY <3>1, <3>2
  <2>4. QED
    BY <1>1, <2>1, <2>2, <2>3 DEF ShownIsKept, Ahead
<1>7. NothingForgotten'
  <2> SUFFICES ASSUME NEW q \in Questions, typed'[q] > best'[q]
               PROVE  queue'[q] = typed'[q] \/ server'.status = "submitted"
    BY DEF NothingForgotten
  <2>1. typed[q] > best[q]
    BY <1>1 DEF RowGrows
  <2>2. queue[q] = typed[q] \/ server.status = "submitted"
    BY <1>0, <2>1 DEF NothingForgotten
  <2>3. QED
    BY <1>1, <2>2 DEF QueueShrinks, RowGrows
<1>8. QED
  BY <1>4, <1>5, <1>6, <1>7

LEMMA RowKept == ASSUME PageInv, UNCHANGED <<server, best>> PROVE RowGrows
<1>1. /\ server.section \in Nat /\ \A q \in Questions : best[q] \in Nat
      /\ \A q \in Questions : server.answers[q] <= best[q]
  BY Numbers DEF PageInv, CopiesFollow
<1>2. QED
  BY <1>1 DEF RowGrows

LEMMA RowStored == ASSUME PageInv, chain # <<>>, StoreHead PROVE RowGrows
<1>1. server.section \in Nat
  BY Numbers DEF PageInv
<1>2. QED
  BY <1>1, StoreHeadFits DEF PageInv, RowGrows

LEMMA RowClosed ==
    ASSUME PageInv, UNCHANGED best, server' \in {server, [server EXCEPT !.status = "submitted"]}
    PROVE  RowGrows
<1>1. /\ server.section \in Nat /\ server \in Snapshot /\ \A q \in Questions : best[q] \in Nat
      /\ \A q \in Questions : server.answers[q] <= best[q]
  BY Numbers DEF PageInv, CopiesFollow, TypeOK
<1>2. /\ server'.status \in {server.status, "submitted"} /\ server'.section = server.section
      /\ server'.answers = server.answers
  BY <1>1 DEF Snapshot
<1>3. QED
  BY <1>1, <1>2 DEF RowGrows

LEMMA RowAdvanced ==
    ASSUME PageInv, UNCHANGED best, target \in 1..NumSections, server' \in {server, Advanced(target)}
    PROVE  RowGrows /\ server'.status = server.status
<1>1. /\ server.section \in Nat /\ server \in Snapshot /\ \A q \in Questions : best[q] \in Nat
      /\ target \in Nat /\ target > 0 /\ TypeOK /\ \A q \in Questions : server.answers[q] <= best[q]
  BY Numbers, Bounds DEF PageInv, CopiesFollow, TypeOK
<1>2. /\ server'.status = server.status /\ server'.answers = server.answers
      /\ server'.section = server.section \/ (server.section = target /\ server'.section = target + 1)
  <2>1. CASE server' = server
    BY <2>1
  <2>2. CASE server' = Advanced(target)
    <3>1. /\ Advanced(target).status = server.status /\ Advanced(target).answers = server.answers
          /\ \/ Advanced(target) = server
             \/ server.section = target /\ Advanced(target).section = target + 1
      BY <1>1, AdvancedFits
    <3>2. QED
      BY <2>2, <3>1
  <2>3. QED
    BY <2>1, <2>2
<1>3. server.section <= server'.section /\ (server'.section = 0 <=> server.section = 0)
  BY <1>1, <1>2
<1>4. QED
  BY <1>1, <1>2, <1>3 DEF RowGrows

\* The head of the chain, and what the server stores of it.
LEMMA HeadCarries ==
    ASSUME PageInv, chain # <<>>
    PROVE  /\ Head(chain) \in Save /\ Carries(Head(chain)) /\ Head(chain) \in Saves(chain)
           /\ \A q \in Questions : Head(chain).load[q] \in Nat /\ Head(chain).acks[q] \in Nat
<1>1. Head(chain) \in Save /\ Head(chain) \in Saves(chain)
  BY TailSaves DEF PageInv, TypeOK
<1>2. QED
  BY <1>1, SaveFields DEF PageInv, SavesCarry

LEMMA AckedIsStored ==
    ASSUME PageInv, chain # <<>>, StoreHead, queue' = AckedQueue(Head(chain)),
           volatile' = VolatileAfter(Head(chain))
    PROVE  /\ QueueShrinks
           /\ \/ volatile' = volatile
              \/ volatile /\ ~volatile' /\ \A q \in Questions : Ahead(q) => answers[q] <= best'[q]
<1> DEFINE s == Head(chain)
<1>1. /\ s \in Save /\ Carries(s) /\ TypeOK
      /\ \A q \in Questions : s.load[q] \in Nat /\ s.acks[q] \in Nat
  BY HeadCarries DEF PageInv
<1>2. \A q \in Questions : /\ best'[q] \in Nat /\ best[q] <= best'[q] /\ s.load[q] <= best'[q]
                           /\ best[q] \in Nat /\ queue[q] \in Nat /\ answers[q] \in Nat
  BY <1>1, StoreHeadFits, Numbers DEF PageInv
<1>3. \A q \in Questions : queue'[q] = IF s.acks[q] = queue[q] THEN 0 ELSE queue[q]
  BY <1>1, AckedQueueFits DEF TypeOK
<1>6. volatile' = VolatileAfter(s)
  OBVIOUS
<1> HIDE DEF s
<1>4. QueueShrinks
  <2> SUFFICES ASSUME NEW q \in Questions
               PROVE  queue'[q] = queue[q] \/ (queue'[q] = 0 /\ queue[q] <= best'[q])
    BY DEF QueueShrinks
  <2>1. CASE s.acks[q] = queue[q]
    <3>1. s.acks[q] <= s.load[q]
      BY <1>1 DEF Carries
    <3>2. queue[q] <= best'[q]
      BY <1>1, <1>2, <2>1, <3>1
    <3>3. QED
      BY <1>3, <2>1, <3>2
  <2>2. CASE s.acks[q] # queue[q]
    BY <1>3, <2>2
  <2>3. QED
    BY <2>1, <2>2
<1>5. ASSUME volatile' # volatile
      PROVE  volatile /\ ~volatile' /\ \A q \in Questions : Ahead(q) => answers[q] <= best'[q]
  <2>1. volatile /\ ~volatile' /\ s.snap /\ s.edit = edits
    <3>1. volatile \in BOOLEAN
      BY <1>1 DEF TypeOK
    <3>2. QED
      BY <1>5, <1>6, <3>1 DEF VolatileAfter
  <2>2. ASSUME NEW q \in Questions, Ahead(q) PROVE answers[q] <= best'[q]
    <3>1. answers[q] <= s.load[q] \/ answers[q] <= best[q]
      BY <1>1, <2>1, <2>2 DEF Carries
    <3>2. QED
      BY <1>1, <1>2, <3>1
  <2>3. QED
    BY <2>1, <2>2
<1>7. QED
  BY <1>4, <1>5

LEMMA QueueKept == ASSUME UNCHANGED queue PROVE QueueShrinks
BY DEF QueueShrinks

LEMMA QueueDropped ==
    ASSUME PageInv, server'.status = "submitted", queue' = None, screen' = "result" PROVE QueueShrinks
BY Bounds DEF QueueShrinks

\* A flow that fails leaves the answers alone, or finds the session over.
LEMMA FailedGoesOn ==
    ASSUME PageInv, NEW f \in Flows, NEW already \in BOOLEAN, FlowFails(f, already), Sitting,
           already => server'.status = "submitted"
    PROVE  /\ QueueShrinks
           /\ screen' = screen \/ (screen' = "result" /\ Sitting /\ server'.status = "submitted")
<1>1. UNCHANGED <<queue, screen>> \/ (already /\ queue' = None /\ screen' = "result")
  BY FlowFailsFits, TypeParts DEF PageInv
<1>2. QED
  BY <1>1, QueueKept, QueueDropped

LEMMA SettleGoesOn ==
    ASSUME PageInv, Acked \/ Refused \/ Dropped PROVE PageGoesOn
<1> DEFINE s == Head(chain)
<1>1. /\ chain # <<>> /\ s \in Save /\ Carries(s) /\ UNCHANGED settled
      /\ StoreHead \/ UNCHANGED <<server, best>>
  BY HeadCarries DEF Acked, Refused, Dropped
<1>2. RowGrows
  BY <1>1, RowKept, RowStored
<1>3. UNCHANGED <<cache, fetch, answers, typed, edits>>
  BY <1>1 DEF settled, sessionVars
<1>4. server.status = "submitted" => server'.status = "submitted"
  BY <1>2 DEF RowGrows
<1>5. ASSUME QueueShrinks, UNCHANGED volatile,
             screen' = screen \/ (screen' = "result" /\ Sitting /\ server'.status = "submitted")
      PROVE  PageGoesOn
  BY <1>2, <1>3, <1>5 DEF PageGoesOn
<1>6. CASE Acked
  <2>1. StoreHead /\ Settles(s, TRUE)
    BY <1>6 DEF Acked
  <2>2. CASE s.from = "auto" /\ AutoAcked(s)
    <3>1. queue' = AckedQueue(s) /\ volatile' = VolatileAfter(s) /\ UNCHANGED screen
      BY <2>2 DEF AutoAcked
    <3>2. QED
      BY <1>1, <1>2, <1>3, <2>1, <3>1, AckedIsStored DEF PageGoesOn
  <2>3. CASE s.from = "reconcile" /\ ReconcileAcked(s)
    BY <1>5, <2>3, QueueKept DEF ReconcileAcked
  <2>4. CASE s.from \in Flows /\ BarrierAcked(s)
    <3>1. queue' = AckedQueue(s) /\ volatile' = VolatileAfter(s) /\ UNCHANGED screen
      BY <2>4 DEF BarrierAcked
    <3>2. QED
      BY <1>1, <1>2, <1>3, <2>1, <3>1, AckedIsStored DEF PageGoesOn
  <2>5. CASE s.from = "flush" /\ FlushAcked(s)
    <3>1. queue' = None /\ UNCHANGED <<volatile, screen>>
      BY <2>5 DEF FlushAcked
    <3>2. s.load = answers /\ Sitting
      BY <1>1, <2>5 DEF Carries
    <3>3. \A q \in Questions : answers[q] <= best'[q] /\ queue[q] <= answers[q]
      BY <1>1, <2>1, <3>2, StoreHeadFits DEF PageInv, QueueIsNewest
    <3>4. \A q \in Questions : queue[q] <= best'[q] /\ queue'[q] = 0
      <4>1. \A q \in Questions : queue[q] \in Nat /\ answers[q] \in Nat /\ best'[q] \in Nat
        BY <1>1, <2>1, StoreHeadFits, Numbers DEF PageInv
      <4>2. QED
        BY <3>1, <3>3, <4>1, Bounds
    <3>5. QueueShrinks
      BY <3>4 DEF QueueShrinks
    <3>6. QED
      BY <1>5, <3>1, <3>5
  <2>6. CASE s.from = "orphan" /\ UNCHANGED <<queue, volatile, screen>>
    BY <1>5, <2>6, QueueKept
  <2>7. QED
    BY <2>1, <2>2, <2>3, <2>4, <2>5, <2>6 DEF Settles
<1>7. CASE Refused \/ Dropped
  <2>1. Settles(s, FALSE)
    BY <1>7 DEF Refused, Dropped
  <2>2. CASE s.from = "auto" /\ AutoFailed(s)
    BY <1>5, <2>2, QueueKept DEF AutoFailed
  <2>3. CASE s.from = "reconcile" /\ ReconcileFailed(s)
    BY <1>5, <2>3, QueueKept DEF ReconcileFailed
  <2>4. CASE s.from \in Flows /\ BarrierFailed(s)
    <3>1. FlowFails(s.from, server.status = "submitted") /\ UNCHANGED volatile
      BY <2>4 DEF BarrierFailed
    <3>2. Sitting
      BY <1>1, <2>4 DEF Carries
    <3>3. QED
      BY <1>4, <1>5, <2>4, <3>1, <3>2, FailedGoesOn
  <2>5. CASE s.from = "flush" /\ FlushFailed(s)
    <3>1. Sitting /\ UNCHANGED volatile
      BY <1>1, <2>5 DEF Carries, FlushFailed
    <3>2. \/ UNCHANGED <<queue, screen>>
          \/ server.status = "submitted" /\ queue' = None /\ screen' = "result"
      BY <2>5 DEF FlushFailed, ToResult
    <3>3. QED
      BY <1>4, <1>5, <3>1, <3>2, QueueKept, QueueDropped
  <2>6. CASE s.from = "orphan" /\ UNCHANGED <<queue, volatile, screen>>
    BY <1>5, <2>6, QueueKept
  <2>7. QED
    BY <2>1, <2>2, <2>3, <2>4, <2>5, <2>6 DEF Settles
<1>8. QED
  BY <1>6, <1>7

\* The flows' other steps, and the server's own.
LEMMA FlowGoesOn ==
    ASSUME PageInv,
           \/ \E f \in Flows : BarrierTimesOut(f) \/ SubmitPosted(f) \/ SubmitFails(f)
           \/ AdvancePosted \/ AdvanceFails
    PROVE  PageGoesOn
<1>1. \A f \in Flows : stage[f] # "idle" => Sitting
  BY DEF PageInv, FlowsKeep
<1>2. ASSUME NEW f \in Flows, BarrierTimesOut(f) PROVE PageGoesOn
  <2>1. /\ FlowFails(f, FALSE) /\ Sitting
        /\ UNCHANGED <<server, best, cache, fetch, answers, typed, edits, volatile>>
    BY <1>1, <1>2 DEF BarrierTimesOut, sessionVars, history
  <2>2. RowGrows
    BY <2>1, RowKept
  <2>3. QED
    BY <2>1, <2>2, FailedGoesOn DEF PageGoesOn
<1>3. ASSUME NEW f \in Flows, SubmitPosted(f) PROVE PageGoesOn
  <2>1. /\ Sitting /\ server' = [server EXCEPT !.status = "submitted"] /\ screen' = "result"
        /\ queue' \in {None, queue}
        /\ UNCHANGED <<best, cache, fetch, answers, typed, edits, volatile>>
    BY <1>1, <1>3 DEF SubmitPosted, sessionVars, posted, history
  <2>2. RowGrows /\ server'.status = "submitted"
    BY <2>1, RowClosed DEF PageInv, TypeOK, Snapshot
  <2>3. QueueShrinks
    BY <2>1, <2>2, QueueKept, QueueDropped
  <2>4. QED
    BY <2>1, <2>2, <2>3 DEF PageGoesOn
<1>4. ASSUME NEW f \in Flows, SubmitFails(f) PROVE PageGoesOn
  <2>1. /\ Sitting /\ server' \in {server, [server EXCEPT !.status = "submitted"]}
        /\ UNCHANGED <<best, cache, fetch, answers, typed, edits, volatile>>
    BY <1>1, <1>4 DEF SubmitFails, sessionVars, posted, history
  <2>2. RowGrows
    BY <2>1, RowClosed
  <2>3. CASE server.status = "submitted" /\ FlowFails(f, TRUE) /\ UNCHANGED server
    BY <2>1, <2>2, <2>3, FailedGoesOn DEF PageGoesOn
  <2>4. CASE FlowFails(f, FALSE)
    BY <2>1, <2>2, <2>4, FailedGoesOn DEF PageGoesOn
  <2>5. CASE UNCHANGED <<queue, screen>>
    BY <2>1, <2>2, <2>5, QueueKept DEF PageGoesOn
  <2>6. QED
    BY <1>4, <2>3, <2>4, <2>5 DEF SubmitFails
<1>5. CASE AdvancePosted
  <2>1. /\ target \in 1..NumSections /\ server' = Advanced(target)
        /\ UNCHANGED <<best, cache, fetch, answers, typed, edits, volatile, queue, screen>>
    BY <1>5 DEF AdvancePosted, sessionVars, posted, history, PageInv, FlowsKeep
  <2>2. RowGrows
    BY <2>1, RowAdvanced
  <2>3. QED
    BY <2>1, <2>2, QueueKept DEF PageGoesOn
<1>6. CASE AdvanceFails
  <2>1. /\ target \in 1..NumSections /\ server' \in {server, Advanced(target)} /\ Sitting
        /\ UNCHANGED <<best, cache, fetch, answers, typed, edits, volatile>>
    BY <1>1, <1>6 DEF AdvanceFails, sessionVars, posted, history, PageInv, FlowsKeep, Flows
  <2>2. RowGrows
    BY <2>1, RowAdvanced
  <2>3. CASE server.status = "submitted" /\ FlowFails("expiry", TRUE) /\ UNCHANGED server
    BY <2>1, <2>2, <2>3, FailedGoesOn DEF PageGoesOn, Flows
  <2>4. CASE FlowFails("expiry", FALSE)
    BY <2>1, <2>2, <2>4, FailedGoesOn DEF PageGoesOn, Flows
  <2>5. CASE UNCHANGED <<queue, screen>>
    BY <2>1, <2>2, <2>5, QueueKept DEF PageGoesOn
  <2>6. QED
    BY <1>6, <2>3, <2>4, <2>5 DEF AdvanceFails
<1>7. QED
  BY <1>2, <1>3, <1>4, <1>5, <1>6

LEMMA ServerGoesOn == ASSUME PageInv, ServerCloses PROVE PageGoesOn
<1>1. UNCHANGED <<queue, cache, fetch, screen, answers, volatile, typed, edits, best>>
  BY DEF ServerCloses, sessionVars, viewVars, history
<1>2. RowGrows
  <2>1. CASE server.section \in {0, Closed}
    BY <1>1, <2>1, RowClosed DEF ServerCloses
  <2>2. CASE server.section \notin {0, Closed}
    <3>1. /\ server.section \in Nat /\ server \in Snapshot /\ \A q \in Questions : best[q] \in Nat
          /\ \A q \in Questions : server.answers[q] <= best[q]
      BY Numbers DEF PageInv, CopiesFollow, TypeOK
    <3>2. /\ server'.section = server.section + 1 /\ server'.answers = server.answers
          /\ server'.status \in {server.status, "submitted"}
      BY <2>2, <3>1 DEF ServerCloses, Snapshot
    <3>3. server.section <= server'.section /\ (server'.section = 0 <=> server.section = 0)
      BY <2>2, <3>1, <3>2
    <3>4. QED
      BY <1>1, <3>1, <3>2, <3>3 DEF RowGrows
  <2>3. QED
    BY <2>1, <2>2
<1>3. QED
  BY <1>1, <1>2, QueueKept DEF PageGoesOn

\* Steps that only move the student, the timers, the chain or the flows.
LEMMA SilentGoesOn ==
    ASSUME PageInv,
           \/ \E p \in Positions : GoTo(p)
           \/ \E p \in Presses : PressSubmit(p)
           \/ Flush \/ Retry \/ Online \/ Reconcile \/ Tick \/ ExpiryStarts \/ RetryRecovery
           \/ UNCHANGED vars
    PROVE  /\ PageGoesOn
           /\ UNCHANGED <<server, best, queue, cache, fetch, answers, typed, edits, screen, volatile, visits>>
<1>1. UNCHANGED <<server, best, queue, cache, fetch, answers, typed, edits, screen, volatile, visits>>
  <2> USE DEF sessionVars, viewVars, history
  <2>1. CASE \E p \in Positions : GoTo(p)
    BY <2>1 DEF GoTo
  <2>2. CASE \E p \in Presses : PressSubmit(p)
    BY <2>2 DEF PressSubmit
  <2>3. CASE Flush \/ Retry \/ Online \/ Reconcile
    BY <2>3 DEF Flush, Retry, Online, Reconcile
  <2>4. CASE Tick \/ ExpiryStarts \/ RetryRecovery
    BY <2>4 DEF Tick, ExpiryStarts, RetryRecovery, RunRecovery
  <2>5. CASE UNCHANGED vars
    BY <2>5 DEF vars
  <2>6. QED
    BY <2>1, <2>2, <2>3, <2>4, <2>5
<1>2. RowGrows
  BY <1>1, RowKept
<1>3. QED
  BY <1>1, <1>2, QueueKept DEF PageGoesOn

\* The invariant's parts about what is typed, queued, shown and stored.
AnswersKept == CopiesFollow /\ QueueIsNewest /\ ShownIsKept /\ NothingForgotten

LEMMA EditKeeps ==
    ASSUME PageInv, TypeOK', NEW q \in Questions, Edit(q) PROVE AnswersKept'
<1>1. PICK taken \in BOOLEAN :
         /\ queue' = IF taken THEN [queue EXCEPT ![q] = edits'] ELSE queue
         /\ typed' = IF taken THEN [typed EXCEPT ![q] = edits'] ELSE typed
         /\ volatile' = (volatile \/ ~taken)
  BY PageConstants DEF Edit
<1>2. /\ screen = "exam" /\ q \in Scope(cache.section) /\ edits' = edits + 1
      /\ answers' = [answers EXCEPT ![q] = edits'] /\ Sitting
      /\ UNCHANGED <<server, cache, fetch, screen, best>>
  BY DEF Edit, sessionVars, Sitting
<1>3. TypeOK /\ CopiesFollow /\ QueueIsNewest /\ ShownIsKept /\ NothingForgotten
  BY DEF PageInv
<1>4. /\ edits \in Nat /\ server.section \in Nat /\ cache.section \in Nat
      /\ server.section <= Closed /\ cache.section <= Closed /\ Closed \in Nat
      /\ \A p \in Questions : /\ queue[p] \in Nat /\ typed[p] \in Nat /\ best[p] \in Nat /\ answers[p] \in Nat
                              /\ SectionOf[p] \in Nat /\ 0 < SectionOf[p] /\ SectionOf[p] < Closed
  BY <1>3, Numbers
<1>5. /\ answers'[q] = edits' /\ \A p \in Questions : p # q => answers'[p] = answers[p]
      /\ IF taken THEN queue'[q] = edits' /\ typed'[q] = edits'
                  ELSE queue'[q] = queue[q] /\ typed'[q] = typed[q]
      /\ \A p \in Questions : p # q => queue'[p] = queue[p] /\ typed'[p] = typed[p]
  BY <1>1, <1>2, <1>3 DEF TypeOK, Answers
<1>6. cache # NoSnapshot /\ fetch = NoSnapshot /\ Behind(cache)
  BY <1>2, <1>3 DEF CopiesFollow
<1>7. cache.section <= server.section /\ (cache.section = 0 <=> server.section = 0)
  BY <1>6 DEF Behind, BehindRow
<1>8. ~Later(q, cache.section) /\ ~Later(q, server.section)
  <2>1. CASE cache.section \in 1..NumSections
    <3>1. SectionOf[q] = cache.section
      BY <1>2, <2>1 DEF Scope
    <3>2. QED
      BY <1>4, <1>7, <3>1 DEF Later
  <2>2. CASE cache.section \notin 1..NumSections
    <3>1. cache.section = 0 \/ cache.section = Closed
      BY <1>4, <2>2, Bounds
    <3>2. QED
      BY <1>4, <1>7, <3>1 DEF Later
  <2>3. QED
    BY <2>1, <2>2
<1>9. CopiesFollow'
  <2>1. \A p \in Questions : queue'[p] > 0 => ~Later(p, server.section) /\ ~Later(p, cache.section)
    BY <1>3, <1>5, <1>6, <1>8 DEF CopiesFollow, Behind, BehindRow
  <2>2. Behind(cache)'
    BY <1>2, <1>6, <2>1 DEF Behind, BehindRow
  <2>3. Behind(fetch)'
    BY <1>2, <1>6 DEF Behind, BehindRow
  <2>4. QED
    BY <1>2, <1>3, <1>6, <2>1, <2>2, <2>3 DEF CopiesFollow, Sitting
<1>10. QueueIsNewest'
  <2>1. \A p \in Questions : queue[p] <= edits /\ queue[p] <= answers[p] /\ queue[p] \in {0, typed[p]}
                             /\ typed[p] <= edits
    BY <1>2, <1>3, <1>4 DEF QueueIsNewest
  <2>2. ASSUME NEW p \in Questions
        PROVE  queue'[p] \in {0, typed'[p]} /\ typed'[p] <= edits' /\ queue'[p] <= answers'[p]
    <3>1. CASE p = q
      BY <1>2, <1>4, <1>5, <2>1, <3>1
    <3>2. CASE p # q
      BY <1>2, <1>4, <1>5, <2>1, <3>2
    <3>3. QED
      BY <3>1, <3>2
  <2>3. QED
    BY <2>2 DEF QueueIsNewest
<1>11. ShownIsKept'
  <2>1. volatile' => Sitting'
    BY <1>2 DEF Sitting
  <2>2. ASSUME NEW p \in Questions, Later(p, cache'.section) PROVE answers'[p] <= best'[p]
    BY <1>2, <1>3, <1>5, <1>8, <2>2 DEF ShownIsKept
  <2>3. ASSUME ~volatile', NEW p \in Questions, Ahead(p)'
        PROVE  answers'[p] <= best'[p] \/ queue'[p] = answers'[p]
    <3>1. taken /\ ~volatile
      BY <1>1, <2>3
    <3>2. CASE p = q
      BY <1>5, <3>1, <3>2
    <3>3. CASE p # q
      BY <1>2, <1>3, <1>5, <2>3, <3>1, <3>3 DEF ShownIsKept, Ahead
    <3>4. QED
      BY <3>2, <3>3
  <2>4. QED
    BY <2>1, <2>2, <2>3 DEF ShownIsKept
<1>12. NothingForgotten'
  <2> SUFFICES ASSUME NEW p \in Questions, typed'[p] > best'[p]
               PROVE  queue'[p] = typed'[p] \/ server'.status = "submitted"
    BY DEF NothingForgotten
  <2>1. CASE p = q /\ taken
    BY <1>5, <2>1
  <2>2. CASE ~(p = q /\ taken)
    BY <1>2, <1>3, <1>5, <2>2 DEF NothingForgotten
  <2>3. QED
    BY <2>1, <2>2
<1>13. QED
  BY <1>9, <1>10, <1>11, <1>12 DEF AnswersKept

\* A copy of the session that is rendered, with the queue laid over it.
LEMMA HydrateKeeps ==
    ASSUME PageInv, TypeOK', NEW snap \in Snapshot, snap # NoSnapshot, Behind(snap), ~Sitting,
           cache' = snap, answers' = Shown(snap), fetch' = NoSnapshot,
           UNCHANGED <<server, queue, typed, best, edits, volatile>>,
           \/ screen' = "exam"
           \/ screen' = "result" /\ snap.status # "in_progress"
    PROVE  AnswersKept'
<1>1. TypeOK /\ CopiesFollow /\ QueueIsNewest /\ ShownIsKept /\ NothingForgotten /\ ~volatile
  BY DEF PageInv, ShownIsKept
<1>2. /\ snap.status # "none" /\ (snap.status = "submitted" => server.status = "submitted")
      /\ \A q \in Questions : snap.answers[q] <= best[q]
      /\ \A q \in Questions : queue[q] > 0 => ~Later(q, snap.section)
  BY DEF Behind, BehindRow
<1>3. \A q \in Questions : /\ answers'[q] = IF queue[q] > 0 THEN queue[q] ELSE snap.answers[q]
                           /\ queue[q] \in Nat /\ snap.answers[q] \in Nat
  BY <1>1, ShownFits, Numbers, AnswersAreNat DEF TypeOK
<1>4. CopiesFollow'
  <2>1. Behind(cache)' /\ Behind(fetch)'
    BY DEF Behind, BehindRow
  <2>2. screen' = "result" => server'.status = "submitted"
    <3>1. snap.status \in {"none", "in_progress", "submitted"}
      BY DEF Snapshot
    <3>2. QED
      BY <1>2, <3>1
  <2>3. QED
    BY <1>1, <2>1, <2>2 DEF CopiesFollow
<1>5. QueueIsNewest'
  BY <1>1, <1>3 DEF QueueIsNewest
<1>6. ShownIsKept'
  <2>1. \A q \in Questions : Later(q, snap.section) => answers'[q] <= best[q]
    BY <1>2, <1>3
  <2>2. \A q \in Questions : answers'[q] <= best[q] \/ queue[q] = answers'[q]
    BY <1>2, <1>3
  <2>3. QED
    BY <1>1, <2>1, <2>2 DEF ShownIsKept
<1>7. NothingForgotten'
  BY <1>1 DEF NothingForgotten
<1>8. QED
  BY <1>4, <1>5, <1>6, <1>7 DEF AnswersKept

\* A later section is active in a newer copy, or the same one.
LEMMA RefetchMoves ==
    ASSUME PageInv, Refetch
    PROVE  /\ cache.section <= server.section /\ (cache.section = 0 <=> server.section = 0)
           /\ cache' = server /\ Sitting
           /\ \A q \in Questions : Ahead(q)' => Ahead(q)
           /\ \A q \in Questions : Later(q, cache'.section) => Later(q, cache.section)
           /\ UNCHANGED <<server, queue, fetch, screen, answers, chain, volatile, status, stage, target,
                          pressed, edits, typed, best>>
<1>1. /\ cache' = server /\ Sitting
      /\ UNCHANGED <<server, queue, fetch, screen, answers, chain, volatile, status, stage, target,
                     pressed, edits, typed, best>>
  BY DEF Refetch, flowVars, history, Sitting
<1>2. cache # NoSnapshot /\ Behind(cache)
  BY <1>1 DEF PageInv, CopiesFollow
<1>3. cache.section <= server.section /\ (cache.section = 0 <=> server.section = 0)
  BY <1>2 DEF Behind, BehindRow
<1>4. /\ server.section \in Nat /\ cache.section \in Nat
      /\ \A q \in Questions : SectionOf[q] \in Nat
  BY Numbers DEF PageInv
<1>5. \A q \in Questions : Ahead(q)' => Ahead(q)
  BY <1>1, <1>3, <1>4 DEF Ahead
<1>6. \A q \in Questions : Later(q, cache'.section) => Later(q, cache.section)
  BY <1>1, <1>3, <1>4 DEF Later
<1>7. QED
  BY <1>1, <1>3, <1>5, <1>6

LEMMA RowIsBehindItself == ASSUME PageInv PROVE BehindRow(server, server, best, queue)
<1>1. server.section \in Nat
  BY Numbers DEF PageInv
<1>2. QED
  BY <1>1 DEF PageInv, CopiesFollow, BehindRow

LEMMA RefetchKeeps == ASSUME PageInv, TypeOK', Refetch PROVE AnswersKept'
<1>1. TypeOK /\ CopiesFollow /\ QueueIsNewest /\ ShownIsKept /\ NothingForgotten
  BY DEF PageInv
<1>2. CopiesFollow'
  <2>1. Behind(cache)' /\ Behind(fetch)'
    BY <1>1, RefetchMoves, RowIsBehindItself DEF Behind, CopiesFollow
  <2>2. cache' # NoSnapshot
    BY <1>1, RefetchMoves, Bounds DEF CopiesFollow
  <2>3. QED
    BY <1>1, <2>1, <2>2, RefetchMoves DEF CopiesFollow
<1>3. QueueIsNewest'
  BY <1>1, RefetchMoves DEF QueueIsNewest, Sitting
<1>4. ShownIsKept'
  <2>1. volatile' => Sitting'
    BY RefetchMoves DEF Sitting
  <2>2. \A q \in Questions : Sitting' /\ Later(q, cache'.section) => answers'[q] <= best'[q]
    BY <1>1, RefetchMoves DEF ShownIsKept
  <2>3. \A q \in Questions : screen' = "exam" /\ ~volatile' /\ Ahead(q)' =>
          answers'[q] <= best'[q] \/ queue'[q] = answers'[q]
    BY <1>1, RefetchMoves DEF ShownIsKept
  <2>4. QED
    BY <2>1, <2>2, <2>3 DEF ShownIsKept
<1>5. NothingForgotten'
  BY <1>1, RefetchMoves DEF NothingForgotten
<1>6. QED
  BY <1>2, <1>3, <1>4, <1>5 DEF AnswersKept

\* Nothing is shown while the session loads, or when the page is left.
LEMMA BlankKeeps ==
    ASSUME PageInv, TypeOK', RowGrows, screen' \in {"away", "loading"}, cache' \in {cache, NoSnapshot},
           fetch' = NoSnapshot, ~volatile', UNCHANGED <<queue, typed, edits>>
    PROVE  AnswersKept'
<1>1. TypeOK /\ CopiesFollow /\ QueueIsNewest /\ NothingForgotten /\ ~Sitting'
  BY DEF PageInv, Sitting
<1>2. CopiesFollow'
  <2>1. Behind(cache)'
    <3>1. CASE cache' = NoSnapshot
      BY <3>1 DEF Behind, BehindRow
    <3>2. CASE cache' = cache
      BY <1>1, <3>2, BehindStays DEF CopiesFollow, Behind, TypeOK
    <3>3. QED
      BY <3>1, <3>2
  <2>2. Behind(fetch)'
    BY DEF Behind, BehindRow
  <2>3. QED
    BY <1>1, <2>1, <2>2, RowStaysAhead DEF CopiesFollow
<1>3. QueueIsNewest'
  BY <1>1 DEF QueueIsNewest
<1>4. ShownIsKept'
  BY <1>1 DEF ShownIsKept, Sitting
<1>5. NothingForgotten'
  <2> SUFFICES ASSUME NEW q \in Questions, typed'[q] > best'[q]
               PROVE  queue'[q] = typed'[q] \/ server'.status = "submitted"
    BY DEF NothingForgotten
  <2>1. typed[q] \in Nat /\ best[q] \in Nat /\ best'[q] \in Nat
    BY <1>1, AnswersAreNat DEF TypeOK
  <2>2. typed[q] > best[q]
    BY <2>1 DEF RowGrows
  <2>3. QED
    BY <1>1, <2>2 DEF NothingForgotten, RowGrows
<1>6. QED
  BY <1>2, <1>3, <1>4, <1>5 DEF AnswersKept

\* The page is opened on what React Query still holds, or on nothing.
LEMMA EnterCases ==
    ASSUME PageInv, Enter
    PROVE  /\ UNCHANGED <<server, queue, fetch, volatile, stage, target, pressed, expired, fired, edits, typed, best>>
           /\ ~Sitting /\ ~volatile /\ fetch = NoSnapshot
           /\ \/ /\ cache # NoSnapshot /\ Hydrate(cache, <<>>, Replay(cache.section, cache.pos))
                 /\ cache' = cache /\ answers' = Shown(cache)
                 /\ \/ screen' = "exam" /\ status' = "saving"
                    \/ screen' = "result" /\ cache.status # "in_progress"
              \/ /\ cache' = NoSnapshot /\ screen' = "loading" /\ chain' = Replay(0, 1)
<1>1. screen = "away" /\ ~Sitting
  BY DEF Enter, Sitting
<1>2. ~volatile /\ fetch = NoSnapshot
  BY <1>1 DEF PageInv, ShownIsKept, CopiesFollow
<1>3. UNCHANGED <<server, queue, fetch, volatile, stage, target, pressed, expired, fired, edits, typed, best>>
  BY DEF Enter, flowVars, clockVars
<1>4. CASE cache # NoSnapshot /\ Hydrate(cache, <<>>, Replay(cache.section, cache.pos))
  BY <1>1, <1>2, <1>3, <1>4 DEF Hydrate
<1>5. CASE cache' = NoSnapshot /\ screen' = "loading" /\ chain' = Replay(0, 1)
  BY <1>1, <1>2, <1>3, <1>5
<1>6. QED
  BY <1>4, <1>5 DEF Enter

LEMMA LeavingGrows ==
    ASSUME PageInv, Leave \/ Reload
    PROVE  /\ RowGrows /\ Unmounted /\ cache' \in {cache, NoSnapshot}
           /\ UNCHANGED <<queue, typed, edits>>
<1>1. Unmounted /\ cache' \in {cache, NoSnapshot} /\ UNCHANGED <<queue, typed, edits>>
  BY DEF Leave, Reload, Unmounted
<1>2. UNCHANGED <<server, best>> \/ (chain # <<>> /\ StoreHead)
  BY DEF Leave, Reload
<1>3. QED
  BY <1>1, <1>2, RowKept, RowStored

LEMMA AnswersStep ==
    ASSUME PageInv, TypeOK', [Next]_vars PROVE AnswersKept'
<1>1. ASSUME NEW q \in Questions, Edit(q) PROVE AnswersKept'
  BY <1>1, EditKeeps
<1>2. ASSUME PageGoesOn PROVE AnswersKept'
  BY <1>2, GoesOnKeeps DEF AnswersKept
<1>3. CASE FetchReads
  <2>1. UNCHANGED <<server, queue, cache, screen, answers, volatile, typed, best, edits>> /\ fetch' = server
        /\ screen = "loading"
    BY <1>3 DEF FetchReads, viewVars, history
  <2>2. CopiesFollow'
    BY <2>1, RowIsBehindItself DEF PageInv, CopiesFollow, Behind, Sitting
  <2>3. QueueIsNewest' /\ ShownIsKept' /\ NothingForgotten'
    BY <2>1 DEF PageInv, QueueIsNewest, ShownIsKept, NothingForgotten, Sitting, Ahead
  <2>4. QED
    BY <2>2, <2>3 DEF AnswersKept
<1>4. CASE FetchArrives
  <2>1. /\ fetch # NoSnapshot /\ fetch' = NoSnapshot /\ cache' = fetch /\ answers' = Shown(fetch) /\ ~Sitting
        /\ UNCHANGED <<server, queue, typed, best, edits, volatile>>
        /\ screen' = "exam" \/ (screen' = "result" /\ fetch.status # "in_progress")
    BY <1>4 DEF FetchArrives, Hydrate, history, Sitting
  <2>2. fetch \in Snapshot /\ Behind(fetch)
    BY DEF PageInv, TypeOK, CopiesFollow
  <2>3. QED
    BY <2>1, <2>2, HydrateKeeps
<1>5. CASE Refetch
  BY <1>5, RefetchKeeps
<1>6. CASE Enter
  <2>1. /\ UNCHANGED <<server, queue, fetch, volatile, edits, typed, best>>
        /\ ~Sitting /\ ~volatile /\ fetch = NoSnapshot
    BY <1>6, EnterCases
  <2>2. CASE /\ cache # NoSnapshot /\ cache' = cache /\ answers' = Shown(cache)
             /\ screen' = "exam" \/ (screen' = "result" /\ cache.status # "in_progress")
    <3>1. cache \in Snapshot /\ Behind(cache)
      BY DEF PageInv, TypeOK, CopiesFollow
    <3>2. QED
      BY <2>1, <2>2, <3>1, HydrateKeeps
  <2>3. CASE cache' = NoSnapshot /\ screen' = "loading"
    BY <2>1, <2>3, RowKept, BlankKeeps
  <2>4. QED
    BY <1>6, <2>2, <2>3, EnterCases
<1>7. CASE Leave \/ Reload
  <2>1. /\ RowGrows /\ cache' \in {cache, NoSnapshot} /\ UNCHANGED <<queue, typed, edits>>
        /\ screen' = "away" /\ fetch' = NoSnapshot /\ ~volatile'
    BY <1>7, LeavingGrows DEF Unmounted
  <2>2. QED
    BY <2>1, BlankKeeps
<1>8. QED
  BY <1>1, <1>2, <1>3, <1>4, <1>5, <1>6, <1>7, SettleGoesOn, FlowGoesOn, ServerGoesOn, SilentGoesOn
     DEF Next, Student, Timers, Network, Visits

-----------------------------------------------------------------------------
(* The save indicator *)

LEMMA DrainedScope ==
    ASSUME TypeOK, NEW qu \in Answers, ~Holds(qu) PROVE \A q \in Scope(cache.section) : qu[q] = 0
<1> SUFFICES ASSUME NEW q \in Scope(cache.section) PROVE qu[q] = 0
  OBVIOUS
<1>1. q \in Questions /\ qu[q] \in Nat /\ InScope(qu)[q] = qu[q]
  BY InScopeFits, AnswersAreNat DEF Scope
<1>2. ~(InScope(qu)[q] > 0)
  BY <1>1 DEF Holds
<1>3. QED
  BY <1>1, <1>2

\* The open section is not behind the one that is open.
LEMMA ScopeIsAhead ==
    ASSUME TypeOK, cache.section # Closed, NEW q \in Scope(cache.section)
    PROVE  q \in Questions /\ Ahead(q) /\ (cache.section > 0 => SectionOf[q] = cache.section)
<1>1. /\ q \in Questions /\ cache.section \in Nat /\ cache.section <= Closed
      /\ NumSections \in Nat /\ Closed = NumSections + 1
      /\ cache.section \in 1..NumSections => SectionOf[q] = cache.section
  BY Numbers, Bounds DEF Scope
<1>2. cache.section = 0 \/ SectionOf[q] = cache.section
  BY <1>1
<1>3. QED
  BY <1>1, <1>2 DEF Ahead

\* "saved" stays true, or is painted when nothing is queued.
LEMMA SavedGoesOn ==
    ASSUME PageInv, TypeOK', PageGoesOn,
           status' = "saved" => status = "saved" \/ \A q \in Scope(cache.section) : queue'[q] = 0
    PROVE  SavedMeansStored'
<1>1. /\ TypeOK /\ SavedMeansStored /\ ShownIsKept' /\ RowGrows /\ UNCHANGED <<cache, answers>>
      /\ screen' = "exam" => screen = "exam"
      /\ \A q \in Questions : /\ best[q] \in Nat /\ best'[q] \in Nat /\ answers[q] \in Nat
                              /\ best[q] <= best'[q]
  BY GoesOnKeeps, AnswersAreNat DEF PageInv, TypeOK, PageGoesOn, RowGrows
<1> SUFFICES ASSUME screen' = "exam", status' = "saved", ~volatile', cache.section # Closed,
                    NEW q \in Scope(cache.section)
             PROVE  answers[q] <= best'[q]
  BY <1>1 DEF SavedMeansStored, Scope
<1>2. q \in Questions /\ Ahead(q) /\ Ahead(q)'
  BY <1>1, ScopeIsAhead DEF Ahead
<1>3. CASE queue'[q] = 0
  BY <1>1, <1>2, <1>3 DEF ShownIsKept
<1>4. CASE status = "saved" /\ volatile' = volatile
  <2>1. answers[q] <= best[q]
    BY <1>1, <1>4 DEF SavedMeansStored
  <2>2. QED
    BY <1>1, <1>2, <2>1
<1>5. CASE volatile' # volatile
  BY <1>2, <1>5 DEF PageGoesOn
<1>6. QED
  BY <1>3, <1>4, <1>5

LEMMA SettleSaves ==
    ASSUME PageInv, Acked \/ Refused \/ Dropped, status' = "saved"
    PROVE  status = "saved" \/ \A q \in Scope(cache.section) : queue'[q] = 0
<1> DEFINE s == Head(chain)
<1>1. /\ TypeOK /\ s \in Save /\ queue \in Answers /\ AckedQueue(s) \in Answers
      /\ Settles(s, TRUE) \/ Settles(s, FALSE)
  BY HeadCarries, AckedQueueFits DEF PageInv, TypeOK, Acked, Refused, Dropped
<1> HIDE DEF s
<1>2. ASSUME NEW qu \in Answers, queue' = qu, ~Holds(qu)
      PROVE  \A q \in Scope(cache.section) : queue'[q] = 0
  BY <1>1, <1>2, DrainedScope
<1>3. CASE AutoAcked(s)
  BY <1>1, <1>2, <1>3 DEF AutoAcked
<1>4. CASE ReconcileAcked(s)
  BY <1>1, <1>2, <1>4 DEF ReconcileAcked
<1>5. CASE BarrierAcked(s)
  BY <1>1, <1>2, <1>5 DEF BarrierAcked
<1>6. CASE AutoFailed(s) \/ ReconcileFailed(s) \/ BarrierFailed(s)
  BY <1>6 DEF AutoFailed, ReconcileFailed, BarrierFailed
<1>7. CASE FlushAcked(s) \/ FlushFailed(s) \/ UNCHANGED status
  BY <1>7 DEF FlushAcked, FlushFailed
<1>8. QED
  BY <1>1, <1>3, <1>4, <1>5, <1>6, <1>7 DEF Settles

LEMMA SilentSaves ==
    ASSUME PageInv, status' = "saved",
           \/ \E p \in Positions : GoTo(p)
           \/ \E p \in Presses : PressSubmit(p)
           \/ Flush \/ Retry \/ Online \/ Reconcile \/ Tick \/ ExpiryStarts \/ RetryRecovery
           \/ UNCHANGED vars
    PROVE  status = "saved" \/ \A q \in Scope(cache.section) : queue'[q] = 0
<1>1. TypeOK /\ queue \in Answers /\ queue' = queue
  BY SilentGoesOn DEF PageInv, TypeOK
<1>2. CASE ~Dirty(queue, savedPos, volatile)
  BY <1>1, <1>2, DrainedScope DEF Dirty
<1>3. CASE Dirty(queue, savedPos, volatile)
  <2>1. ASSUME RunRecovery PROVE status = "saved"
    BY <1>3, <2>1 DEF RunRecovery, StartBarrier
  <2>2. ASSUME AttemptSave(queue) PROVE status = "saved"
    BY <1>3, <2>2 DEF AttemptSave
  <2>3. CASE \E p \in Positions : GoTo(p)
    BY <2>3 DEF GoTo
  <2>4. CASE \E p \in Presses : PressSubmit(p)
    BY <1>3, <2>4 DEF PressSubmit, StartBarrier
  <2>5. CASE Flush \/ Retry \/ Online
    BY <2>2, <2>5 DEF Flush, Retry, Online
  <2>6. CASE Reconcile \/ Tick
    BY <2>6 DEF Reconcile, Tick
  <2>7. CASE ExpiryStarts \/ RetryRecovery
    BY <2>1, <2>7 DEF ExpiryStarts, RetryRecovery
  <2>8. CASE UNCHANGED vars
    BY <2>8 DEF vars
  <2>9. QED
    BY <2>3, <2>4, <2>5, <2>6, <2>7, <2>8
<1>4. QED
  BY <1>2, <1>3

LEMMA FlowSaves ==
    ASSUME status' = "saved",
           \/ \E f \in Flows : BarrierTimesOut(f) \/ SubmitPosted(f) \/ SubmitFails(f)
           \/ AdvancePosted \/ AdvanceFails \/ ServerCloses
    PROVE  status = "saved"
BY DEF BarrierTimesOut, SubmitPosted, SubmitFails, AdvancePosted, AdvanceFails, ServerCloses, posted

LEMMA RefetchSaves ==
    ASSUME PageInv, TypeOK', Refetch PROVE SavedMeansStored'
<1>1. /\ TypeOK /\ SavedMeansStored /\ ShownIsKept /\ screen = "exam" /\ cache' = server
      /\ UNCHANGED <<screen, answers, volatile, status, best>>
      /\ cache.section <= server.section /\ (cache.section = 0 <=> server.section = 0)
  BY RefetchMoves DEF PageInv, Refetch
<1> SUFFICES ASSUME status = "saved", ~volatile, cache'.section # Closed, NEW q \in Scope(cache'.section)
             PROVE  answers[q] <= best[q]
  BY <1>1 DEF SavedMeansStored, Scope
<1>2. /\ cache.section \in Nat /\ server.section \in Nat /\ server.section <= Closed
      /\ q \in Questions /\ NumSections \in Nat /\ Closed = NumSections + 1
      /\ server.section \in 1..NumSections => SectionOf[q] = server.section
  BY <1>1, Numbers, Bounds DEF Scope
<1>3. CASE cache.section = server.section
  BY <1>1, <1>3 DEF SavedMeansStored, Scope
<1>4. CASE cache.section # server.section
  <2>1. SectionOf[q] = server.section /\ cache.section > 0
    BY <1>1, <1>2, <1>4
  <2>2. Later(q, cache.section)
    BY <1>1, <1>2, <1>4, <2>1 DEF Later
  <2>3. QED
    BY <1>1, <1>2, <2>2 DEF ShownIsKept, Sitting
<1>5. QED
  BY <1>3, <1>4

LEMMA SavedStep ==
    ASSUME PageInv, TypeOK', [Next]_vars PROVE SavedMeansStored'
<1>1. ASSUME NEW q \in Questions, Edit(q) PROVE SavedMeansStored'
  BY <1>1 DEF Edit, SavedMeansStored
<1>2. CASE FetchReads
  BY <1>2 DEF FetchReads, viewVars, SavedMeansStored
<1>3. CASE FetchArrives
  BY <1>3 DEF FetchArrives, Hydrate, SavedMeansStored
<1>4. CASE Enter
  <2>1. screen' # "exam" \/ status' = "saving"
    BY <1>4, EnterCases
  <2>2. QED
    BY <2>1 DEF SavedMeansStored
<1>5. CASE Leave \/ Reload
  BY <1>5 DEF Leave, Reload, Unmounted, SavedMeansStored
<1>6. CASE Refetch
  BY <1>6, RefetchSaves
<1>7. CASE Acked \/ Refused \/ Dropped
  BY <1>7, SettleGoesOn, SettleSaves, SavedGoesOn
<1>8. CASE (\E f \in Flows : BarrierTimesOut(f) \/ SubmitPosted(f) \/ SubmitFails(f))
             \/ AdvancePosted \/ AdvanceFails \/ ServerCloses
  BY <1>8, FlowGoesOn, ServerGoesOn, FlowSaves, SavedGoesOn
<1>9. CASE \/ \E p \in Positions : GoTo(p)
           \/ \E p \in Presses : PressSubmit(p)
           \/ Flush \/ Retry \/ Online \/ Reconcile \/ Tick \/ ExpiryStarts \/ RetryRecovery
           \/ UNCHANGED vars
  BY <1>9, SilentGoesOn, SilentSaves, SavedGoesOn
<1>10. QED
  BY <1>1, <1>2, <1>3, <1>4, <1>5, <1>6, <1>7, <1>8, <1>9 DEF Next, Student, Timers, Network, Visits

-----------------------------------------------------------------------------
(* What the saves under way carry *)

\* A save that acknowledges no more than it brings, and that no flow waits for.
LEMMA PlainCarries ==
    ASSUME NEW t \in Save, ~t.snap, t.from \notin Flows \cup {"flush"}, t.edit <= edits',
           \A q \in Questions : t.acks[q] <= t.load[q]
    PROVE  Carries(t)'
BY DEF Carries, Flows

\* A save sent before, or one that says the same.
LEMMA OldSaveCarries ==
    ASSUME TypeOK, TypeOK', NEW s \in Save, Carries(s), NEW t \in Save,
           t.from \in {s.from, "orphan"}, t.acks = s.acks, t.load = s.load, t.edit = s.edit, t.snap = s.snap,
           UNCHANGED <<answers, edits>>, Sitting => Sitting',
           \A q \in Questions : best[q] <= best'[q] /\ (Ahead(q)' => Ahead(q)),
           t.from = "flush" => expired' /\ cache'.section = 0,
           t.from = "expiry" => cache'.section > 0,
           t.from \in Presses => stage'[t.from] = "draining" /\ pressed'[t.from] = pressed[t.from]
    PROVE  Carries(t)'
<1>1. \A q \in Questions : /\ best[q] \in Nat /\ best'[q] \in Nat /\ answers[q] \in Nat
                           /\ t.load[q] \in Nat /\ t.acks[q] \in Nat
                           /\ t.from \in Presses => pressed[t.from][q] \in Nat
  BY AnswersAreNat, SaveFields, Numbers DEF TypeOK
<1>2. t.edit <= edits' /\ \A q \in Questions : t.acks[q] <= t.load[q]
  BY DEF Carries
<1>3. t.snap \/ t.from \in Flows \cup {"flush"} => Sitting'
  BY Bounds DEF Carries
<1>4. t.from = "flush" => t.load = answers' /\ expired' /\ cache'.section = 0
  BY DEF Carries
<1>5. t.from \in Presses => /\ stage'[t.from] = "draining"
                            /\ \A q \in Questions : \/ pressed'[t.from][q] <= best'[q]
                                                    \/ pressed'[t.from][q] <= t.load[q]
  <2> SUFFICES ASSUME t.from \in Presses
               PROVE  /\ stage'[t.from] = "draining"
                      /\ \A q \in Questions : pressed'[t.from][q] <= best'[q] \/ pressed'[t.from][q] <= t.load[q]
    OBVIOUS
  <2>1. s.from = t.from
    BY Bounds
  <2>2. \A q \in Questions : pressed[t.from][q] <= best[q] \/ pressed[t.from][q] <= t.load[q]
    BY <2>1 DEF Carries
  <2>3. QED
    BY <1>1, <2>2
<1>6. ASSUME t.snap, t.edit = edits', NEW q \in Questions, Ahead(q)'
      PROVE  answers'[q] <= t.load[q] \/ answers'[q] <= best'[q]
  BY <1>1, <1>6 DEF Carries
<1>7. QED
  BY <1>2, <1>3, <1>4, <1>5, <1>6 DEF Carries

\* A step that leaves a draining press draining.
PressGoesOn(p) == stage[p] = "draining" => stage'[p] = "draining" /\ pressed'[p] = pressed[p]

LEMMA GoesOnCarries ==
    ASSUME PageInv, TypeOK', PageGoesOn, expired => expired', NEW s \in Saves(chain), s \in Save, NEW t \in Save,
           t.from \in {s.from, "orphan"}, t.acks = s.acks, t.load = s.load, t.edit = s.edit, t.snap = s.snap,
           t.from \in Presses => PressGoesOn(t.from)
    PROVE  Carries(t)'
<1>1. Carries(s) /\ TypeOK
  BY DEF PageInv, SavesCarry
<1>2. /\ UNCHANGED <<answers, edits, cache>> /\ (Sitting => Sitting')
      /\ \A q \in Questions : best[q] <= best'[q] /\ (Ahead(q)' => Ahead(q))
  BY DEF PageGoesOn, RowGrows, Sitting, Ahead
<1>3. t.from = "flush" => expired' /\ cache'.section = 0
  BY <1>1, <1>2 DEF Carries
<1>4. t.from \in Presses => stage'[t.from] = "draining" /\ pressed'[t.from] = pressed[t.from]
  BY <1>1, Bounds DEF Carries, PressGoesOn
<1>5. t.from = "expiry" => cache'.section > 0
  BY <1>1, <1>2 DEF Carries
<1>6. QED
  BY <1>1, <1>2, <1>3, <1>4, <1>5, OldSaveCarries

\* A save of the queue, or of what the page shows when an edit is volatile.
LEMMA NewSaveCarries ==
    ASSUME PageInv, TypeOK', PageGoesOn, NEW t \in Save, t.edit = edits, t.from \in {"auto"} \cup Flows,
           NEW qu \in Answers, \A q \in Questions : qu[q] \in {0, queue[q]}, t.acks = InScope(qu),
           t.snap => volatile /\ t.load = InScope(answers),
           ~t.snap => t.load = InScope(qu),
           t.from \in Flows => Sitting,
           t.from = "expiry" => cache.section > 0,
           t.from \in Presses => /\ stage'[t.from] = "draining"
                                 /\ \A q \in Questions : \/ pressed'[t.from][q] <= best'[q]
                                                         \/ pressed'[t.from][q] <= t.load[q]
    PROVE  Carries(t)'
<1>1. /\ TypeOK /\ ShownIsKept /\ QueueIsNewest /\ UNCHANGED <<answers, edits, cache>> /\ (Sitting => Sitting')
      /\ \A q \in Questions : best[q] <= best'[q] /\ (Ahead(q)' => Ahead(q))
  BY DEF PageInv, PageGoesOn, RowGrows, Sitting, Ahead
<1>2. /\ \A q \in Questions : /\ best[q] \in Nat /\ best'[q] \in Nat /\ answers[q] \in Nat /\ qu[q] \in Nat
                              /\ queue[q] \in Nat /\ SectionOf[q] \in Nat
                              /\ SectionOf[q] > 0 /\ SectionOf[q] < Closed
      /\ edits \in Nat /\ cache.section \in Nat /\ Closed = NumSections + 1 /\ NumSections \in Nat
  BY <1>1, AnswersAreNat, Numbers, Bounds DEF TypeOK
<1>3. /\ \A q \in Questions : InScope(qu)[q] = IF q \in Scope(cache.section) THEN qu[q] ELSE 0
      /\ \A q \in Questions : InScope(answers)[q] = IF q \in Scope(cache.section) THEN answers[q] ELSE 0
  BY <1>1, InScopeFits DEF TypeOK
<1>4. t.snap => Sitting
  BY <1>1 DEF ShownIsKept
<1>5. ASSUME NEW q \in Questions PROVE t.acks[q] <= t.load[q]
  <2>1. CASE ~t.snap
    BY <1>2, <1>3, <2>1
  <2>2. CASE t.snap
    <3>1. qu[q] <= answers[q]
      BY <1>1, <1>2, <1>4, <2>2 DEF QueueIsNewest
    <3>2. QED
      BY <1>2, <1>3, <2>2, <3>1
  <2>3. QED
    BY <2>1, <2>2
<1>6. ASSUME t.snap, NEW q \in Questions, Ahead(q)
      PROVE  answers[q] <= t.load[q] \/ answers[q] <= best'[q]
  <2>1. CASE q \in Scope(cache.section)
    BY <1>2, <1>3, <1>6, <2>1
  <2>2. CASE q \notin Scope(cache.section)
    <3>1. cache.section \in 1..NumSections /\ SectionOf[q] # cache.section
      BY <2>2 DEF Scope
    <3>2. Later(q, cache.section)
      BY <1>2, <1>6, <3>1 DEF Later, Ahead
    <3>3. answers[q] <= best[q]
      BY <1>1, <1>4, <1>6, <3>2 DEF ShownIsKept
    <3>4. QED
      BY <1>1, <1>2, <3>3
  <2>3. QED
    BY <2>1, <2>2
<1>7. t.edit <= edits' /\ t.from # "flush"
  BY <1>1, <1>2, Bounds
<1>8. QED
  BY <1>1, <1>4, <1>5, <1>6, <1>7, Bounds DEF Carries

LEMMA SavesAreSaves == ASSUME NEW c \in Seq(Save) PROVE Saves(c) \subseteq Save
BY DEF Saves

\* The chain loses saves, or stays as it is.
LEMMA FewerCarry ==
    ASSUME PageInv, TypeOK', PageGoesOn, expired => expired', Saves(chain') \subseteq Saves(chain),
           \A p \in Presses : PressGoesOn(p) \/ \A t \in Saves(chain') : t.from # p
    PROVE  SavesCarry'
<1> SUFFICES ASSUME NEW t \in Saves(chain') PROVE Carries(t)'
  BY DEF SavesCarry
<1>1. t \in Saves(chain) /\ t \in Save
  BY SavesAreSaves DEF PageInv, TypeOK
<1>2. QED
  BY <1>1, GoesOnCarries

LEMMA AttemptCarries ==
    ASSUME PageInv, TypeOK', Flush \/ Retry \/ Online PROVE SavesCarry'
<1>1. /\ PageGoesOn /\ AttemptSave(queue) /\ UNCHANGED <<expired, stage, pressed, queue, volatile>>
      /\ UNCHANGED <<answers, edits, cache>>
  BY SilentGoesOn DEF Flush, Retry, Online, flowVars, clockVars
<1>2. /\ TypeOK /\ (\A p \in Presses : PressGoesOn(p)) /\ OnePress(chain)
      /\ queue \in Answers /\ savedPos \in Positions /\ volatile \in BOOLEAN
  BY <1>1 DEF PageInv, TypeOK, PressGoesOn
<1>3. CASE UNCHANGED chain
  BY <1>1, <1>2, <1>3, FewerCarry
<1>4. CASE Saves(chain') = Saves(Superseded(chain)) \cup {SaveOf("auto", queue, savedPos, volatile)}
  <2> SUFFICES ASSUME NEW t \in Saves(chain') PROVE Carries(t)'
    BY DEF SavesCarry
  <2>1. t \in Save
    BY SavesAreSaves DEF TypeOK
  <2>2. CASE t \in Saves(Superseded(chain))
    <3>1. PICK s \in Saves(chain) : /\ s \in Save /\ t.from = s.from /\ t.acks = s.acks /\ t.load = s.load
                                    /\ t.edit = s.edit /\ t.snap = s.snap
      BY <1>2, <2>2, SupersededSaves DEF TypeOK
    <3>2. QED
      BY <1>1, <1>2, <2>1, <3>1, GoesOnCarries
  <2>3. CASE t = SaveOf("auto", queue, savedPos, volatile)
    <3>1. /\ t.from = "auto" /\ t.acks = InScope(queue) /\ t.edit = edits /\ t.snap = volatile
          /\ volatile => t.load = InScope(answers)
          /\ ~volatile => t.load = InScope(queue)
      BY <1>2, <2>3, SaveOfFits
    <3>2. QED
      BY <1>1, <1>2, <2>1, <3>1, NewSaveCarries, Bounds
  <2>4. QED
    BY <1>4, <2>2, <2>3
<1>5. QED
  BY <1>1, <1>2, <1>3, <1>4, AttemptFits

LEMMA ReconcileCarries ==
    ASSUME PageInv, TypeOK', Reconcile PROVE SavesCarry'
<1>1. /\ PageGoesOn /\ UNCHANGED <<expired, stage, pressed, edits>>
      /\ chain' = Append(chain, FullSave("reconcile", InScope(answers), pos))
  BY SilentGoesOn DEF Reconcile, flowVars, clockVars
<1>2. TypeOK /\ (\A p \in Presses : PressGoesOn(p)) /\ OnePress(chain) /\ InScope(answers) \in Answers /\ pos \in Positions
  BY <1>1, InScopeFits DEF PageInv, TypeOK, PressGoesOn
<1> DEFINE s == FullSave("reconcile", InScope(answers), pos)
<1>3. s \in Save /\ s.from = "reconcile" /\ s.acks = None /\ s.edit = edits /\ s.snap = FALSE
  <2>1. s.from = "reconcile" /\ s.acks = None /\ s.edit = edits /\ s.snap = FALSE
    BY DEF FullSave
  <2>2. s \in Save
    BY <1>2, FullSaveFits
  <2>3. QED
    BY <2>1, <2>2
<1>4. chain' = Append(chain, s)
  BY <1>1
<1> HIDE DEF s
<1>5. Saves(chain') = Saves(chain) \cup {s}
  BY <1>2, <1>3, <1>4, AppendSaves, Bounds DEF TypeOK
<1> SUFFICES ASSUME NEW t \in Saves(chain') PROVE Carries(t)'
  BY DEF SavesCarry
<1>6. t \in Save
  BY SavesAreSaves DEF TypeOK
<1>7. CASE t \in Saves(chain)
  BY <1>1, <1>2, <1>6, <1>7, GoesOnCarries
<1>8. CASE t = s
  <2>1. edits \in Nat /\ \A q \in Questions : t.load[q] \in Nat /\ t.acks[q] = 0
    BY <1>2, <1>3, <1>6, <1>8, SaveFields, Bounds, Numbers
  <2>2. QED
    BY <1>1, <1>3, <1>6, <1>8, <2>1, PlainCarries, Bounds
<1>9. QED
  BY <1>5, <1>7, <1>8

\* What Submit reads off the page is stored, or in the save it waits for.
LEMMA PressedIsSent ==
    ASSUME PageInv, NEW p \in Presses, PressSubmit(p), NEW q \in Questions
    PROVE  \/ pressed'[p][q] <= best[q]
           \/ Dirty(queue, savedPos, volatile) /\ volatile /\ pressed'[p][q] <= InScope(answers)[q]
           \/ Dirty(queue, savedPos, volatile) /\ ~volatile /\ pressed'[p][q] <= InScope(queue)[q]
<1>1. /\ TypeOK /\ ShownIsKept /\ screen = "exam"
      /\ pressed'[p] = IF cache.section = Closed THEN None ELSE InScope(answers)
  BY DEF PageInv, PressSubmit, TypeOK
<1>2. /\ answers[q] \in Nat /\ best[q] \in Nat /\ queue[q] \in Nat /\ None[q] = 0
      /\ InScope(answers)[q] = IF q \in Scope(cache.section) THEN answers[q] ELSE 0
      /\ InScope(queue)[q] = IF q \in Scope(cache.section) THEN queue[q] ELSE 0
  BY <1>1, Numbers, Bounds, InScopeFits DEF TypeOK
<1>3. CASE cache.section = Closed \/ q \notin Scope(cache.section)
  BY <1>1, <1>2, <1>3
<1>4. CASE cache.section # Closed /\ q \in Scope(cache.section)
  <2>1. pressed'[p][q] = answers[q] /\ Ahead(q)
    BY <1>1, <1>2, <1>4, ScopeIsAhead
  <2>2. CASE volatile
    BY <1>2, <1>4, <2>1, <2>2 DEF Dirty
  <2>3. CASE ~volatile
    <3>1. answers[q] <= best[q] \/ queue[q] = answers[q]
      BY <1>1, <2>1, <2>3 DEF ShownIsKept
    <3>2. queue[q] > 0 => Holds(queue)
      BY <1>2, <1>4 DEF Holds
    <3>3. QED
      BY <1>2, <1>4, <2>1, <2>3, <3>1, <3>2 DEF Dirty
  <2>4. QED
    BY <2>2, <2>3
<1>5. QED
  BY <1>3, <1>4

LEMMA PressCarries ==
    ASSUME PageInv, TypeOK', NEW p \in Presses, PressSubmit(p) PROVE SavesCarry'
<1>1. /\ PageGoesOn /\ UNCHANGED <<expired, edits, best>> /\ Sitting /\ stage[p] = "idle"
      /\ StartBarrier(p, target)
      /\ pressed' = [pressed EXCEPT ![p] = IF cache.section = Closed THEN None ELSE InScope(answers)]
  BY SilentGoesOn DEF PressSubmit, clockVars, Sitting
<1>2. /\ TypeOK /\ OnePress(chain) /\ SavesCarry /\ target \in 0..Closed
      /\ queue \in Answers /\ savedPos \in Positions /\ volatile \in BOOLEAN /\ p \in Flows
      /\ \A t \in Saves(chain) : t.from # p
  BY <1>1, NoPressSave DEF PageInv, TypeOK, Flows
<1>3. \/ /\ stage'[p] = "draining" /\ Dirty(queue, savedPos, volatile)
         /\ Saves(chain') = Saves(chain) \cup {SaveOf(p, queue, savedPos, volatile)}
      \/ UNCHANGED chain
  BY <1>1, <1>2, StartFits DEF StartBarrier
<1>7. \A r \in Presses : PressGoesOn(r)
  <2> SUFFICES ASSUME NEW r \in Presses, stage[r] = "draining"
               PROVE  stage'[r] = "draining" /\ pressed'[r] = pressed[r]
    BY DEF PressGoesOn
  <2>1. r # p /\ r \in Flows
    BY <1>1 DEF Flows
  <2>2. stage'[r] = stage[r]
    BY <1>1, <1>2, <2>1, StartFits
  <2>3. QED
    BY <1>1, <1>2, <2>1, <2>2 DEF TypeOK
<1>4. CASE UNCHANGED chain
  BY <1>1, <1>2, <1>4, <1>7, FewerCarry
<1>5. CASE /\ stage'[p] = "draining" /\ Dirty(queue, savedPos, volatile)
           /\ Saves(chain') = Saves(chain) \cup {SaveOf(p, queue, savedPos, volatile)}
  <2> SUFFICES ASSUME NEW t \in Saves(chain') PROVE Carries(t)'
    BY DEF SavesCarry
  <2>1. t \in Save
    BY SavesAreSaves DEF TypeOK
  <2>2. CASE t \in Saves(chain)
    BY <1>1, <1>2, <1>7, <2>1, <2>2, GoesOnCarries
  <2>3. CASE t = SaveOf(p, queue, savedPos, volatile)
    <3>1. /\ t.from = p /\ t.acks = InScope(queue) /\ t.edit = edits /\ t.snap = volatile
          /\ volatile => t.load = InScope(answers)
          /\ ~volatile => t.load = InScope(queue)
      BY <1>2, <2>3, SaveOfFits
    <3>2. \A q \in Questions : pressed'[p][q] <= best'[q] \/ pressed'[p][q] <= t.load[q]
      BY <1>1, <3>1, PressedIsSent
    <3>3. QED
      BY <1>1, <1>2, <1>5, <2>1, <3>1, <3>2, NewSaveCarries, Bounds
  <2>4. QED
    BY <1>5, <2>2, <2>3
<1>6. QED
  BY <1>3, <1>4, <1>5

LEMMA RecoveryCarries ==
    ASSUME PageInv, TypeOK', ExpiryStarts \/ RetryRecovery PROVE SavesCarry'
<1>1. /\ PageGoesOn /\ UNCHANGED <<expired, edits, answers, best, cache>> /\ RunRecovery
      /\ Sitting /\ (cache.section = 0 => expired)
  <2>1. PageGoesOn /\ UNCHANGED <<edits, answers, best, cache>>
    BY SilentGoesOn
  <2>2. RunRecovery /\ screen = "exam" /\ (expired \/ failed)
    BY DEF ExpiryStarts, RetryRecovery, Timed
  <2>3. UNCHANGED expired
    BY <2>2 DEF RunRecovery
  <2>4. QED
    BY <2>1, <2>2, <2>3 DEF Sitting, PageInv, FlowsKeep
<1>2. TypeOK /\ OnePress(chain)
  BY DEF PageInv
<1>3. \A p \in Presses : PressGoesOn(p)
  BY <1>1, <1>2, RecoveryFits DEF PressGoesOn
<1>4. /\ queue \in Answers /\ savedPos \in Positions /\ volatile \in BOOLEAN /\ "expiry" \in Flows
      /\ InScope(answers) \in Answers /\ pos \in Positions /\ answers \in Answers
  BY <1>2, InScopeFits DEF TypeOK, Flows
<1>5. CASE UNCHANGED chain
  BY <1>1, <1>3, <1>5, FewerCarry
<1>6. CASE cache.section = 0 /\ Saves(chain') = Saves(chain) \cup {FullSave("flush", InScope(answers), pos)}
  <2> SUFFICES ASSUME NEW t \in Saves(chain') PROVE Carries(t)'
    BY DEF SavesCarry
  <2>1. t \in Save
    BY SavesAreSaves DEF TypeOK
  <2>2. CASE t \in Saves(chain)
    BY <1>1, <1>3, <2>1, <2>2, GoesOnCarries
  <2>3. CASE t = FullSave("flush", InScope(answers), pos)
    <3>1. t.from = "flush" /\ t.acks = None /\ t.edit = edits /\ t.snap = FALSE /\ t.load = InScope(answers)
      BY <2>3 DEF FullSave
    <3>2. t.load = answers
      BY <1>4, <1>6, <3>1, InScopeFits
    <3>3. edits \in Nat /\ \A q \in Questions : t.load[q] \in Nat /\ t.acks[q] = 0
      BY <1>2, <2>1, <3>1, SaveFields, Bounds, Numbers
    <3>4. Sitting'
      BY <1>1 DEF PageGoesOn, Sitting
    <3>5. QED
      BY <1>1, <1>6, <3>1, <3>2, <3>3, <3>4, Bounds DEF Carries
  <2>4. QED
    BY <1>6, <2>2, <2>3
<1>7. CASE cache.section # 0 /\ Saves(chain') = Saves(chain) \cup {SaveOf("expiry", queue, savedPos, volatile)}
  <2> SUFFICES ASSUME NEW t \in Saves(chain') PROVE Carries(t)'
    BY DEF SavesCarry
  <2>1. t \in Save
    BY SavesAreSaves DEF TypeOK
  <2>2. CASE t \in Saves(chain)
    BY <1>1, <1>3, <2>1, <2>2, GoesOnCarries
  <2>3. CASE t = SaveOf("expiry", queue, savedPos, volatile)
    <3>1. /\ t.from = "expiry" /\ t.acks = InScope(queue) /\ t.edit = edits /\ t.snap = volatile
          /\ volatile => t.load = InScope(answers)
          /\ ~volatile => t.load = InScope(queue)
      BY <1>2, <1>4, <2>3, SaveOfFits
    <3>2. cache.section > 0
      BY <1>2, <1>7, Numbers
    <3>3. QED
      BY <1>1, <1>4, <2>1, <3>1, <3>2, NewSaveCarries, Bounds
  <2>4. QED
    BY <1>7, <2>2, <2>3
<1>8. QED
  BY <1>1, <1>2, <1>5, <1>6, <1>7, RecoveryFits

\* Only a save of a press's own barrier moves that press on.
LEMMA SettleKeepsPress ==
    ASSUME TypeOK, NEW s \in Save, NEW ok \in BOOLEAN, Settles(s, ok), NEW p \in Presses, s.from # p
    PROVE  PressGoesOn(p)
<1>1. FlowTypes /\ "expiry" \in Flows /\ p \in Flows /\ p # "expiry"
  BY TypeParts, Bounds DEF Flows
<1>2. ASSUME NEW f \in Flows, f # p, NEW next, Moves(f, next) PROVE PressGoesOn(p)
  BY <1>1, <1>2 DEF Moves, PressGoesOn, FlowTypes
<1>3. ASSUME NEW f \in Flows, f # p, Idle(f) PROVE PressGoesOn(p)
  BY <1>1, <1>3, IdleFits DEF PressGoesOn
<1>4. CASE UNCHANGED <<stage, pressed>>
  BY <1>4 DEF PressGoesOn
<1>5. CASE s.from = "auto" \/ s.from = "reconcile" \/ s.from = "orphan"
  <2>1. UNCHANGED flowVars
    BY <1>5, Bounds DEF Settles, AutoAcked, AutoFailed, ReconcileAcked, ReconcileFailed
  <2>2. QED
    BY <1>4, <2>1 DEF flowVars
<1>6. CASE s.from \in Flows
  <2>1. BarrierAcked(s) \/ BarrierFailed(s)
    BY <1>6, Bounds DEF Settles
  <2>2. CASE BarrierAcked(s)
    <3>1. UNCHANGED <<stage, pressed>> \/ Moves(s.from, AfterDrain(s.from, target))
      BY <2>2 DEF BarrierAcked
    <3>2. QED
      BY <1>2, <1>4, <1>6, <3>1
  <2>3. CASE BarrierFailed(s)
    <3>1. Idle(s.from)
      BY <2>3 DEF BarrierFailed, FlowFails, ToResult
    <3>2. QED
      BY <1>3, <1>6, <3>1
  <2>4. QED
    BY <2>1, <2>2, <2>3
<1>7. CASE s.from = "flush"
  <2>1. FlushAcked(s) \/ FlushFailed(s)
    BY <1>7, Bounds DEF Settles
  <2>2. Moves("expiry", "posting") \/ Idle("expiry") \/ UNCHANGED <<stage, pressed>>
    BY <2>1 DEF FlushAcked, FlushFailed, ToResult
  <2>3. QED
    BY <1>1, <1>2, <1>3, <1>4, <2>2
<1>8. QED
  BY <1>5, <1>6, <1>7 DEF Settles

\* A settled save leaves the chain; a barrier may go round, a flush be sent again.
LEMMA SettleIssues ==
    ASSUME NEW s \in Save, NEW ok \in BOOLEAN, Settles(s, ok)
    PROVE  \/ IssueOnly(<<>>)
           \/ /\ s.from \in Flows /\ ok /\ IssueOnly(<<NextRound(s)>>)
              /\ queue' = AckedQueue(s) /\ volatile' = VolatileAfter(s) /\ UNCHANGED <<stage, pressed>>
           \/ s.from = "flush" /\ IssueOnly(<<s>>)
BY DEF Settles, AutoAcked, AutoFailed, ReconcileAcked, ReconcileFailed, BarrierAcked, BarrierFailed,
       FlushAcked, FlushFailed, NextRound

LEMMA SettleCarries ==
    ASSUME PageInv, TypeOK', Acked \/ Refused \/ Dropped PROVE SavesCarry'
<1> DEFINE s == Head(chain)
<1>1. /\ chain # <<>> /\ s \in Save /\ s \in Saves(chain) /\ Carries(s) /\ TypeOK /\ OnePress(chain)
      /\ PageGoesOn /\ UNCHANGED <<expired, edits, answers, cache>>
  BY HeadCarries, SettleGoesOn DEF Acked, Refused, Dropped, settled, sessionVars, PageInv
<1>2. \/ StoreHead /\ Settles(s, TRUE)
      \/ Settles(s, FALSE)
  BY DEF Acked, Refused, Dropped
<1>3. /\ Saves(Tail(chain)) \subseteq Saves(chain)
      /\ IssueOnly(<<>>) => chain' = Tail(chain)
      /\ s.from \in Presses => \A t \in Saves(Tail(chain)) : t.from # s.from
  BY <1>1, TailSaves, IssueOnlyFits DEF TypeOK
<1> HIDE DEF s
<1>4. \A p \in Presses : s.from = p \/ PressGoesOn(p)
  BY <1>1, <1>2, SettleKeepsPress
<1>5. CASE IssueOnly(<<>>)
  BY <1>1, <1>3, <1>4, <1>5, FewerCarry
<1>6. CASE /\ s.from \in Flows /\ StoreHead /\ IssueOnly(<<NextRound(s)>>)
           /\ queue' = AckedQueue(s) /\ volatile' = VolatileAfter(s) /\ UNCHANGED <<stage, pressed>>
  <2>1. /\ NextRound(s) \in Save /\ NextRound(s).from = s.from /\ NextRound(s).edit = edits
        /\ NextRound(s).acks = InScope(AckedQueue(s)) /\ NextRound(s).snap = VolatileAfter(s)
        /\ VolatileAfter(s) => NextRound(s).load = InScope(answers)
        /\ ~VolatileAfter(s) => NextRound(s).load = InScope(AckedQueue(s))
    BY <1>1, <1>6, NextRoundFits
  <2>2. Saves(chain') = Saves(Tail(chain)) \cup {NextRound(s)}
    BY <1>1, <1>6, <2>1, IssueOnlyFits DEF TypeOK, s
  <2>3. /\ AckedQueue(s) \in Answers /\ \A q \in Questions : AckedQueue(s)[q] \in {0, queue[q]}
        /\ VolatileAfter(s) => volatile
    BY <1>1, AckedQueueFits DEF TypeOK, VolatileAfter
  <2> SUFFICES ASSUME NEW t \in Saves(chain') PROVE Carries(t)'
    BY DEF SavesCarry
  <2>4. t \in Save
    BY SavesAreSaves DEF TypeOK
  <2>5. CASE t \in Saves(Tail(chain))
    <3>1. t \in Saves(chain) /\ \A p \in Presses : PressGoesOn(p)
      BY <1>3, <1>6, <2>5 DEF PressGoesOn
    <3>2. QED
      BY <1>1, <2>4, <3>1, GoesOnCarries
  <2>6. CASE t = NextRound(s)
    <3>1. Sitting
      BY <1>1, <1>6 DEF Carries
    <3>2. ASSUME s.from \in Presses
          PROVE  stage'[s.from] = "draining" /\ \A q \in Questions : pressed'[s.from][q] <= best'[q]
      <4>1. /\ stage[s.from] = "draining"
            /\ \A q \in Questions : pressed[s.from][q] <= best[q] \/ pressed[s.from][q] <= s.load[q]
        BY <1>1, <3>2 DEF Carries
      <4>2. \A q \in Questions : /\ best'[q] \in Nat /\ best[q] <= best'[q] /\ s.load[q] <= best'[q]
                                 /\ best[q] \in Nat /\ pressed[s.from][q] \in Nat /\ s.load[q] \in Nat
        BY <1>1, <1>6, <3>2, StoreHeadFits, Numbers, SaveFields DEF s
      <4>3. QED
        BY <1>6, <4>1, <4>2
    <3>3. PICK qu \in Answers : qu = AckedQueue(s)
      BY <2>3
    <3>4. /\ t.edit = edits /\ t.from \in Flows /\ t.acks = InScope(qu)
          /\ t.snap => volatile /\ t.load = InScope(answers)
          /\ ~t.snap => t.load = InScope(qu)
          /\ \A q \in Questions : qu[q] \in {0, queue[q]}
      BY <1>6, <2>1, <2>3, <2>6, <3>3
    <3>5. t.from \in Presses => /\ stage'[t.from] = "draining"
                                /\ \A q \in Questions : \/ pressed'[t.from][q] <= best'[q]
                                                        \/ pressed'[t.from][q] <= t.load[q]
      BY <2>1, <2>6, <3>2
    <3>6. t.from = "expiry" => cache.section > 0
      BY <1>1, <2>1, <2>6 DEF Carries
    <3>7. QED
      BY <1>1, <2>4, <3>1, <3>4, <3>5, <3>6, NewSaveCarries
  <2>7. QED
    BY <2>2, <2>5, <2>6
<1>7. CASE s.from = "flush" /\ IssueOnly(<<s>>)
  <2>1. Saves(chain') = Saves(Tail(chain)) \cup {s}
    BY <1>1, <1>7, IssueOnlyFits DEF TypeOK, s
  <2>2. Saves(chain') \subseteq Saves(chain)
    BY <1>1, <1>3, <2>1
  <2>3. \A p \in Presses : PressGoesOn(p)
    BY <1>4, <1>7, Bounds
  <2>4. QED
    BY <1>1, <2>2, <2>3, FewerCarry
<1>8. QED
  <2>1. CASE Settles(s, TRUE) /\ StoreHead
    BY <1>1, <1>5, <1>6, <1>7, <2>1, SettleIssues
  <2>2. CASE Settles(s, FALSE)
    BY <1>1, <1>5, <1>7, <2>2, SettleIssues
  <2>3. QED
    BY <1>2, <2>1, <2>2

LEMMA TimeoutCarries ==
    ASSUME PageInv, TypeOK', NEW f \in Flows, BarrierTimesOut(f) PROVE SavesCarry'
<1>1. /\ PageGoesOn /\ UNCHANGED expired /\ chain' = Orphaned(f) /\ Idle(f)
      /\ TypeOK /\ FlowTypes /\ OnePress(chain)
  BY FlowGoesOn, TypeParts DEF BarrierTimesOut, Orphaned, FlowFails, ToResult, PageInv
<1> SUFFICES ASSUME NEW t \in Saves(chain') PROVE Carries(t)'
  BY DEF SavesCarry
<1>2. PICK s \in Saves(chain) :
         /\ s \in Save /\ t.from \in {s.from, "orphan"} /\ t.acks = s.acks /\ t.load = s.load
         /\ t.edit = s.edit /\ t.snap = s.snap /\ t.from # f
  BY <1>1, OrphanedSaves DEF TypeOK
<1>3. t \in Save
  BY SavesAreSaves DEF TypeOK
<1>4. t.from \in Presses => PressGoesOn(t.from)
  BY <1>1, <1>2, IdleFits DEF PressGoesOn, Flows
<1>5. QED
  BY <1>1, <1>2, <1>3, <1>4, GoesOnCarries

\* A flow past its barrier has no save in the chain.
LEMMA PostCarries ==
    ASSUME PageInv, TypeOK',
           \/ \E f \in Flows : SubmitPosted(f) \/ SubmitFails(f)
           \/ AdvancePosted \/ AdvanceFails
    PROVE  SavesCarry'
<1>1. /\ PageGoesOn /\ UNCHANGED <<expired, chain>> /\ TypeOK /\ FlowTypes
      /\ Presses \subseteq Flows /\ "expiry" \in Flows /\ "expiry" \notin Presses
  BY FlowGoesOn, TypeParts, Bounds DEF SubmitPosted, SubmitFails, AdvancePosted, AdvanceFails, posted, PageInv, Flows
<1> SUFFICES ASSUME NEW p \in Presses PROVE PressGoesOn(p)
  BY <1>1, FewerCarry
<1>2. ASSUME NEW f \in Flows, f # p, Idle(f) PROVE PressGoesOn(p)
  BY <1>1, <1>2, IdleFits DEF PressGoesOn
<1>3. ASSUME NEW f \in Flows, SubmitPosted(f) \/ SubmitFails(f) PROVE PressGoesOn(p)
  <2>1. CASE stage[p] # "draining"
    BY <2>1 DEF PressGoesOn
  <2>2. CASE stage[p] = "draining"
    <3>1. f # p
      BY <1>3, <2>2 DEF SubmitPosted, SubmitFails
    <3>2. Idle(f) \/ UNCHANGED flowVars
      BY <1>3 DEF SubmitPosted, SubmitFails, FlowFails, ToResult
    <3>3. QED
      BY <1>2, <3>1, <3>2 DEF PressGoesOn, flowVars
  <2>3. QED
    BY <2>1, <2>2
<1>4. ASSUME AdvancePosted \/ AdvanceFails PROVE PressGoesOn(p)
  <2>1. Idle("expiry") \/ UNCHANGED flowVars \/ Moves("expiry", "posting")
    BY <1>4 DEF AdvancePosted, AdvanceFails, FlowFails, ToResult
  <2>2. Moves("expiry", "posting") => PressGoesOn(p)
    BY <1>1 DEF Moves, PressGoesOn, FlowTypes
  <2>3. QED
    BY <1>1, <1>2, <2>1, <2>2 DEF PressGoesOn, flowVars
<1>5. QED
  BY <1>3, <1>4

LEMMA QuietCarries ==
    ASSUME PageInv, TypeOK', (\E p \in Positions : GoTo(p)) \/ Tick \/ ServerCloses \/ UNCHANGED vars
    PROVE  SavesCarry'
<1>1. PageGoesOn
  BY SilentGoesOn, ServerGoesOn
<1>2. UNCHANGED <<chain, stage, pressed>> /\ (expired => expired')
  BY DEF GoTo, Tick, ServerCloses, vars, flowVars, clockVars
<1>3. \A p \in Presses : PressGoesOn(p)
  BY <1>2 DEF PressGoesOn
<1>4. QED
  BY <1>1, <1>2, <1>3, FewerCarry

LEMMA EditCarries ==
    ASSUME PageInv, TypeOK', NEW q \in Questions, Edit(q) PROVE SavesCarry'
<1>1. /\ edits' = edits + 1 /\ edits \in Nat /\ ~expired /\ SavesCarry
      /\ UNCHANGED <<chain, screen, stage, pressed, best, cache>>
  BY Numbers DEF Edit, PageInv, flowVars, sessionVars
<1> SUFFICES ASSUME NEW t \in Saves(chain) PROVE Carries(t)'
  BY <1>1 DEF SavesCarry
<1>2. Carries(t) /\ t \in Save /\ t.edit \in Nat
  BY <1>1, SavesAreSaves, SaveFields, Bounds DEF SavesCarry, PageInv, TypeOK
<1>3. t.edit <= edits' /\ t.edit # edits' /\ t.from # "flush"
  BY <1>1, <1>2 DEF Carries
<1>4. QED
  BY <1>1, <1>2, <1>3 DEF Carries, Sitting

LEMMA RefetchCarries ==
    ASSUME PageInv, TypeOK', Refetch PROVE SavesCarry'
<1>1. /\ TypeOK /\ SavesCarry /\ UNCHANGED <<chain, screen, answers, edits, best, stage, pressed>>
      /\ \A q \in Questions : Ahead(q)' => Ahead(q)
      /\ (cache.section = 0 <=> server.section = 0) /\ cache' = server
  BY RefetchMoves DEF PageInv
<1>2. cache.section = 0 => cache'.section = 0 /\ UNCHANGED expired
  BY <1>1 DEF Refetch
<1> SUFFICES ASSUME NEW t \in Saves(chain) PROVE Carries(t)'
  BY <1>1 DEF SavesCarry
<1>3. Carries(t) /\ t \in Save
  BY <1>1, SavesAreSaves DEF SavesCarry, TypeOK
<1>4. \A q \in Questions : best[q] <= best'[q]
  BY <1>1, Numbers
<1>5. t.from = "flush" => expired' /\ cache'.section = 0
  BY <1>2, <1>3 DEF Carries
<1>6. t.from \in Presses => stage'[t.from] = "draining" /\ pressed'[t.from] = pressed[t.from]
  BY <1>1, <1>3 DEF Carries
<1>7. (Sitting => Sitting') /\ t.from \in {t.from, "orphan"}
  BY <1>1 DEF Sitting
<1>8. t.from = "expiry" => cache'.section > 0
  <2>1. t.from = "expiry" => cache.section > 0
    BY <1>3 DEF Carries
  <2>2. server.section \in Nat /\ cache.section \in Nat
    BY <1>1, Numbers
  <2>3. QED
    BY <1>1, <2>1, <2>2
<1>9. QED
  BY <1>1, <1>3, <1>4, <1>5, <1>6, <1>7, <1>8, OldSaveCarries

\* Saves sent without a session shown wait for no flow, and carry what they acknowledge.
LEMMA VisitCarries ==
    ASSUME PageInv, TypeOK', FetchReads \/ FetchArrives \/ Enter \/ Leave \/ Reload PROVE SavesCarry'
<1>1. TypeOK /\ SavesCarry /\ UNCHANGED edits /\ edits \in Nat /\ edits <= edits
  BY Numbers DEF PageInv, FetchReads, FetchArrives, Enter, Leave, Reload, Unmounted, history
<1>2. CASE Leave \/ Reload
  <2>1. Saves(chain') = {}
    BY <1>2 DEF Leave, Reload, Unmounted, Saves
  <2>2. QED
    BY <2>1 DEF SavesCarry
<1>3. ASSUME NEW t \in Saves(chain), ~Sitting PROVE Carries(t)'
  <2>1. Carries(t) /\ t \in Save
    BY <1>1, SavesAreSaves DEF SavesCarry, TypeOK
  <2>2. ~t.snap /\ t.from \notin Flows \cup {"flush"} /\ t.edit <= edits'
        /\ \A q \in Questions : t.acks[q] <= t.load[q]
    BY <1>1, <1>3, <2>1 DEF Carries
  <2>3. QED
    BY <2>1, <2>2, PlainCarries
<1>4. ASSUME NEW t \in Save, t.from = "reconcile", t.acks = None, t.edit = edits, t.snap = FALSE
      PROVE  Carries(t)'
  <2>1. \A q \in Questions : t.acks[q] = 0 /\ t.load[q] \in Nat
    BY <1>4, SaveFields, Bounds
  <2>2. QED
    BY <1>1, <1>4, <2>1, PlainCarries, Bounds
<1>5. ASSUME NEW t \in Save, t.from = "auto", t.acks = t.load, t.edit = edits, t.snap = FALSE
      PROVE  Carries(t)'
  <2>1. \A q \in Questions : t.acks[q] \in Nat
    BY <1>5, SaveFields
  <2>2. QED
    BY <1>1, <1>5, <2>1, PlainCarries, Bounds
<1>6. CASE FetchReads
  <2>1. UNCHANGED chain /\ ~Sitting
    BY <1>6 DEF FetchReads, Sitting
  <2>2. QED
    BY <1>3, <2>1 DEF SavesCarry
<1>7. CASE FetchArrives
  <2>1. Hydrate(fetch, chain, <<>>) /\ ~Sitting /\ fetch \in Snapshot /\ chain \in Seq(Save) /\ OnePress(chain)
    BY <1>1, <1>7 DEF FetchArrives, Sitting, TypeOK, PageInv
  <2>2. <<>> \in Seq(Save) /\ Saves(<<>>) = {}
    BY DEF Saves
  <2>3. PICK s \in Save : /\ s.from = "reconcile" /\ s.acks = None /\ s.edit = edits /\ s.snap = FALSE
                          /\ Saves(chain') \subseteq Saves(chain) \cup Saves(<<>>) \cup {s}
    BY <1>1, <2>1, <2>2, HydrateFits
  <2>4. QED
    BY <1>3, <1>4, <2>1, <2>2, <2>3 DEF SavesCarry
<1>8. CASE Enter
  <2>1. /\ cache \in Snapshot /\ 1 \in Positions /\ cache.pos \in Positions
        /\ \A section : \A at \in Positions :
             /\ Replay(section, at) \in Seq(Save)
             /\ \A t \in Saves(Replay(section, at)) :
                  t \in Save /\ t.from = "auto" /\ t.acks = t.load /\ t.edit = edits /\ t.snap = FALSE
    <3>1. cache \in Snapshot /\ 1 \in Positions /\ cache.pos \in Positions
      BY <1>1, Bounds DEF TypeOK, Snapshot
    <3>2. ASSUME NEW section, NEW at \in Positions
          PROVE  /\ Replay(section, at) \in Seq(Save)
                 /\ \A t \in Saves(Replay(section, at)) :
                      t \in Save /\ t.from = "auto" /\ t.acks = t.load /\ t.edit = edits /\ t.snap = FALSE
      BY <1>1, ReplayFits, SavesAreSaves
    <3>3. QED
      BY <3>1, <3>2
  <2>2. CASE chain' = Replay(0, 1)
    BY <1>5, <2>1, <2>2 DEF SavesCarry
  <2>3. CASE Hydrate(cache, <<>>, Replay(cache.section, cache.pos))
    <3>1. <<>> \in Seq(Save) /\ Saves(<<>>) = {} /\ OnePress(<<>>)
      BY DEF Saves, OnePress
    <3>2. \A t \in Saves(Replay(cache.section, cache.pos)) : t.from \notin Presses
      <4>1. \A t \in Saves(Replay(cache.section, cache.pos)) : t.from = "auto"
        BY <2>1
      <4>2. QED
        BY <4>1, Bounds
    <3>3. PICK s \in Save : /\ s.from = "reconcile" /\ s.acks = None /\ s.edit = edits /\ s.snap = FALSE
                            /\ Saves(chain') \subseteq
                                 Saves(<<>>) \cup Saves(Replay(cache.section, cache.pos)) \cup {s}
      BY <1>1, <2>1, <2>3, <3>1, <3>2, HydrateFits
    <3>4. \A t \in Saves(Replay(cache.section, cache.pos)) :
             t \in Save /\ t.from = "auto" /\ t.acks = t.load /\ t.edit = edits /\ t.snap = FALSE
      BY <2>1
    <3>5. SUFFICES ASSUME NEW t \in Saves(chain') PROVE Carries(t)'
      BY DEF SavesCarry
    <3>6. t = s \/ t \in Saves(Replay(cache.section, cache.pos))
      BY <3>1, <3>3
    <3>7. QED
      BY <1>4, <1>5, <3>3, <3>4, <3>6
  <2>4. QED
    BY <1>8, <2>2, <2>3, EnterCases
<1>9. QED
  BY <1>2, <1>6, <1>7, <1>8

LEMMA CarryStep ==
    ASSUME PageInv, TypeOK', [Next]_vars PROVE SavesCarry'
<1>1. CASE Acked \/ Refused \/ Dropped
  BY <1>1, SettleCarries
<1>2. CASE \/ \E f \in Flows : SubmitPosted(f) \/ SubmitFails(f)
           \/ AdvancePosted \/ AdvanceFails
  BY <1>2, PostCarries
<1>3. QED
  BY <1>1, <1>2, EditCarries, PressCarries, AttemptCarries, ReconcileCarries, RecoveryCarries, TimeoutCarries,
     QuietCarries, RefetchCarries, VisitCarries DEF Next, Student, Timers, Network, Visits

-----------------------------------------------------------------------------
(* What the flows have made sure of *)

\* The recovery stays where it is, ends, or goes on with its section drained.
ExpiryGoesOn ==
    \/ stage'["expiry"] = stage["expiry"] /\ target' = target
    \/ stage'["expiry"] = "idle" /\ target' = 0
    \/ /\ target' = target /\ Sitting /\ (cache.section = 0 => expired)
       /\ \/ stage'["expiry"] = "posting"
          \/ /\ stage'["expiry"] = AfterDrain("expiry", target)
             /\ fired /\ target \in 1..NumSections => \A q \in Scope(target) : answers[q] <= best'[q]

\* A press stays where it is, ends, or posts with everything stored.
SubmitGoesOn ==
    \A p \in Presses :
       \/ stage'[p] = stage[p] /\ pressed'[p] = pressed[p]
       \/ stage'[p] = "idle"
       \/ stage'[p] = "posting" /\ Sitting /\ \A q \in Questions : pressed'[p][q] <= best'[q]

FlowsGoOn ==
    /\ UNCHANGED fired /\ (expired => expired') /\ ExpiryGoesOn /\ SubmitGoesOn
    /\ failed' => failed \/ (Sitting /\ (cache.section = 0 => expired))

LEMMA FlowParts ==
    ASSUME PageInv
    PROVE  /\ FlowTypes /\ Presses \subseteq Flows /\ "expiry" \in Flows /\ "expiry" \notin Presses
           /\ target \in 0..Closed /\ \A f \in Flows : f \in Presses \/ f = "expiry"
           /\ Sitting \/ ((\A f \in Flows : stage[f] = "idle") /\ target = 0 /\ ~fired /\ ~failed)
           /\ cache.section = 0 /\ (failed \/ stage["expiry"] # "idle") => expired
           /\ fired => expired
           /\ stage["expiry"] = "advancing" => target \in 1..NumSections
<1>1. FlowTypes /\ "expiry" \in Flows /\ "expiry" \notin Presses /\ target \in 0..Closed
      /\ \A f \in Flows : f \in Presses \/ f = "expiry"
  BY TypeParts, Bounds DEF PageInv, TypeOK
<1>2. Presses \subseteq Flows
  BY DEF Flows
<1>3. QED
  BY <1>1, <1>2 DEF PageInv, FlowsKeep

LEMMA GoesOnFlows ==
    ASSUME PageInv, TypeOK', PageGoesOn, FlowsGoOn PROVE FlowsKeep'
<1>1. /\ FlowsKeep /\ UNCHANGED <<answers, fired, cache>> /\ (Sitting => Sitting') /\ (expired => expired')
      /\ target' \in {0, target} /\ target \in 0..Closed
      /\ \A q \in Questions : best[q] <= best'[q]
      /\ "expiry" \in Flows /\ \A f \in Flows : f \in Presses \/ f = "expiry"
  BY FlowParts DEF PageInv, PageGoesOn, FlowsGoOn, ExpiryGoesOn, RowGrows, Sitting
<1>2. /\ \A q \in Questions : /\ best[q] \in Nat /\ best'[q] \in Nat /\ answers[q] \in Nat
                              /\ \A p \in Presses : pressed[p][q] \in Nat
      /\ TypeOK
  BY AnswersAreNat, Numbers DEF PageInv, TypeOK
<1>3. /\ AfterDrain("expiry", target) \in {"advancing", "idle"}
      /\ AfterDrain("expiry", target) = "advancing" => target \in 1..NumSections
      /\ AfterDrain("expiry", target) = "idle" => target \in {0, Closed}
  BY <1>1, AfterDrainFits, Bounds DEF AfterDrain
<1>4. fired' => expired' /\ Sitting' /\ target' \in {0, cache'.section}
  BY <1>1 DEF FlowsKeep
<1>5. stage'["expiry"] = "advancing" =>
         /\ target' \in 1..NumSections
         /\ fired' => \A q \in Scope(target') : answers'[q] <= best'[q]
  <2> SUFFICES ASSUME stage'["expiry"] = "advancing"
               PROVE  /\ target' \in 1..NumSections
                      /\ fired' => \A q \in Scope(target') : answers'[q] <= best'[q]
    OBVIOUS
  <2>1. CASE stage'["expiry"] = stage["expiry"] /\ target' = target
    <3>1. target \in 1..NumSections /\ (fired => \A q \in Scope(target) : answers[q] <= best[q])
      BY <1>1, <2>1 DEF FlowsKeep
    <3>2. \A q \in Scope(target) : q \in Questions
      BY DEF Scope
    <3>3. QED
      BY <1>1, <1>2, <2>1, <3>1, <3>2
  <2>2. CASE /\ target' = target /\ stage'["expiry"] = AfterDrain("expiry", target)
             /\ fired /\ target \in 1..NumSections => \A q \in Scope(target) : answers[q] <= best'[q]
    BY <1>1, <1>3, <2>2
  <2>3. QED
    BY <2>1, <2>2 DEF FlowsGoOn, ExpiryGoesOn
<1>6. stage'["expiry"] = "idle" => target' \in {0, Closed}
  BY <1>1, <1>3 DEF FlowsGoOn, ExpiryGoesOn, FlowsKeep
<1>7. (target' # 0 => Sitting') /\ (target' = Closed => cache'.section = Closed)
  <2>1. Closed # 0
    BY Bounds
  <2>2. QED
    BY <1>1, <2>1 DEF FlowsKeep
<1>8. ASSUME NEW p \in Presses, stage'[p] = "posting", NEW q \in Questions PROVE pressed'[p][q] <= best'[q]
  <2>1. CASE stage'[p] = stage[p] /\ pressed'[p] = pressed[p]
    <3>1. pressed[p][q] <= best[q]
      BY <1>1, <1>8, <2>1 DEF FlowsKeep
    <3>2. QED
      BY <1>1, <1>2, <2>1, <3>1
  <2>2. QED
    BY <1>8, <2>1 DEF FlowsGoOn, SubmitGoesOn
<1>9. \A f \in Flows : stage'[f] # "idle" => Sitting'
  BY <1>1 DEF FlowsGoOn, SubmitGoesOn, ExpiryGoesOn, FlowsKeep
<1>10. failed' => Sitting'
  BY <1>1 DEF FlowsGoOn, FlowsKeep
<1>11. cache'.section = 0 /\ (failed' \/ stage'["expiry"] # "idle") => expired'
  BY <1>1 DEF FlowsGoOn, ExpiryGoesOn, FlowsKeep
<1>12. QED
  BY <1>4, <1>5, <1>6, <1>7, <1>8, <1>9, <1>10, <1>11 DEF FlowsKeep

\* A flow that ends, and one that leaves everything as it was.
LEMMA IdleGoesOn ==
    ASSUME PageInv, NEW f \in Flows, Idle(f) PROVE ExpiryGoesOn /\ SubmitGoesOn
<1>1. /\ stage'[f] = "idle" /\ (\A g \in Flows : g # f => stage'[g] = stage[g])
      /\ \A p \in Presses : pressed'[p] = IF p = f THEN None ELSE pressed[p]
      /\ (f = "expiry" => target' = 0) /\ (f \in Presses => target' = target)
      /\ Presses \subseteq Flows /\ "expiry" \in Flows /\ "expiry" \notin Presses
      /\ (f \in Presses \/ f = "expiry")
  BY FlowParts, IdleFits
<1>2. QED
  BY <1>1 DEF ExpiryGoesOn, SubmitGoesOn

LEMMA SameGoesOn ==
    ASSUME UNCHANGED <<stage, target, pressed>> PROVE ExpiryGoesOn /\ SubmitGoesOn
BY DEF ExpiryGoesOn, SubmitGoesOn

\* The recovery's last round stored its section, if the countdown still stands.
LEMMA DrainedIsStored ==
    ASSUME PageInv, TypeOK', AnswersKept', UNCHANGED <<cache, answers>>, screen' = "exam", ~volatile',
           \A q \in Scope(cache.section) : queue'[q] = 0, cache.section \in 1..NumSections
    PROVE  \A q \in Scope(cache.section) : answers[q] <= best'[q]
<1> SUFFICES ASSUME NEW q \in Scope(cache.section) PROVE answers[q] <= best'[q]
  OBVIOUS
<1>1. q \in Questions /\ Ahead(q)
  <2>1. cache.section # Closed
    BY Bounds
  <2>2. QED
    BY <2>1, ScopeIsAhead DEF PageInv
<1>2. answers[q] \in Nat /\ best'[q] \in Nat
  BY <1>1, AnswersAreNat DEF PageInv, TypeOK
<1>3. answers[q] <= best'[q] \/ queue'[q] = answers[q]
  BY <1>1 DEF AnswersKept, ShownIsKept, Ahead
<1>4. QED
  BY <1>2, <1>3

LEMMA BarrierFlows ==
    ASSUME PageInv, TypeOK', AnswersKept', PageGoesOn, chain # <<>>, StoreHead,
           Head(chain).from \in Flows, BarrierAcked(Head(chain))
    PROVE  ExpiryGoesOn /\ SubmitGoesOn
<1> DEFINE s == Head(chain)
<1>1. /\ s \in Save /\ Carries(s) /\ TypeOK /\ s.from \in Flows /\ BarrierAcked(s) /\ AckedQueue(s) \in Answers
      /\ UNCHANGED <<answers, cache>>
  BY HeadCarries, AckedQueueFits DEF PageInv, TypeOK, PageGoesOn
<1>2. \A q \in Questions : /\ best'[q] \in Nat /\ best[q] <= best'[q] /\ s.load[q] <= best'[q]
                           /\ best[q] \in Nat /\ s.load[q] \in Nat
                           /\ \A p \in Presses : pressed[p][q] \in Nat
  BY <1>1, StoreHeadFits, SaveFields, Numbers DEF PageInv
<1>3. screen = "exam"
  <2>1. Sitting /\ server.status = "in_progress"
    BY <1>1 DEF Carries, StoreHead, Accepts
  <2>2. QED
    BY <2>1 DEF PageInv, CopiesFollow, Sitting
<1>4. /\ FlowTypes /\ Presses \subseteq Flows /\ "expiry" \in Flows /\ "expiry" \notin Presses
      /\ (s.from \in Presses \/ s.from = "expiry")
  BY <1>1, FlowParts
<1> HIDE DEF s
<1>5. CASE Holds(AckedQueue(s)) \/ VolatileAfter(s)
  BY <1>1, <1>5, SameGoesOn DEF BarrierAcked
<1>6. CASE ~(Holds(AckedQueue(s)) \/ VolatileAfter(s))
  <2>1. /\ Moves(s.from, AfterDrain(s.from, target)) /\ queue' = AckedQueue(s) /\ ~volatile'
        /\ UNCHANGED screen
    BY <1>1, <1>6 DEF BarrierAcked
  <2>2. \A q \in Scope(cache.section) : queue'[q] = 0
    BY <1>1, <1>6, <2>1, DrainedScope
  <2>3. CASE s.from \in Presses
    <3>1. /\ stage'["expiry"] = stage["expiry"] /\ UNCHANGED <<target, pressed>>
          /\ \A p \in Presses : stage'[p] = IF p = s.from THEN "posting" ELSE stage[p]
      BY <1>4, <2>1, <2>3 DEF Moves, FlowTypes, AfterDrain
    <3>2. \A q \in Questions : pressed[s.from][q] <= best'[q]
      BY <1>1, <1>2, <2>3 DEF Carries
    <3>3. QED
      BY <1>3, <2>3, <3>1, <3>2 DEF ExpiryGoesOn, SubmitGoesOn, Sitting
  <2>4. CASE s.from = "expiry"
    <3>1. /\ stage'["expiry"] = AfterDrain("expiry", target) /\ UNCHANGED <<target, pressed>>
          /\ \A p \in Presses : stage'[p] = stage[p]
      BY <1>4, <2>1, <2>4 DEF Moves, FlowTypes
    <3>2. ASSUME fired, target \in 1..NumSections, NEW q \in Scope(target) PROVE answers[q] <= best'[q]
      <4>1. target = cache.section
        <5>1. target # 0
          BY <3>2
        <5>2. QED
          BY <3>2, <5>1 DEF PageInv, FlowsKeep
      <4>2. QED
        BY <1>1, <1>3, <2>1, <2>2, <3>2, <4>1, DrainedIsStored
    <3>3. cache.section > 0
      BY <1>1, <2>4 DEF Carries
    <3>4. QED
      BY <1>1, <1>3, <3>1, <3>2, <3>3 DEF ExpiryGoesOn, SubmitGoesOn, Sitting
  <2>5. QED
    BY <1>4, <2>3, <2>4
<1>7. QED
  BY <1>5, <1>6

LEMMA SettleFlows ==
    ASSUME PageInv, TypeOK', AnswersKept', Acked \/ Refused \/ Dropped PROVE FlowsKeep'
<1> DEFINE s == Head(chain)
<1>1. /\ chain # <<>> /\ s \in Save /\ Carries(s) /\ UNCHANGED <<expired, fired>> /\ PageGoesOn
      /\ FlowTypes /\ "expiry" \in Flows
      /\ \/ StoreHead /\ Settles(s, TRUE)
         \/ Settles(s, FALSE)
  BY HeadCarries, SettleGoesOn, FlowParts DEF Acked, Refused, Dropped, settled
<1> HIDE DEF s
<1>2. ASSUME ExpiryGoesOn, SubmitGoesOn, failed' => failed \/ (Sitting /\ (cache.section = 0 => expired))
      PROVE  FlowsKeep'
  BY <1>1, <1>2, GoesOnFlows DEF FlowsGoOn
<1>3. CASE s.from = "auto" \/ s.from = "reconcile" \/ s.from = "orphan"
  <2>1. UNCHANGED <<flowVars, failed>>
    BY <1>1, <1>3, Bounds DEF Settles, AutoAcked, AutoFailed, ReconcileAcked, ReconcileFailed
  <2>2. QED
    BY <1>2, <2>1, SameGoesOn DEF flowVars
<1>4. CASE s.from \in Flows
  <2>1. (StoreHead /\ BarrierAcked(s)) \/ BarrierFailed(s)
    BY <1>1, <1>4, Bounds DEF Settles
  <2>2. CASE StoreHead /\ BarrierAcked(s)
    <3>1. UNCHANGED failed
      BY <2>2 DEF BarrierAcked
    <3>2. QED
      BY <1>1, <1>2, <1>4, <2>2, <3>1, BarrierFlows DEF s
  <2>3. CASE BarrierFailed(s)
    <3>1. Idle(s.from) /\ (failed' => failed \/ s.from = "expiry")
      BY <2>3 DEF BarrierFailed, FlowFails, ToResult
    <3>2. s.from = "expiry" => Sitting /\ cache.section > 0
      BY <1>1, <1>4 DEF Carries
    <3>3. QED
      BY <1>2, <1>4, <3>1, <3>2, IdleGoesOn
  <2>4. QED
    BY <2>1, <2>2, <2>3
<1>5. CASE s.from = "flush"
  <2>1. FlushAcked(s) \/ FlushFailed(s)
    BY <1>1, <1>5, Bounds DEF Settles
  <2>2. UNCHANGED failed /\ Sitting /\ expired
    BY <1>1, <1>5, <2>1 DEF FlushAcked, FlushFailed, Carries
  <2>3. CASE Moves("expiry", "posting")
    <3>1. /\ stage'["expiry"] = "posting" /\ UNCHANGED <<target, pressed>>
          /\ \A p \in Presses : stage'[p] = stage[p]
      BY <1>1, <2>3, Bounds DEF Moves, FlowTypes, Flows
    <3>2. QED
      BY <1>2, <2>2, <3>1 DEF ExpiryGoesOn, SubmitGoesOn
  <2>4. CASE Idle("expiry")
    BY <1>1, <1>2, <2>2, <2>4, IdleGoesOn
  <2>5. CASE UNCHANGED <<stage, target, pressed>>
    BY <1>2, <2>2, <2>5, SameGoesOn
  <2>6. QED
    BY <2>1, <2>3, <2>4, <2>5 DEF FlushAcked, FlushFailed, ToResult
<1>6. QED
  BY <1>1, <1>3, <1>4, <1>5 DEF Settles

LEMMA PostFlows ==
    ASSUME PageInv, TypeOK',
           \/ \E f \in Flows : BarrierTimesOut(f) \/ SubmitPosted(f) \/ SubmitFails(f)
           \/ AdvancePosted \/ AdvanceFails
    PROVE  FlowsKeep'
<1>1. PageGoesOn /\ UNCHANGED <<expired, fired>> /\ FlowTypes /\ "expiry" \in Flows
  BY FlowGoesOn, FlowParts DEF BarrierTimesOut, SubmitPosted, SubmitFails, AdvancePosted, AdvanceFails, posted
<1>2. \A f \in Flows : stage[f] # "idle" => Sitting /\ (f = "expiry" /\ cache.section = 0 => expired)
  BY DEF PageInv, FlowsKeep
<1>3. ASSUME ExpiryGoesOn, SubmitGoesOn, failed' => failed \/ (Sitting /\ (cache.section = 0 => expired))
      PROVE  FlowsKeep'
  BY <1>1, <1>3, GoesOnFlows DEF FlowsGoOn
<1>4. ASSUME NEW f \in Flows, stage[f] # "idle", Idle(f), failed' => failed \/ f = "expiry"
      PROVE  FlowsKeep'
  BY <1>2, <1>3, <1>4, IdleGoesOn
<1>5. ASSUME UNCHANGED <<flowVars, failed>> PROVE FlowsKeep'
  BY <1>3, <1>5, SameGoesOn DEF flowVars
<1>6. ASSUME NEW f \in Flows, FlowFails(f, TRUE) \/ FlowFails(f, FALSE)
      PROVE  Idle(f) /\ (failed' => failed \/ f = "expiry")
  BY <1>6 DEF FlowFails, ToResult
<1>7. ASSUME NEW f \in Flows, BarrierTimesOut(f) \/ SubmitPosted(f) \/ SubmitFails(f) PROVE FlowsKeep'
  <2>1. /\ stage[f] # "idle"
        /\ \/ Idle(f) /\ UNCHANGED failed
           \/ FlowFails(f, TRUE)
           \/ FlowFails(f, FALSE)
           \/ UNCHANGED <<flowVars, failed>>
    BY <1>7 DEF BarrierTimesOut, SubmitPosted, SubmitFails
  <2>2. CASE Idle(f) /\ UNCHANGED failed
    BY <1>4, <2>1, <2>2
  <2>3. CASE FlowFails(f, TRUE) \/ FlowFails(f, FALSE)
    <3>1. Idle(f) /\ (failed' => failed \/ f = "expiry")
      BY <1>6, <2>3
    <3>2. QED
      BY <1>4, <2>1, <3>1
  <2>4. QED
    BY <1>5, <2>1, <2>2, <2>3
<1>8. CASE AdvancePosted \/ AdvanceFails
  <2>1. /\ stage["expiry"] # "idle"
        /\ \/ Idle("expiry") /\ UNCHANGED failed
           \/ FlowFails("expiry", TRUE)
           \/ FlowFails("expiry", FALSE)
           \/ UNCHANGED <<flowVars, failed>>
           \/ Moves("expiry", "posting") /\ UNCHANGED failed
    BY <1>8 DEF AdvancePosted, AdvanceFails
  <2>2. CASE Moves("expiry", "posting") /\ UNCHANGED failed
    <3>1. /\ stage'["expiry"] = "posting" /\ UNCHANGED <<target, pressed>>
          /\ \A p \in Presses : stage'[p] = stage[p]
      BY <1>1, <2>2, Bounds DEF Moves, FlowTypes, Flows
    <3>2. QED
      BY <1>1, <1>2, <1>3, <2>1, <2>2, <3>1 DEF ExpiryGoesOn, SubmitGoesOn
  <2>3. QED
    BY <1>1, <1>4, <1>5, <1>6, <2>1, <2>2
<1>9. QED
  BY <1>7, <1>8

LEMMA QuietFlows ==
    ASSUME PageInv, TypeOK',
           \/ \E p \in Positions : GoTo(p)
           \/ Flush \/ Retry \/ Online \/ Reconcile \/ Tick \/ ServerCloses \/ UNCHANGED vars
    PROVE  FlowsKeep'
<1>1. PageGoesOn
  BY SilentGoesOn, ServerGoesOn
<1>2. UNCHANGED <<stage, target, pressed, fired, failed>> /\ (expired => expired')
  BY DEF GoTo, Flush, Retry, Online, Reconcile, Tick, ServerCloses, vars, flowVars, clockVars
<1>3. QED
  BY <1>1, <1>2, SameGoesOn, GoesOnFlows DEF FlowsGoOn

LEMMA PressFlows ==
    ASSUME PageInv, TypeOK', NEW p \in Presses, PressSubmit(p) PROVE FlowsKeep'
<1>1. /\ PageGoesOn /\ UNCHANGED <<expired, fired, failed, best>> /\ Sitting /\ stage[p] = "idle"
      /\ TypeOK /\ OnePress(chain) /\ FlowTypes /\ p \in Flows /\ "expiry" \in Flows
      /\ target \in 0..Closed /\ StartBarrier(p, target) /\ "expiry" # p /\ Presses \subseteq Flows
      /\ pressed' = [pressed EXCEPT ![p] = IF cache.section = Closed THEN None ELSE InScope(answers)]
  BY SilentGoesOn, FlowParts DEF PressSubmit, clockVars, Sitting, PageInv
<1>2. \A t \in Saves(chain) : t.from # p
  BY <1>1, NoPressSave DEF PageInv
<1>3. /\ target' = target /\ stage'["expiry"] = stage["expiry"]
      /\ \/ stage'[p] = "draining"
         \/ ~Dirty(queue, savedPos, volatile) /\ stage'[p] = AfterDrain(p, target)
      /\ \A g \in Presses : g # p => stage'[g] = stage[g] /\ pressed'[g] = pressed[g]
  BY <1>1, <1>2, StartFits DEF TypeOK
<1>4. ExpiryGoesOn
  BY <1>3 DEF ExpiryGoesOn
<1>5. FlowsKeep'
  <2>1. CASE stage'[p] = "draining"
    <3>1. FlowsKeep
      BY DEF PageInv
    <3>2. UNCHANGED <<cache, answers, screen, best>>
      BY <1>1, SilentGoesOn
    <3>3. \A f \in Flows : f \in Presses \/ f = "expiry"
      BY Bounds
    <3>4. QED
      BY <1>1, <1>3, <2>1, <3>1, <3>2, <3>3 DEF FlowsKeep, Sitting
  <2>2. CASE ~Dirty(queue, savedPos, volatile) /\ stage'[p] = AfterDrain(p, target)
    <3>1. stage'[p] = "posting" /\ \A q \in Questions : pressed'[p][q] <= best'[q]
      BY <1>1, <2>2, PressedIsSent DEF AfterDrain
    <3>2. SubmitGoesOn
      BY <1>1, <1>3, <3>1 DEF SubmitGoesOn
    <3>3. QED
      BY <1>1, <1>4, <3>2, GoesOnFlows DEF FlowsGoOn
  <2>3. QED
    BY <1>3, <2>1, <2>2
<1>6. QED
  BY <1>5

LEMMA RecoveryFlows ==
    ASSUME PageInv, TypeOK', AnswersKept', ExpiryStarts \/ RetryRecovery PROVE FlowsKeep'
<1>1. UNCHANGED <<answers, cache, screen, best, queue, volatile>>
  BY SilentGoesOn
<1>2. /\ RunRecovery /\ screen = "exam" /\ ~failed' /\ UNCHANGED expired
      /\ (fired' => fired \/ (expired /\ cache.section # Closed))
      /\ expired \/ failed
  BY DEF ExpiryStarts, RetryRecovery, RunRecovery, Timed
<1>3. /\ TypeOK /\ OnePress(chain) /\ FlowsKeep /\ (fired' => expired)
      /\ (cache.section = 0 => expired)
  BY <1>2 DEF PageInv, FlowsKeep
<1>4. cache.section \in 0..Closed /\ target \in 0..Closed /\ "expiry" \in Flows /\ Closed # 0
      /\ \A f \in Flows : f \in Presses \/ f = "expiry"
  BY <1>3, Bounds DEF TypeOK, Snapshot
<1>5. /\ pressed' = pressed /\ \A p \in Presses : stage'[p] = stage[p]
      /\ \/ cache.section = 0 /\ target' = target /\ stage'["expiry"] = "flushing"
         \/ /\ cache.section # 0 /\ target' = cache.section
            /\ \/ stage'["expiry"] = "draining"
               \/ /\ ~Dirty(queue, savedPos, volatile)
                  /\ stage'["expiry"] = AfterDrain("expiry", cache.section)
  BY <1>2, <1>3, RecoveryFits
<1>6. CASE cache.section = 0
  <2>1. target' \in {0, cache.section}
    <3>1. stage["expiry"] = "idle"
      BY DEF ExpiryStarts, RetryRecovery
    <3>2. target \in {0, Closed}
      BY <1>3, <3>1 DEF FlowsKeep
    <3>3. QED
      BY <1>3, <1>4, <1>5, <1>6, <3>2 DEF FlowsKeep
  <2>2. QED
    BY <1>1, <1>2, <1>3, <1>4, <1>5, <1>6, <2>1 DEF FlowsKeep, Sitting
<1>7. CASE cache.section # 0
  <2>1. stage'["expiry"] = "advancing" =>
          target' \in 1..NumSections /\ \A q \in Scope(target') : answers[q] <= best'[q]
    <3> SUFFICES ASSUME stage'["expiry"] = "advancing"
                 PROVE  target' \in 1..NumSections /\ \A q \in Scope(target') : answers[q] <= best'[q]
      OBVIOUS
    <3>1. AfterDrain("expiry", cache.section) = "advancing" /\ ~Dirty(queue, savedPos, volatile)
      BY <1>5, <1>7
    <3>2. cache.section \in 1..NumSections /\ target' = cache.section
      BY <1>4, <1>5, <1>7, <3>1, AfterDrainFits
    <3>3. queue \in Answers /\ ~Holds(queue) /\ volatile = FALSE
      BY <1>3, <3>1 DEF Dirty, TypeOK
    <3>4. \A q \in Scope(cache.section) : queue'[q] = 0
      BY <1>1, <1>3, <3>3, DrainedScope
    <3>5. QED
      BY <1>1, <1>2, <3>2, <3>3, <3>4, DrainedIsStored
  <2>2. stage'["expiry"] = "idle" => target' \in {0, Closed}
    BY <1>4, <1>5, <1>7, AfterDrainFits
  <2>3. QED
    BY <1>1, <1>2, <1>3, <1>4, <1>5, <1>7, <2>1, <2>2 DEF FlowsKeep, Sitting
<1>8. QED
  BY <1>6, <1>7

LEMMA RefetchFlows ==
    ASSUME PageInv, TypeOK', Refetch PROVE FlowsKeep'
<1>1. /\ TypeOK /\ FlowsKeep /\ UNCHANGED <<screen, answers, best, stage, target, pressed, failed>>
      /\ cache' = server /\ cache.section <= server.section /\ (cache.section = 0 <=> server.section = 0)
  BY RefetchMoves DEF PageInv, Refetch
<1>2. /\ cache.section \in Nat /\ server.section \in Nat /\ server.section <= Closed /\ Closed \in Nat
      /\ cache.section <= Closed
  BY <1>1, Numbers
<1>3. \/ server.section = cache.section /\ UNCHANGED <<expired, fired>>
      \/ server.section # cache.section /\ ~fired'
  BY DEF Refetch
<1>4. cache.section = Closed => server.section = Closed
  BY <1>1, <1>2
<1>5. CASE server.section = cache.section /\ UNCHANGED <<expired, fired>>
  BY <1>1, <1>5 DEF FlowsKeep, Sitting
<1>6. CASE server.section # cache.section /\ ~fired'
  <2>1. cache'.section # 0
    BY <1>1, <1>6
  <2>2. QED
    BY <1>1, <1>4, <1>6, <2>1 DEF FlowsKeep, Sitting
<1>7. QED
  BY <1>3, <1>5, <1>6

LEMMA EditFlows ==
    ASSUME PageInv, TypeOK', NEW q \in Questions, Edit(q) PROVE FlowsKeep'
<1>1. /\ FlowsKeep /\ ~expired /\ UNCHANGED <<screen, cache, best, stage, target, pressed, failed, expired, fired>>
  BY DEF PageInv, Edit, sessionVars, flowVars, clockVars
<1>2. ~fired'
  BY <1>1 DEF FlowsKeep
<1>3. QED
  BY <1>1, <1>2 DEF FlowsKeep, Sitting

\* No flow is under way while the page is opened or left.
LEMMA VisitFlows ==
    ASSUME PageInv, TypeOK', FetchReads \/ FetchArrives \/ Enter \/ Leave \/ Reload PROVE FlowsKeep'
<1>1. (\A f \in Flows : stage'[f] = "idle") /\ target' = 0 /\ ~fired' /\ ~failed'
  <2>1. CASE Leave \/ Reload
    BY <2>1 DEF Leave, Reload, Unmounted
  <2>2. CASE FetchReads \/ FetchArrives \/ Enter
    <3>1. ~Sitting /\ UNCHANGED <<stage, target, fired, failed>>
      BY <2>2 DEF FetchReads, FetchArrives, Enter, Sitting, flowVars, clockVars
    <3>2. QED
      BY <3>1, FlowParts
  <2>3. QED
    BY <2>1, <2>2
<1>2. Closed # 0 /\ "expiry" \in Flows /\ Presses \subseteq Flows
  BY Bounds DEF Flows
<1>3. QED
  BY <1>1, <1>2 DEF FlowsKeep

LEMMA FlowStep ==
    ASSUME PageInv, TypeOK', AnswersKept', [Next]_vars PROVE FlowsKeep'
<1>1. CASE Acked \/ Refused \/ Dropped
  BY <1>1, SettleFlows
<1>2. CASE \/ \E f \in Flows : BarrierTimesOut(f) \/ SubmitPosted(f) \/ SubmitFails(f)
           \/ AdvancePosted \/ AdvanceFails
  BY <1>2, PostFlows
<1>3. QED
  BY <1>1, <1>2, EditFlows, PressFlows, QuietFlows, RecoveryFlows, RefetchFlows, VisitFlows
     DEF Next, Student, Timers, Network, Visits

-----------------------------------------------------------------------------
(* The theorems *)

LEMMA PageInit == Init => PageInv
<1> SUFFICES ASSUME Init PROVE PageInv
  OBVIOUS
<1>1. TypeOK
  <2>1. server \in Snapshot
    <3>1. PICK s \in {0, 1} \cap 0..NumSections :
             server = [status |-> "in_progress", section |-> s, answers |-> None, pos |-> 1]
      BY DEF Init
    <3>2. s \in 0..Closed
      BY <3>1, Bounds
    <3>3. QED
      BY <3>1, <3>2, Bounds DEF Snapshot
  <2>2. 0 \in Edits /\ 0 \in 0..VisitBound
    BY Bounds DEF Edits
  <2>3. FlowTypes
    BY Bounds DEF Init, FlowTypes, Stages
  <2>4. ClockTypes
    BY <2>2, Bounds DEF Init, ClockTypes
  <2>5. SaveTypes
    <3>1. chain = <<>> /\ <<>> \in Seq(Save)
      BY DEF Init
    <3>2. QED
      BY <3>1, Bounds DEF Init, SaveTypes
  <2>6. RowTypes
    BY <2>1, Bounds DEF Init, RowTypes
  <2>7. QED
    BY <2>3, <2>4, <2>5, <2>6, TypeParts
<1>2. server.status = "in_progress" /\ server.answers = None
  BY DEF Init
<1>3. SavesCarry /\ OnePress(chain)
  BY DEF Init, SavesCarry, Saves, OnePress
<1>4. CopiesFollow
  BY <1>2, Bounds DEF Init, CopiesFollow, Behind, BehindRow, Sitting
<1>5. QueueIsNewest /\ ShownIsKept
  BY Bounds DEF Init, QueueIsNewest, ShownIsKept, Sitting
<1>6. FlowsKeep
  BY Bounds DEF Init, FlowsKeep, Flows
<1>7. NothingForgotten /\ SavedMeansStored
  BY Bounds DEF Init, NothingForgotten, SavedMeansStored
<1>8. QED
  BY <1>1, <1>3, <1>4, <1>5, <1>6, <1>7 DEF PageInv

LEMMA PageStep == PageInv /\ [Next]_vars => PageInv'
<1> SUFFICES ASSUME PageInv, [Next]_vars PROVE PageInv'
  OBVIOUS
<1>1. PageTypes'
  BY TypeStep DEF PageInv
<1>2. TypeOK' /\ OnePress(chain)'
  BY <1>1 DEF PageTypes
<1>3. AnswersKept'
  BY <1>2, AnswersStep
<1>4. SavesCarry' /\ FlowsKeep' /\ SavedMeansStored'
  BY <1>2, <1>3, CarryStep, FlowStep, SavedStep
<1>5. QED
  BY <1>2, <1>3, <1>4 DEF PageInv, AnswersKept

LEMMA PageInvariant == Spec => []PageInv
BY PageInit, PageStep, PTL DEF Spec

\* The page's state keeps its types: a save in the chain is one the page can
\* send, a flow is at a stage of its own, no counter passes its bound.
THEOREM PageTypesHold == Spec => []TypeOK
<1>1. PageInv => TypeOK
  BY DEF PageInv
<1>2. QED
  BY <1>1, PageInvariant, PTL

\* What localStorage took of an edit stays there until the server has it or
\* something newer, or the session is over.
THEOREM AnswersAreNotForgotten == Spec => []NothingForgotten
<1>1. PageInv => NothingForgotten
  BY DEF PageInv
<1>2. QED
  BY <1>1, PageInvariant, PTL

\* The save indicator says "saved" only of answers the server stored.
THEOREM SavedIsStored == Spec => []SavedMeansStored
<1>1. PageInv => SavedMeansStored
  BY DEF PageInv
<1>2. QED
  BY <1>1, PageInvariant, PTL

\* handleSubmit posts only when what it read off the page is stored.
THEOREM SubmitIsComplete == Spec => SubmittedAsPressed
<1>1. PageInv => \A p \in Presses : stage[p] = "posting" => \A q \in Questions : pressed[p][q] <= best[q]
  BY DEF PageInv, FlowsKeep
<1> DEFINE Posted == \A p \in Presses :
                       stage[p] = "posting" /\ stage'[p] # "posting"
                         /\ server.status = "in_progress" /\ server'.status = "submitted"
                       => \A q \in Questions : pressed[p][q] <= best[q]
<1>2. PageInv /\ [Next]_vars => [Posted]_vars
  BY <1>1
<1>3. QED
  BY <1>2, PageInvariant, PTL DEF SubmittedAsPressed, Spec

\* runExpiryRecovery closes a section only when everything the page shows of it
\* is stored.
THEOREM AdvanceIsComplete == Spec => ClosedSectionIsComplete
<1> DEFINE Closes == stage["expiry"] = "advancing" /\ server.status = "in_progress"
                       /\ server'.section # server.section /\ server.section = target
                       /\ (AdvancePosted \/ AdvanceFails)
                       /\ fired
                     => \A q \in Scope(target) : answers[q] <= best[q]
<1>1. PageInv /\ [Next]_vars => [Closes]_vars
  BY DEF PageInv, FlowsKeep
<1>2. QED
  BY <1>1, PageInvariant, PTL DEF ClosedSectionIsComplete, Spec

=============================================================================
