--------------------------- MODULE CurriculumEditor ---------------------------
(***************************************************************************)
(* The curriculum of a course, as its author edits it: a list of chapters, *)
(* or the lessons of one of them, in the order of their positions.  The    *)
(* two lists work alike; a chapter is renamed in its row and added by a    *)
(* line above the list, a lesson has a dialog for each.  The server adds a *)
(* unit in two statements and moves one in a statement per unit, without a *)
(* transaction, while another author adds, removes and moves.              *)
(***************************************************************************)
EXTENDS Naturals, Sequences, FiniteSets

CONSTANTS
    Units,              \* chapters or lessons there may be, positive numbers
    CurriculumWrites    \* bound: requests of the page and changes of the other author

ASSUME CurriculumConstants ==
    Units \subseteq Nat \ {0} /\ IsFiniteSet(Units) /\ CurriculumWrites \in Nat

VARIABLES
    listKind,       \* "chapters" or "lessons"
    position,       \* server: the position of each unit there is
    unitsShown,     \* the list as last read
    unitsDue,       \* it is to be read again
    unitEdit,       \* editingSectionId or editLesson; 0 is none
    createOpen,     \* the lesson dialog to add one
    asked,          \* the requests under way, one of a kind
    curriculumWrites

curriculumVars == <<listKind, position, unitsShown, unitsDue, unitEdit, createOpen, asked,
                    curriculumWrites>>

Kinds   == {"add", "rename", "delete", "reorder"}
NoAsk   == [stage |-> "idle", of |-> 0, place |-> 0, ids |-> <<>>, taken |-> {}]
There   == DOMAIN position
Present(seq) == {seq[i] : i \in DOMAIN seq}
OneEach(seq) == \A i, j \in DOMAIN seq : seq[i] = seq[j] => i = j
Lists(S) == {seq \in UNION {[1..n -> S] : n \in 0..Cardinality(S)} : OneEach(seq)}

CurriculumTypeOK ==
    /\ listKind \in {"chapters", "lessons"}
    /\ There \subseteq Units /\ \A u \in There : position[u] \in 0..Cardinality(Units)
    /\ unitsShown \in Lists(Units) /\ {unitsDue, createOpen} \subseteq BOOLEAN
    /\ unitEdit \in Units \cup {0} /\ (createOpen => listKind = "lessons")
    /\ asked \in [Kinds -> [stage : {"idle", "sent", "counted", "done"},
                            of : Units \cup (0..Cardinality(Units)),       \* a unit, or a move's row
                            place : 0..(Cardinality(Units) + 1), ids : Lists(Units),
                            taken : SUBSET Units]]                 \* see OtherMoves
    /\ curriculumWrites \in 0..CurriculumWrites

CurriculumInit ==
    /\ listKind \in {"chapters", "lessons"}
    /\ \E n \in 0..Cardinality(Units) :
           /\ 1..n \subseteq Units
           /\ position = [u \in 1..n |-> u - 1] /\ unitsShown = [i \in 1..n |-> i]
    /\ unitsDue = FALSE /\ unitEdit = 0 /\ createOpen = FALSE
    /\ asked = [k \in Kinds |-> NoAsk] /\ curriculumWrites = 0

Counted == curriculumWrites < CurriculumWrites /\ curriculumWrites' = curriculumWrites + 1

\* A dialog covers the rows of lessons.
RowsReachable == listKind = "chapters" \/ (unitEdit = 0 /\ ~createOpen)

NoneAsked(kind) == asked[kind].stage = "idle"
AskFor(kind, request) == /\ NoneAsked(kind) /\ Counted
                         /\ asked' = [asked EXCEPT ![kind] = request]
Sent(u) == [stage |-> "sent", of |-> u, place |-> 0, ids |-> <<>>, taken |-> {}]

-----------------------------------------------------------------------------
(* The page *)

\* The pencil of a row: of another row, too, while a chapter is being edited.
EditUnit(u) ==
    /\ RowsReachable /\ u \in Present(unitsShown) /\ u # unitEdit
    /\ unitEdit' = u
    /\ UNCHANGED <<listKind, position, unitsShown, unitsDue, createOpen, asked, curriculumWrites>>

\* A chapter is edited in its row, and the row may be gone; a lesson's dialog stays.
EditorOpen == unitEdit # 0 /\ (listKind = "chapters" => unitEdit \in Present(unitsShown))

StopEdit ==
    /\ EditorOpen /\ unitEdit' = 0
    /\ UNCHANGED <<listKind, position, unitsShown, unitsDue, createOpen, asked, curriculumWrites>>

OpenCreate ==
    /\ listKind = "lessons" /\ RowsReachable /\ NoneAsked("add") /\ createOpen' = TRUE
    /\ UNCHANGED <<listKind, position, unitsShown, unitsDue, unitEdit, asked, curriculumWrites>>

CloseCreate ==
    /\ createOpen /\ createOpen' = FALSE
    /\ UNCHANGED <<listKind, position, unitsShown, unitsDue, unitEdit, asked, curriculumWrites>>

Rename ==
    /\ EditorOpen /\ AskFor("rename", Sent(unitEdit))
    /\ UNCHANGED <<listKind, position, unitsShown, unitsDue, unitEdit, createOpen>>

Add ==
    /\ listKind = "chapters" \/ createOpen
    /\ AskFor("add", Sent(0))
    /\ UNCHANGED <<listKind, position, unitsShown, unitsDue, unitEdit, createOpen>>

Delete(u) ==
    /\ RowsReachable /\ u \in Present(unitsShown) /\ (listKind = "chapters" => u # unitEdit)
    /\ AskFor("delete", Sent(u))
    /\ UNCHANGED <<listKind, position, unitsShown, unitsDue, unitEdit, createOpen>>

\* Up or down: the two rows are exchanged and the whole list is sent.
Move(i) ==
    /\ RowsReachable /\ i \in 1..(Len(unitsShown) - 1)
    /\ LET moved == [unitsShown EXCEPT ![i] = unitsShown[i + 1], ![i + 1] = unitsShown[i]]
       IN  AskFor("reorder", [stage |-> "sent", of |-> i, place |-> 1, ids |-> moved, taken |-> {}])
    /\ UNCHANGED <<listKind, position, unitsShown, unitsDue, unitEdit, createOpen>>

\* invalidateQueries, and the handler's next line: the editor or the dialog
\* closes, also another unit's.
AskedDone(kind) ==
    /\ asked[kind].stage = "done" /\ asked' = [asked EXCEPT ![kind] = NoAsk]
    /\ unitsDue' = TRUE
    /\ unitEdit' = IF kind = "rename" THEN 0 ELSE unitEdit
    /\ createOpen' = (createOpen /\ kind # "add")
    /\ UNCHANGED <<listKind, position, unitsShown, curriculumWrites>>

\* Refused, or the connection lost: the server stops where it is, and the list
\* is not read again.
AskedFails(kind) ==
    /\ ~NoneAsked(kind) /\ asked' = [asked EXCEPT ![kind] = NoAsk]
    /\ UNCHANGED <<listKind, position, unitsShown, unitsDue, unitEdit, createOpen, curriculumWrites>>

\* ORDER BY position: units of one position come in any order.
UnitsArrive ==
    /\ unitsDue /\ unitsDue' = FALSE
    /\ \E seq \in Lists(There) :
           /\ Len(seq) = Cardinality(There)
           /\ \A i \in 1..(Len(seq) - 1) : position[seq[i]] <= position[seq[i + 1]]
           /\ unitsShown' = seq
    /\ UNCHANGED <<listKind, position, unitEdit, createOpen, asked, curriculumWrites>>

-----------------------------------------------------------------------------
(* The server *)

\* The id of a new unit is used nowhere: not in a row, an editor or a request.
NewUnits == Units \ (There \cup Present(unitsShown) \cup {unitEdit, asked["rename"].of, asked["delete"].of}
                   \cup Present(asked["reorder"].ids))

Placed(u, p)   == [v \in There \cup {u} |-> IF v = u THEN p ELSE position[v]]
Without(u)     == [v \in There \ {u} |-> position[v]]
Stage(kind, s) == asked' = [asked EXCEPT ![kind].stage = s]

\* CreateSection and CreateLesson: a new unit's position is the number of units,
\* counted before it is inserted.
CountUnits ==
    /\ asked["add"].stage = "sent"
    /\ asked' = [asked EXCEPT !["add"].stage = "counted", !["add"].place = Cardinality(There)]
    /\ UNCHANGED <<listKind, position, unitsShown, unitsDue, unitEdit, createOpen, curriculumWrites>>

InsertUnit ==
    /\ asked["add"].stage = "counted" /\ Stage("add", "done")
    /\ \E u \in NewUnits : position' = Placed(u, asked["add"].place)
    /\ UNCHANGED <<listKind, unitsShown, unitsDue, unitEdit, createOpen, curriculumWrites>>

\* An UPDATE that returns the row: of a deleted unit there is none.
RenameUnit ==
    /\ asked["rename"].stage = "sent" /\ asked["rename"].of \in There /\ Stage("rename", "done")
    /\ UNCHANGED <<listKind, position, unitsShown, unitsDue, unitEdit, createOpen, curriculumWrites>>

DeleteUnit ==
    /\ asked["delete"].stage = "sent" /\ Stage("delete", "done")
    /\ position' = Without(asked["delete"].of)
    /\ UNCHANGED <<listKind, unitsShown, unitsDue, unitEdit, createOpen, curriculumWrites>>

MoveUnit_SwappedOnly ==
    LET r == asked["reorder"]
        u == r.ids[r.place]
    IN  /\ r.stage = "sent" /\ r.place <= Len(r.ids)
        /\ position' = IF u \in There /\ r.place \in {r.of, r.of + 1}
                       THEN Placed(u, r.place - 1) ELSE position
        /\ asked' = [asked EXCEPT !["reorder"].place = r.place + 1,
                                  !["reorder"].stage = IF r.place = Len(r.ids) THEN "done" ELSE "sent"]
        /\ UNCHANGED <<listKind, unitsShown, unitsDue, unitEdit, createOpen, curriculumWrites>>

\* ReorderSections and ReorderLessons: one statement for each unit of the list.
MoveUnit ==
    LET r == asked["reorder"]
        u == r.ids[r.place]
    IN  /\ r.stage = "sent" /\ r.place <= Len(r.ids)
        /\ position' = IF u \in There THEN Placed(u, r.place - 1) ELSE position
        /\ asked' = [asked EXCEPT !["reorder"].place = r.place + 1,
                                  !["reorder"].stage = IF r.place = Len(r.ids) THEN "done" ELSE "sent"]
        /\ UNCHANGED <<listKind, unitsShown, unitsDue, unitEdit, createOpen, curriculumWrites>>

\* The other author's page adds and deletes in the same way.
OtherAuthor ==
    /\ Counted
    /\ \/ \E u \in NewUnits : position' = Placed(u, Cardinality(There))
       \/ \E u \in There : position' = Without(u)
    /\ UNCHANGED <<listKind, unitsShown, unitsDue, unitEdit, createOpen, asked>>

\* One statement of a move of the other author, which may fall between two of
\* ours; a unit that it takes from where ours has put it is noted.
Written(r) == {r.ids[k] : k \in {j \in DOMAIN r.ids : j < r.place}}
OtherMoves ==
    /\ Counted
    /\ \E u \in There, p \in 0..(Cardinality(Units) - 1) :
           /\ position' = Placed(u, p)
           /\ asked' = [asked EXCEPT !["reorder"].taken = @ \cup ({u} \cap Written(asked["reorder"]))]
    /\ UNCHANGED <<listKind, unitsShown, unitsDue, unitEdit, createOpen>>

-----------------------------------------------------------------------------

CurriculumNext ==
    \/ \E u \in Units : EditUnit(u) \/ Delete(u)
    \/ StopEdit \/ OpenCreate \/ CloseCreate \/ Rename \/ Add
    \/ \E i \in 1..Cardinality(Units) : Move(i)
    \/ \E kind \in Kinds : AskedDone(kind) \/ AskedFails(kind)
    \/ UnitsArrive \/ CountUnits \/ InsertUnit \/ RenameUnit \/ DeleteUnit \/ MoveUnit
    \/ OtherAuthor \/ OtherMoves

CurriculumSpec == CurriculumInit /\ [][CurriculumNext]_curriculumVars

\* A move puts the units into the order the author sent, one after another: those
\* it has come to are in that order whatever gaps and ties deletions, additions and
\* earlier moves had left among their positions, and whatever another author adds,
\* removes or moves between its statements, but for the ones moved again since.
MovedAsSent ==
    LET r == asked["reorder"]
    IN  \A i, j \in DOMAIN r.ids :
            i < j /\ j < r.place /\ {r.ids[i], r.ids[j]} \subseteq There \ r.taken
                => position[r.ids[i]] < position[r.ids[j]]

===============================================================================
