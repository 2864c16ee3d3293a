---------------------------- MODULE StudentsPage ----------------------------
(***************************************************************************)
(* The school's students page: a list loaded page by page, which a change  *)
(* of filter starts anew while answers for the old one are still coming,   *)
(* and the dialogs that register a student, reissue credentials and set a  *)
(* password.  Their requests go on when the dialog is closed.              *)
(*                                                                         *)
(* Students are numbered in the order the server lists them.  filter       *)
(* stands for status, search text (debounced) and school together.         *)
(***************************************************************************)
EXTENDS Naturals, FiniteSets, Functions

CONSTANTS
    Pupils,        \* a set of positive numbers
    Enrolled,      \* those registered at the start
    RowsPerPage,   \* the list's limit
    PupilChanges   \* bound: changes of a student the server takes

ASSUME StudentsConstants ==
    /\ Pupils \subseteq Nat \ {0} /\ IsFiniteSet(Pupils) /\ Enrolled \subseteq Pupils
    /\ RowsPerPage \in Nat \ {0} /\ PupilChanges \in Nat

VARIABLES
    statusOf,      \* server: each student's status
    changed,       \* server: the students that changed since the page was opened
    filter, listCursor, listNext, listed,   \* filterKey, activeCursor, nextCursor, accumulated
    answers,       \* the query cache: page by <<filter, cursor>>
    leftAsked,     \* requests whose key is no longer the list's
    registration,  \* the register dialog
    reissue,       \* the credentials dialog
    setPassword    \* the password dialog

listVars    == <<filter, listCursor, listNext, listed, answers, leftAsked>>
dialogVars  == <<registration, reissue, setPassword>>
studentVars == <<statusOf, changed, filter, listCursor, listNext, listed, answers,
                 leftAsked, registration, reissue, setPassword>>

Filters  == {"all", "active"}
Statuses == {"active", "deactivated"}
Cursors  == Pupils \cup {0}          \* 0: from the start
Keys     == Filters \X Cursors
None     == 0                        \* no student
NoRows   == [p \in {} |-> "active"]

NoRegistration == [open |-> FALSE, form |-> "empty", result |-> FALSE, pending |-> FALSE]
NoReissue      == [target |-> None, result |-> None, pending |-> None]
NoPassword     == [target |-> None, typed |-> "empty", pending |-> None]

\* Bound: one kind of dialog opens only when the others have nothing under way
\* and nothing left over.
OnlyRegister == reissue = NoReissue /\ setPassword = NoPassword
OnlyReissue  == registration = NoRegistration /\ setPassword = NoPassword
OnlyPassword == registration = NoRegistration /\ reissue = NoReissue

RowSets  == UNION {[S -> Statuses] : S \in SUBSET Pupils}

StudentsTypeOK ==
    /\ statusOf \in [Pupils -> Statuses \cup {"absent"}] /\ changed \subseteq Pupils
    /\ filter \in Filters /\ {listCursor, listNext} \subseteq Cursors
    /\ DOMAIN listed \subseteq Pupils /\ Range(listed) \subseteq Statuses
    /\ DOMAIN answers \subseteq Keys /\ leftAsked \subseteq Keys
    /\ \A k \in DOMAIN answers : answers[k].next \in Cursors /\ answers[k].rows \in RowSets
    /\ registration \in [open : BOOLEAN, form : {"empty", "complete"},
                         result : BOOLEAN, pending : BOOLEAN]
    /\ reissue \in [target : Cursors, result : Cursors, pending : Cursors]
    /\ setPassword \in [target : Cursors, typed : {"empty", "mismatch", "match"},
                        pending : Cursors]

-----------------------------------------------------------------------------
(* The list *)

Matching(f) == {p \in Pupils : statusOf[p] \in (IF f = "all" THEN Statuses ELSE {"active"})}

\* GET /admin/students: the next rows after the cursor, and where to go on.
Page(f, c) ==
    LET after == {p \in Matching(f) : p > c}
        ids   == {p \in after : Cardinality({q \in after : q < p}) < RowsPerPage}
    IN  [rows |-> [p \in ids |-> statusOf[p]],
         next |-> IF ids = after THEN 0 ELSE CHOOSE p \in ids : \A q \in ids : q <= p]

Key == <<filter, listCursor>>

\* The effect on query.data: the first page replaces the list, a later one adds
\* the rows it has not shown yet.
Taken(page, cursor, shown) ==
    IF cursor = 0 THEN page.rows
    ELSE [p \in DOMAIN shown \cup DOMAIN page.rows |->
             IF p \in DOMAIN shown THEN shown[p] ELSE page.rows[p]]

\* The page asked for arrives, first or again (an invalidation, a reconnect).
Answer ==
    LET page == Page(filter, listCursor)
    IN  /\ answers' = [k \in DOMAIN answers \cup {Key} |-> IF k = Key THEN page ELSE answers[k]]
        /\ listed' = Taken(page, listCursor, listed) /\ listNext' = page.next
        /\ UNCHANGED <<statusOf, changed, filter, listCursor, leftAsked, dialogVars>>

\* A page asked for under an earlier key arrives: it is cached only.
LateAnswer ==
    /\ \E k \in leftAsked :
          /\ answers' = [j \in DOMAIN answers \cup {k} |-> IF j = k THEN Page(k[1], k[2]) ELSE answers[j]]
          /\ leftAsked' = leftAsked \ {k}
    /\ UNCHANGED <<statusOf, changed, filter, listCursor, listNext, listed, dialogVars>>

\* ChangeFilter without the effect that goes back to the first page.
ChangeFilter_SameCursor(f) ==
    LET passing == <<f, listCursor>>
        show    == IF passing \in DOMAIN answers THEN answers[passing]
                   ELSE [rows |-> NoRows, next |-> 0]
    IN  /\ f # filter
        /\ filter' = f /\ UNCHANGED listCursor
        /\ listed' = show.rows /\ listNext' = show.next
        /\ leftAsked' = (leftAsked \cup ({Key} \ DOMAIN answers)) \ {passing}
        /\ UNCHANGED <<statusOf, changed, answers, dialogVars>>

\* Another filter.  For one render it is read at the old cursor (that page is
\* asked for, and shown when it is cached), then the effect on the filter has
\* emptied the list and gone back to the first page.
ChangeFilter(f) ==
    LET passing == <<f, listCursor>>
        first   == <<f, 0>>
        show    == IF first \in DOMAIN answers THEN answers[first]
                   ELSE IF passing \in DOMAIN answers THEN answers[passing]
                   ELSE [rows |-> NoRows, next |-> 0]
    IN  /\ f # filter
        /\ filter' = f /\ listCursor' = 0
        /\ listed' = show.rows /\ listNext' = show.next
        /\ leftAsked' = (leftAsked \cup ({Key, passing} \ DOMAIN answers)) \ {first}
        /\ UNCHANGED <<statusOf, changed, answers, dialogVars>>

\* handleLoadMore; the button waits for the page under way.  A dialog covers it.
LoadMore ==
    /\ ~registration.open /\ reissue.target = None /\ setPassword.target = None
    /\ listNext # 0 /\ Key \in DOMAIN answers
    /\ listCursor' = listNext
    /\ LET k == <<filter, listNext>>
       IN  IF k \in DOMAIN answers
           THEN listed' = Taken(answers[k], listNext, listed) /\ listNext' = answers[k].next
           ELSE UNCHANGED <<listed, listNext>>
    /\ leftAsked' = leftAsked \ {<<filter, listNext>>}
    /\ UNCHANGED <<statusOf, changed, filter, answers, dialogVars>>

-----------------------------------------------------------------------------
(* Changing students *)

ServerChanges(p, status) ==
    /\ Cardinality(changed \cup {p}) <= PupilChanges
    /\ statusOf' = [statusOf EXCEPT ![p] = status] /\ changed' = changed \cup {p}

\* handleStatusToggle: the opposite of the status its row shows.  The page under
\* the list's key is asked for again (Answer), the rows before it are not.
ToggleStatus(p) ==
    /\ p \in DOMAIN listed
    /\ ServerChanges(p, IF listed[p] = "active" THEN "deactivated" ELSE "active")
    /\ UNCHANGED <<listVars, dialogVars>>

OpenRegister ==
    /\ ~registration.open /\ OnlyRegister
    /\ registration' = [registration EXCEPT !.open = TRUE]
    /\ UNCHANGED <<statusOf, changed, listVars, reissue, setPassword>>

\* Typing; another school clears the school level, which is required.
EditRegister ==
    /\ registration.open /\ ~registration.result
    /\ \E form \in {"empty", "complete"} : registration' = [registration EXCEPT !.form = form]
    /\ registration' # registration
    /\ UNCHANGED <<statusOf, changed, listVars, reissue, setPassword>>

\* handleRegister: name and school level are required.
Register ==
    /\ registration.open /\ ~registration.result /\ ~registration.pending
    /\ registration.form = "complete"
    /\ registration' = [registration EXCEPT !.pending = TRUE]
    /\ UNCHANGED <<statusOf, changed, listVars, reissue, setPassword>>

\* The account is created and its credentials are kept, be the dialog open or not.
Registered(p) ==
    /\ registration.pending /\ statusOf[p] = "absent"
    /\ ServerChanges(p, "active")
    /\ registration' = [registration EXCEPT !.pending = FALSE, !.result = TRUE]
    /\ UNCHANGED <<listVars, reissue, setPassword>>

CloseRegister ==
    /\ registration.open
    /\ registration' = [NoRegistration EXCEPT !.pending = registration.pending]
    /\ UNCHANGED <<statusOf, changed, listVars, reissue, setPassword>>

OpenReissue(p) ==
    /\ p \in DOMAIN listed /\ reissue.target = None /\ OnlyReissue
    /\ reissue' = [reissue EXCEPT !.target = p]
    /\ UNCHANGED <<statusOf, changed, listVars, registration, setPassword>>

\* handleReissue, for the student whose dialog is open.
Reissue ==
    /\ reissue.target # None /\ reissue.result = None /\ reissue.pending = None
    /\ reissue' = [reissue EXCEPT !.pending = reissue.target]
    /\ UNCHANGED <<statusOf, changed, listVars, registration, setPassword>>

\* The new credentials are kept for whichever dialog is open now.
Reissued ==
    /\ reissue.pending # None
    /\ reissue' = [reissue EXCEPT !.pending = None, !.result = reissue.pending]
    /\ UNCHANGED <<statusOf, changed, listVars, registration, setPassword>>

CloseReissue ==
    /\ reissue.target # None
    /\ reissue' = [NoReissue EXCEPT !.pending = reissue.pending]
    /\ UNCHANGED <<statusOf, changed, listVars, registration, setPassword>>

\* The super admin's dialog.
OpenSetPassword(p) ==
    /\ p \in DOMAIN listed /\ setPassword.target = None /\ OnlyPassword
    /\ setPassword' = [setPassword EXCEPT !.target = p]
    /\ UNCHANGED <<statusOf, changed, listVars, registration, reissue>>

TypePasswords(typed) ==
    /\ setPassword.target # None /\ setPassword.typed # typed
    /\ setPassword' = [setPassword EXCEPT !.typed = typed]
    /\ UNCHANGED <<statusOf, changed, listVars, registration, reissue>>

\* handleSetPassword: both fields, alike.
SetPassword ==
    /\ setPassword.target # None /\ setPassword.typed = "match" /\ setPassword.pending = None
    /\ setPassword' = [setPassword EXCEPT !.pending = setPassword.target]
    /\ UNCHANGED <<statusOf, changed, listVars, registration, reissue>>

\* Success closes the dialog, the one that is open now.
PasswordSet ==
    /\ setPassword.pending # None
    /\ setPassword' = NoPassword
    /\ UNCHANGED <<statusOf, changed, listVars, registration, reissue>>

CloseSetPassword ==
    /\ setPassword.target # None
    /\ setPassword' = [NoPassword EXCEPT !.pending = setPassword.pending]
    /\ UNCHANGED <<statusOf, changed, listVars, registration, reissue>>

\* A dialog's request is refused: a toast, and the dialog is as it was.
DialogRefused ==
    /\ \/ registration.pending
          /\ registration' = [registration EXCEPT !.pending = FALSE]
          /\ UNCHANGED <<reissue, setPassword>>
       \/ reissue.pending # None
          /\ reissue' = [reissue EXCEPT !.pending = None]
          /\ UNCHANGED <<registration, setPassword>>
       \/ setPassword.pending # None
          /\ setPassword' = [setPassword EXCEPT !.pending = None]
          /\ UNCHANGED <<registration, reissue>>
    /\ UNCHANGED <<statusOf, changed, listVars>>

-----------------------------------------------------------------------------
StudentsInit ==
    /\ statusOf = [p \in Pupils |-> IF p \in Enrolled THEN "active" ELSE "absent"]
    /\ changed = {} /\ filter = "all" /\ listCursor = 0 /\ listNext = 0
    /\ listed = NoRows /\ answers = [k \in {} |-> Page("all", 0)] /\ leftAsked = {}
    /\ registration = NoRegistration /\ reissue = NoReissue /\ setPassword = NoPassword

StudentsNext ==
    \/ Answer \/ LateAnswer \/ LoadMore
    \/ \E f \in Filters : ChangeFilter(f)
    \/ \E p \in Pupils : \/ ToggleStatus(p) \/ Registered(p) \/ OpenReissue(p) \/ OpenSetPassword(p)
    \/ OpenRegister \/ EditRegister \/ Register \/ CloseRegister
    \/ Reissue \/ Reissued \/ CloseReissue
    \/ \E typed \in {"mismatch", "match"} : TypePasswords(typed)
    \/ SetPassword \/ PasswordSet \/ CloseSetPassword \/ DialogRefused

StudentsSpec == StudentsInit /\ [][StudentsNext]_studentVars

-----------------------------------------------------------------------------
\* Paging loses nobody: once the current page has come, every student who
\* matches the filter and did not change meanwhile is in the list as far as it
\* has been loaded, and all of them when there is nothing more to load.
NoneSkipped ==
    Key \in DOMAIN answers =>
        \A p \in Matching(filter) \ changed :
            (listNext = 0 \/ p <= listNext) => p \in DOMAIN listed

=============================================================================
