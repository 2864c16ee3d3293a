----------------------------- MODULE SchoolsPage -----------------------------
(***************************************************************************)
(* The schools page of the system administrators: the list, an edit that   *)
(* sends the fields that differ from the row it was opened on, and the     *)
(* import of a CSV, whose job is polled and reported once.  The students   *)
(* page's import dialog is the same without the report.                    *)
(*                                                                         *)
(* One school stands for the list; another administrator edits it too.     *)
(***************************************************************************)
EXTENDS Naturals

CONSTANTS
    SchoolEdits,     \* bound: changes of the school the server takes
    ImportRuns       \* bound: submissions of the import form, by number

ASSUME SchoolConstants == SchoolEdits \in Nat /\ ImportRuns \subseteq Nat \ {0}

VARIABLES
    school, edits,   \* server: the school's fields, and how often it changed
    schoolRow,       \* the row in the list; empty while the list is
    schoolData,      \* the row of the query's data, which the effect copies
    schoolsDue,      \* the list is to be read again
    editTarget, editForm, editing,   \* the edit dialog; editing: its request
    typedIn,         \* history: fields typed in since the dialog opened, or for its request
    importOpen, importFile, importJob,
    importStep,      \* each submission of the form
    importStatus,    \* server: its job
    importSeen,      \* the status last polled of the job shown
    notifiedJobId

schoolVars == <<school, edits, schoolRow, schoolData, schoolsDue, editTarget, editForm,
                editing, typedIn, importOpen, importFile, importJob, importStep, importStatus,
                importSeen, notifiedJobId>>
editVars   == <<editTarget, editForm, editing, typedIn>>
importVars == <<importOpen, importFile, importJob, importStep, importStatus, importSeen,
                notifiedJobId>>

SchoolFields == {"name", "npsn"}          \* npsn: as address, may be left empty
ValuesOf(f)  == IF f = "name" THEN {"a", "b"} ELSE {"", "a", "b"}
Values       == ValuesOf("name") \cup ValuesOf("npsn")
SchoolRecord == [SchoolFields -> Values]
NoSchool     == [f \in {} |-> ""]

SchoolTypeOK ==
    /\ school \in SchoolRecord /\ edits \in 0..SchoolEdits
    /\ {schoolRow, schoolData, editTarget, editForm} \subseteq SchoolRecord \cup {NoSchool}
    /\ schoolsDue \in BOOLEAN /\ editing \in [SchoolFields -> Values \cup {"unsent"}] \cup {NoSchool}
    /\ typedIn \subseteq SchoolFields
    /\ importOpen \in BOOLEAN /\ importFile \in BOOLEAN
    /\ importJob \in ImportRuns \cup {0} /\ notifiedJobId \in ImportRuns \cup {0}
    /\ importStep \in [ImportRuns -> {"unused", "presign", "put", "enqueue", "ended"}]
    /\ importStatus \in [ImportRuns -> {"none", "running", "succeeded", "failed"}]
    /\ importSeen \in {"none", "running", "succeeded", "failed"}

-----------------------------------------------------------------------------
(* The list *)

Changes(new) == edits < SchoolEdits /\ edits' = edits + 1 /\ school' = new

\* The page arrives.  Data that equals what the cache had keeps its identity, and
\* the effect that fills the list does not run.
SchoolsArrive ==
    /\ schoolsDue
    /\ schoolData' = school /\ schoolsDue' = FALSE
    /\ schoolRow' = IF school = schoolData THEN schoolRow ELSE school
    /\ UNCHANGED <<school, edits, editVars, importVars>>

\* Another administrator changes a field.
OtherEdits ==
    /\ \E f \in SchoolFields : \E v \in ValuesOf(f) :
          v # school[f] /\ Changes([school EXCEPT ![f] = v])
    /\ UNCHANGED <<schoolRow, schoolData, schoolsDue, editVars, importVars>>

-----------------------------------------------------------------------------
(* Editing *)

\* handleEditOpen fills the form from the row.  Bound: no import came before.
OpenEdit ==
    /\ schoolRow # NoSchool /\ editTarget = NoSchool
    /\ ~importOpen /\ \A u \in ImportRuns : importStep[u] = "unused"
    /\ editTarget' = schoolRow /\ editForm' = schoolRow
    /\ typedIn' = IF editing = NoSchool THEN {} ELSE typedIn
    /\ UNCHANGED <<school, edits, schoolRow, schoolData, schoolsDue, editing, importVars>>

TypeField(f, v) ==
    /\ editTarget # NoSchool /\ editForm[f] # v
    /\ editForm' = [editForm EXCEPT ![f] = v] /\ typedIn' = typedIn \cup {f}
    /\ UNCHANGED <<school, edits, schoolRow, schoolData, schoolsDue, editTarget, editing, importVars>>

\* The form left behind is filled anew when the dialog opens again.
ClosedEdit == editTarget' = NoSchool /\ editForm' = NoSchool

CloseEdit ==
    /\ editTarget # NoSchool /\ ClosedEdit
    /\ UNCHANGED <<school, edits, schoolRow, schoolData, schoolsDue, editing, typedIn, importVars>>

\* The payload, when the whole form is sent.
Payload_WholeForm(form, target) == form

\* The payload: the fields that differ from the target's.  An optional field that
\* was emptied differs but has no value, and JSON leaves it out.
Payload(form, target) ==
    [f \in SchoolFields |-> IF form[f] = target[f] \/ (f = "npsn" /\ form[f] = "")
                            THEN "unsent" ELSE form[f]]

\* handleEdit; without a difference it just closes.
SaveEdit ==
    /\ editTarget # NoSchool /\ editing = NoSchool
    /\ IF editForm = editTarget
       THEN ClosedEdit /\ UNCHANGED <<editing, typedIn>>
       ELSE editing' = Payload(editForm, editTarget) /\ UNCHANGED <<editTarget, editForm, typedIn>>
    /\ UNCHANGED <<school, edits, schoolRow, schoolData, schoolsDue, importVars>>

\* PUT /admin/schools/:id writes the fields it is given.
EditSaved ==
    /\ editing # NoSchool
    /\ Changes([f \in SchoolFields |-> IF editing[f] = "unsent" THEN school[f] ELSE editing[f]])
    /\ editing' = NoSchool /\ ClosedEdit /\ schoolsDue' = TRUE
    /\ UNCHANGED <<typedIn, schoolRow, schoolData, importVars>>

EditRefused ==
    /\ editing # NoSchool /\ editing' = NoSchool
    /\ UNCHANGED <<school, edits, schoolRow, schoolData, schoolsDue, editTarget, editForm, typedIn, importVars>>

-----------------------------------------------------------------------------
(* The import dialog *)

OpenImport ==
    /\ ~importOpen /\ editTarget = NoSchool /\ editing = NoSchool /\ importOpen' = TRUE
    /\ UNCHANGED <<school, edits, schoolRow, schoolData, schoolsDue, editVars, importFile, importJob,
                   importStep, importStatus, importSeen, notifiedJobId>>

ChooseImportFile ==
    /\ importOpen /\ ~importFile /\ importFile' = TRUE
    /\ UNCHANGED <<school, edits, schoolRow, schoolData, schoolsDue, editVars, importOpen, importJob,
                   importStep, importStatus, importSeen, notifiedJobId>>

\* handleSubmit.  The button waits for the presign and the enqueue call, and not
\* for the upload between them.
SubmitImport(u) ==
    /\ importOpen /\ importFile
    /\ \A v \in ImportRuns : importStep[v] \notin {"presign", "enqueue"}
    /\ importStep[u] = "unused" /\ \A v \in ImportRuns : v < u => importStep[v] # "unused"
    /\ importStep' = [importStep EXCEPT ![u] = "presign"]
    /\ UNCHANGED <<school, edits, schoolRow, schoolData, schoolsDue, editVars, importOpen, importFile,
                   importJob, importStatus, importSeen, notifiedJobId>>

\* Presign, upload, enqueue; the last one keeps the job's number, be the dialog
\* open or not.
ImportGoesOn(u) ==
    /\ importStep[u] \in {"presign", "put", "enqueue"}
    /\ importStep' = [importStep EXCEPT ![u] =
          IF importStep[u] = "presign" THEN "put" ELSE IF importStep[u] = "put" THEN "enqueue" ELSE "ended"]
    /\ IF importStep[u] = "enqueue"
       THEN /\ importStatus' = [importStatus EXCEPT ![u] = "running"]
            /\ importJob' = u /\ importSeen' = "none"
       ELSE UNCHANGED <<importStatus, importJob, importSeen>>
    /\ UNCHANGED <<school, edits, schoolRow, schoolData, schoolsDue, editVars, importOpen, importFile,
                   notifiedJobId>>

ImportFails(u) ==
    /\ importStep[u] \in {"presign", "put", "enqueue"}
    /\ importStep' = [importStep EXCEPT ![u] = "ended"]
    /\ UNCHANGED <<school, edits, schoolRow, schoolData, schoolsDue, editVars, importOpen, importFile,
                   importJob, importStatus, importSeen, notifiedJobId>>

\* The worker ends the job; success may have changed the school.
ImportJobEnds(u) ==
    /\ importStatus[u] = "running"
    /\ \/ /\ importStatus' = [importStatus EXCEPT ![u] = "failed"] /\ UNCHANGED <<school, edits>>
       \/ /\ importStatus' = [importStatus EXCEPT ![u] = "succeeded"]
          /\ \/ UNCHANGED <<school, edits>>
             \/ school["name"] # "b" /\ Changes([school EXCEPT !["name"] = "b"])
    /\ UNCHANGED <<schoolRow, schoolData, schoolsDue, editVars, importOpen, importFile, importJob,
                   importStep, importSeen, notifiedJobId>>

\* The job's status, asked for until it has ended.
PollImport ==
    /\ importJob # 0 /\ importSeen \notin {"succeeded", "failed"}
    /\ importSeen' = importStatus[importJob] /\ importSeen' # importSeen
    /\ UNCHANGED <<school, edits, schoolRow, schoolData, schoolsDue, editVars, importOpen, importFile,
                   importJob, importStep, importStatus, notifiedJobId>>

\* The effect's report: the page empties its list, goes back to the first page
\* and has it read again.
Report == schoolRow' = NoSchool /\ schoolsDue' = TRUE

\* The effect on a job that has succeeded.
NotifySuccess ==
    /\ importJob # 0 /\ importSeen = "succeeded" /\ notifiedJobId # importJob
    /\ Report /\ notifiedJobId' = importJob
    /\ UNCHANGED <<school, edits, schoolData, editVars, importOpen, importFile, importJob, importStep,
                   importStatus, importSeen>>

CloseImport ==
    /\ importOpen
    /\ importSeen = "succeeded" => notifiedJobId = importJob   \* the effect ran first
    /\ importOpen' = FALSE /\ importFile' = FALSE /\ importJob' = 0 /\ importSeen' = "none"
    /\ notifiedJobId' = 0
    /\ UNCHANGED <<school, edits, schoolRow, schoolData, schoolsDue, editVars, importStep,
                   importStatus>>

-----------------------------------------------------------------------------
SchoolInit ==
    /\ school = [name |-> "a", npsn |-> "a"] /\ edits = 0
    /\ schoolRow = school /\ schoolData = school /\ schoolsDue = FALSE
    /\ editTarget = NoSchool /\ editForm = NoSchool /\ editing = NoSchool /\ typedIn = {}
    /\ importOpen = FALSE /\ importFile = FALSE /\ importJob = 0
    /\ importStep = [u \in ImportRuns |-> "unused"]
    /\ importStatus = [u \in ImportRuns |-> "none"] /\ importSeen = "none"
    /\ notifiedJobId = 0

SchoolNext ==
    \/ SchoolsArrive \/ OtherEdits
    \/ OpenEdit \/ CloseEdit \/ SaveEdit \/ EditSaved \/ EditRefused
    \/ \E f \in SchoolFields : \E v \in ValuesOf(f) : TypeField(f, v)
    \/ OpenImport \/ ChooseImportFile \/ PollImport \/ NotifySuccess \/ CloseImport
    \/ \E u \in ImportRuns : \/ SubmitImport(u) \/ ImportGoesOn(u) \/ ImportFails(u)
                             \/ ImportJobEnds(u)

SchoolSpec == SchoolInit /\ [][SchoolNext]_schoolVars

-----------------------------------------------------------------------------
\* An edit that is saved changes no field the administrator did not type in,
\* whoever changed that field on the server since the row was read.
EditsKeepOthers ==
    [][editing # NoSchool /\ edits' > edits /\ editing' = NoSchool =>
          \A f \in SchoolFields \ typedIn : school'[f] = school[f]]_schoolVars

=============================================================================
