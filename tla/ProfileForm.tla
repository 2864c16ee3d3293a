----------------------------- MODULE ProfileForm ------------------------------
(***************************************************************************)
(* The student's profile page.  One form shows the profile and edits it:   *)
(* an effect copies what the query brings into the fields, but only while  *)
(* nobody is editing, and only once per version (updated_at).  A photo     *)
(* upload, another device and the page's own save all bring new versions.  *)
(*                                                                         *)
(* Abstraction: name stands for the fields that are saved one by one,      *)
(* provinsi and kota for the cascades, where choosing the outer field      *)
(* empties the inner ones.  "" is an empty field.                          *)
(***************************************************************************)
EXTENDS Naturals, FiniteSets

CONSTANTS
    Contents,        \* what a field can hold
    ProfileChanges,  \* bound: changes of the profile on the server
    TypedBound       \* bound: changes of the fields

ASSUME ProfileConstants ==
    Contents # {} /\ "" \notin Contents /\ {ProfileChanges, TypedBound} \subseteq Nat

VARIABLES
    profile, profileSeen,     \* the server's values and version; those of the query's data
    profileDue,               \* the query is to be read again
    editMode, fields,         \* the page's form
    typed,                    \* history: fields changed by hand in this edit
    typedCount,
    syncedVersion,            \* the version the effect copied last; 0 is none
    profileSaving,            \* the payload of the save under way; its domain is what it names
    photoUploading,
    passwordOpen, passwordSaving   \* the dialog; its request

profileVars == <<profile, profileSeen, profileDue, editMode, fields, typed, typedCount,
                 syncedVersion, profileSaving, photoUploading, passwordOpen, passwordSaving>>

FieldNames == {"name", "provinsi", "kota"}
Filled     == [FieldNames -> Contents \cup {""}]
Versions   == 1..(ProfileChanges + 1)
Profiles   == [values : Filled, version : Versions]
NoFields   == [x \in {} |-> ""]
NotSaving  == [saving |-> FALSE, fields |-> NoFields]
Savings    == [saving : {TRUE}, fields : UNION {[F -> Contents] : F \in SUBSET FieldNames}]

ProfileTypeOK ==
    /\ {profile, profileSeen} \subseteq Profiles /\ fields \in Filled
    /\ {profileDue, editMode, photoUploading, passwordOpen, passwordSaving} \subseteq BOOLEAN
    /\ DOMAIN typed \subseteq FieldNames /\ \A f \in DOMAIN typed : typed[f] \in Contents \cup {""}
    /\ typedCount \in 0..TypedBound /\ syncedVersion \in Versions \cup {0}
    /\ profileSaving \in Savings \cup {NotSaving}

SomeContent == CHOOSE c \in Contents : TRUE

ProfileInit ==    \* the page has just received the profile
    /\ profile = [values |-> [f \in FieldNames |-> IF f = "name" THEN SomeContent ELSE ""], version |-> 1]
    /\ profileSeen = profile /\ profileDue = FALSE
    /\ editMode = FALSE /\ fields = profile.values /\ syncedVersion = 1
    /\ typed = NoFields /\ typedCount = 0 /\ profileSaving = NotSaving
    /\ photoUploading = FALSE /\ passwordOpen = FALSE /\ passwordSaving = FALSE

SyncFields_WhileEditing(seen, editing, current) ==
    IF syncedVersion = seen.version
    THEN fields' = current /\ UNCHANGED syncedVersion
    ELSE fields' = seen.values /\ syncedVersion' = seen.version

\* The effect runs after every change of the data and of editMode.
SyncFields(seen, editing, current) ==
    IF editing \/ syncedVersion = seen.version
    THEN fields' = current /\ UNCHANGED syncedVersion
    ELSE fields' = seen.values /\ syncedVersion' = seen.version

ProfileArrives ==
    /\ profileDue /\ profileDue' = FALSE /\ profileSeen' = profile
    /\ SyncFields(profile, editMode, fields)
    /\ UNCHANGED <<profile, editMode, typed, typedCount, profileSaving, photoUploading,
                   passwordOpen, passwordSaving>>

StartEdit ==
    /\ ~editMode /\ editMode' = TRUE /\ typed' = NoFields
    /\ UNCHANGED <<profile, profileSeen, profileDue, fields, typedCount, syncedVersion, profileSaving,
                   photoUploading, passwordOpen, passwordSaving>>

\* The fields stay open while a save is under way.
SetField(f, v) ==
    /\ editMode /\ typedCount < TypedBound /\ typedCount' = typedCount + 1
    /\ f = "kota" => fields["provinsi"] # ""
    /\ LET cleared == IF f = "provinsi" THEN {"kota"} ELSE {}
           changed == [g \in cleared \cup {f} |-> IF g = f THEN v ELSE ""] IN
       /\ fields' = [g \in FieldNames |-> IF g \in DOMAIN changed THEN changed[g] ELSE fields[g]]
       /\ typed'  = [g \in DOMAIN typed \cup DOMAIN changed |->
                        IF g \in DOMAIN changed THEN changed[g] ELSE typed[g]]
    /\ UNCHANGED <<profile, profileSeen, profileDue, editMode, syncedVersion, profileSaving,
                   photoUploading, passwordOpen, passwordSaving>>

CancelEdit ==
    /\ editMode /\ profileSaving = NotSaving
    /\ editMode' = FALSE /\ typed' = NoFields
    /\ SyncFields(profileSeen, FALSE, profileSeen.values)
    /\ UNCHANGED <<profile, profileSeen, profileDue, typedCount, profileSaving, photoUploading,
                   passwordOpen, passwordSaving>>

\* A blank field is left out of the payload.
SaveProfile ==
    /\ editMode /\ profileSaving = NotSaving
    /\ profileSaving' = [saving |-> TRUE,
                         fields |-> [f \in {g \in FieldNames : fields[g] # ""} |-> fields[f]]]
    /\ UNCHANGED <<profile, profileSeen, profileDue, editMode, fields, typed, typedCount, syncedVersion,
                   photoUploading, passwordOpen, passwordSaving>>

\* The server: an address is whole or absent, an absent column keeps its value.
WholeAddress(p)  == ("provinsi" \in DOMAIN p) <=> ("kota" \in DOMAIN p)
Overlaid(old, p) == [f \in FieldNames |-> IF f \in DOMAIN p THEN p[f] ELSE old[f]]
NewVersion(values) ==
    /\ profile.version <= ProfileChanges
    /\ profile' = [values |-> values, version |-> profile.version + 1]

ProfileSaved ==
    /\ profileSaving # NotSaving /\ WholeAddress(profileSaving.fields)
    /\ NewVersion(Overlaid(profile.values, profileSaving.fields))
    /\ profileSaving' = NotSaving /\ profileDue' = TRUE
    /\ editMode' = FALSE /\ typed' = NoFields
    /\ SyncFields(profileSeen, FALSE, fields)
    /\ UNCHANGED <<profileSeen, typedCount, photoUploading, passwordOpen, passwordSaving>>

ProfileRefused ==
    /\ profileSaving # NotSaving /\ profileSaving' = NotSaving
    /\ UNCHANGED <<profile, profileSeen, profileDue, editMode, fields, typed, typedCount, syncedVersion,
                   photoUploading, passwordOpen, passwordSaving>>

ChoosePhoto ==
    /\ editMode /\ ~photoUploading /\ photoUploading' = TRUE
    /\ UNCHANGED <<profile, profileSeen, profileDue, editMode, fields, typed, typedCount, syncedVersion,
                   profileSaving, passwordOpen, passwordSaving>>
PhotoUploaded ==
    /\ photoUploading /\ photoUploading' = FALSE
    /\ \/ NewVersion(profile.values) /\ profileDue' = TRUE
       \/ UNCHANGED <<profile, profileDue>>                \* the upload failed
    /\ UNCHANGED <<profileSeen, editMode, fields, typed, typedCount, syncedVersion, profileSaving,
                   passwordOpen, passwordSaving>>

\* Another device saves. Nothing tells this page; a stale query is read again when the network comes
\* back (not on window focus: providers.tsx turns that off).
OtherDevice(F, v) ==
    /\ NewVersion([f \in FieldNames |-> IF f \in F THEN v ELSE profile.values[f]])
    /\ profileDue' = TRUE
    /\ UNCHANGED <<profileSeen, editMode, fields, typed, typedCount, syncedVersion, profileSaving,
                   photoUploading, passwordOpen, passwordSaving>>

OpenPassword ==
    /\ editMode /\ ~passwordOpen /\ passwordOpen' = TRUE
    /\ UNCHANGED <<profile, profileSeen, profileDue, editMode, fields, typed, typedCount, syncedVersion,
                   profileSaving, photoUploading, passwordSaving>>
ClosePassword ==
    /\ passwordOpen /\ passwordOpen' = FALSE
    /\ UNCHANGED <<profile, profileSeen, profileDue, editMode, fields, typed, typedCount, syncedVersion,
                   profileSaving, photoUploading, passwordSaving>>
SubmitPassword ==
    /\ passwordOpen /\ ~passwordSaving /\ passwordSaving' = TRUE
    /\ UNCHANGED <<profile, profileSeen, profileDue, editMode, fields, typed, typedCount, syncedVersion,
                   profileSaving, photoUploading, passwordOpen>>
PasswordAnswered ==    \* a success closes the dialog, be it another opening of it
    /\ passwordSaving /\ passwordSaving' = FALSE /\ passwordOpen' \in {passwordOpen, FALSE}
    /\ UNCHANGED <<profile, profileSeen, profileDue, editMode, fields, typed, typedCount, syncedVersion,
                   profileSaving, photoUploading>>

ProfileNext ==
    \/ ProfileArrives \/ StartEdit \/ CancelEdit \/ SaveProfile \/ ProfileSaved \/ ProfileRefused
    \/ ChoosePhoto \/ PhotoUploaded
    \/ \E f \in FieldNames, v \in Contents \cup {""} : SetField(f, v)
    \/ \E F \in {{"name"}, {"provinsi", "kota"}}, v \in Contents : OtherDevice(F, v)
    \/ OpenPassword \/ ClosePassword \/ SubmitPassword \/ PasswordAnswered

ProfileSpec == ProfileInit /\ [][ProfileNext]_profileVars

\* Nothing that arrives while the student types changes what was typed, and once nothing is
\* edited and nothing is to be read, the form shows the profile the page has.
FormFollowsProfile ==
    /\ editMode => \A f \in DOMAIN typed : fields[f] = typed[f]
    /\ ~editMode /\ ~profileDue => fields = profileSeen.values
===============================================================================
