----------------------------- MODULE SystemPages -----------------------------
(***************************************************************************)
(* The super admin's configuration page: its form is filled once, from     *)
(* what the query cache holds by then, and each tab saves its own fields.  *)
(* The server answers a secret that is set with a mask and leaves it alone *)
(* when it is sent the mask.  And the accounts page: creating an account,  *)
(* and the dialog that changes a role, opened on a row of the list.        *)
(*                                                                         *)
(* Another administrator changes the configuration too.                    *)
(***************************************************************************)
EXTENDS Naturals, Functions

CONSTANTS
    ConfigChanges,    \* bound: changes of the configuration the server takes
    AccountChanges    \* bound: changes of the account

ASSUME SystemConstants == {ConfigChanges, AccountChanges} \subseteq Nat

VARIABLES
    config, configChanges,     \* server: the values, and how often they changed
    configCache, configDue,    \* the query's data; it is to be read again
    configLoaded, configForm,  \* the ref that guards the effect, and the fields
    configSave,                \* the save under way
    secretTyped, secretShown,  \* history: typed in since the form was filled; filled with a mask
    account, accountChanges,   \* server: one account; no school is ""
    accountRow, accountsDue,   \* its row in the list
    roleDialog, roleChange,    \* the dialog, and its request
    createForm, creating       \* the other dialog

configVars  == <<config, configChanges, configCache, configDue, configLoaded, configForm,
                 configSave, secretTyped, secretShown>>
accountVars == <<account, accountChanges, accountRow, accountsDue, roleDialog, roleChange,
                 createForm, creating>>
systemVars  == <<configVars, accountVars>>

Mask       == "***"
Provinces  == {"jabar", "jatim"}
ConfigSets == [province : Provinces, city : Provinces \cup {""},    \* a city: its province
               notify : BOOLEAN, secret : {"", "k1", "k2"}]
FormSets   == [province : Provinces, city : Provinces \cup {""}, notify : BOOLEAN,
               secret : {"", Mask, "k1", "k2"}]
NoConfig   == [f \in {} |-> ""]

AdminRoles  == {"admin_store", "admin_school"}
Accounts    == [role : AdminRoles, school : {"", "s1", "s2"}]
NoAccount   == [role |-> "none", school |-> ""]
ClosedForm  == [open |-> FALSE, complete |-> FALSE, role |-> "admin_store", school |-> ""]
ClosedRole  == [open |-> FALSE, role |-> "admin_store", school |-> ""]

SystemTypeOK ==
    /\ config \in ConfigSets /\ configChanges \in 0..ConfigChanges
    /\ configCache \in FormSets \cup {NoConfig} /\ configForm \in FormSets \cup {NoConfig}
    /\ {configDue, configLoaded, secretTyped, secretShown, accountsDue} \subseteq BOOLEAN
    /\ configSave = NoConfig \/ DOMAIN configSave \subseteq {"province", "city", "notify", "secret"}
    /\ account \in Accounts /\ accountChanges \in 0..AccountChanges
    /\ accountRow \in Accounts
    /\ roleDialog \in [open : BOOLEAN, role : AdminRoles, school : {"", "s1", "s2"}]
    /\ roleChange \in Accounts \cup {NoAccount} /\ creating \in BOOLEAN
    /\ createForm \in [open : BOOLEAN, complete : BOOLEAN, role : AdminRoles, school : {"", "s1"}]

-----------------------------------------------------------------------------
(* The configuration *)

\* The effect that fills the form without what a mask stands for.
FillForm_BlankSecrets(data) == [data EXCEPT !.secret = IF @ = Mask THEN "" ELSE @]

\* The effect that fills the form from the query's data.
FillForm(data) == data

Fill(data) ==
    /\ configLoaded' = TRUE /\ configForm' = FillForm(data)
    /\ secretTyped' = FALSE /\ secretShown' = (data.secret = Mask)

\* The configuration as the server answers it.
Masked == [config EXCEPT !.secret = IF @ = "" THEN "" ELSE Mask]

\* It arrives; only the first time does it fill the form.
ConfigArrives ==
    /\ configDue /\ configDue' = FALSE /\ configCache' = Masked
    /\ IF configLoaded THEN UNCHANGED <<configLoaded, configForm, secretTyped, secretShown>>
       ELSE Fill(Masked)
    /\ UNCHANGED <<config, configChanges, configSave, accountVars>>

\* The page is left and opened again: it is filled with what is cached, even if
\* that is being read again.  Bound: not while a save is under way.
ReopenConfig ==
    /\ configLoaded /\ configSave = NoConfig
    /\ Fill(configCache) /\ configDue' \in {configDue, TRUE}
    /\ UNCHANGED <<config, configChanges, configCache, configSave, accountVars>>

TypeConfig(f, v) ==
    /\ configLoaded /\ f \in {"notify", "secret"} /\ configForm[f] # v
    /\ configForm' = [configForm EXCEPT ![f] = v]
    /\ secretTyped' = (secretTyped \/ f = "secret")
    /\ UNCHANGED <<config, configChanges, configCache, configDue, configLoaded, configSave,
                   secretShown, accountVars>>

\* Another province empties city and district, another city the district.
ChooseProvince(p) ==
    /\ configLoaded /\ configForm.province # p
    /\ configForm' = [configForm EXCEPT !.province = p, !.city = ""]
    /\ UNCHANGED <<config, configChanges, configCache, configDue, configLoaded, configSave,
                   secretTyped, secretShown, accountVars>>

ChooseCity ==
    /\ configLoaded /\ configForm.city # configForm.province
    /\ configForm' = [configForm EXCEPT !.city = configForm.province]
    /\ UNCHANGED <<config, configChanges, configCache, configDue, configLoaded, configSave,
                   secretTyped, secretShown, accountVars>>

\* handleSaveGeneral, handleSaveNotif and handleSavePayment: all fields of the
\* tab.  One mutation serves them, and disables the buttons of all three.
SaveTab(tab) ==
    /\ configLoaded /\ configSave = NoConfig
    /\ configSave' = Restrict(configForm, CASE tab = "general"       -> {"province", "city"}
                                            [] tab = "notifications" -> {"notify"}
                                            [] tab = "integrations"  -> {"secret"})
    /\ UNCHANGED <<config, configChanges, configCache, configDue, configLoaded, configForm,
                   secretTyped, secretShown, accountVars>>

\* processConfigValues: a secret that is sent as the mask is left alone.
Kept(values) ==
    [f \in DOMAIN config |->
        IF f \in DOMAIN values /\ ~(f = "secret" /\ values[f] = Mask) THEN values[f] ELSE config[f]]

\* PUT /admin/system/config; the configuration is then read again.
ConfigSaved ==
    /\ configSave # NoConfig /\ configChanges < ConfigChanges
    /\ config' = Kept(configSave) /\ configChanges' = configChanges + 1
    /\ configSave' = NoConfig /\ configDue' = TRUE
    /\ UNCHANGED <<configCache, configLoaded, configForm, secretTyped, secretShown, accountVars>>

\* Refused; or the server fails on the way.  It writes one key after another,
\* in any order and without a transaction, and the audit entry last.
ConfigRefused ==
    /\ configSave # NoConfig /\ configSave' = NoConfig
    /\ \E written \in SUBSET DOMAIN configSave :
           /\ config' = Kept(Restrict(configSave, written))
           /\ configChanges' = configChanges + (IF written = {} THEN 0 ELSE 1)
           /\ configChanges' <= ConfigChanges
    /\ UNCHANGED <<configCache, configDue, configLoaded, configForm,
                   secretTyped, secretShown, accountVars>>

OtherAdminSets(secret) ==
    /\ configChanges < ConfigChanges /\ config.secret # secret
    /\ config' = [config EXCEPT !.secret = secret] /\ configChanges' = configChanges + 1
    /\ UNCHANGED <<configCache, configDue, configLoaded, configForm, configSave, secretTyped,
                   secretShown, accountVars>>

-----------------------------------------------------------------------------
(* The accounts *)

AccountsArrive ==
    /\ accountsDue /\ accountsDue' = FALSE /\ accountRow' = account
    /\ UNCHANGED <<account, accountChanges, roleDialog, roleChange, createForm, creating, configVars>>

\* The dialog is filled from the row.
OpenRole ==
    /\ ~roleDialog.open /\ ~createForm.open
    /\ roleDialog' = [open |-> TRUE, role |-> accountRow.role, school |-> accountRow.school]
    /\ UNCHANGED <<account, accountChanges, accountRow, accountsDue, roleChange, createForm,
                   creating, configVars>>

\* A role other than the school's admin empties the school.
ChooseRole(r) ==
    /\ roleDialog.open /\ roleDialog.role # r
    /\ roleDialog' = [roleDialog EXCEPT !.role = r, !.school = IF r = "admin_school" THEN @ ELSE ""]
    /\ UNCHANGED <<account, accountChanges, accountRow, accountsDue, roleChange, createForm,
                   creating, configVars>>

ChooseSchool(s) ==
    /\ roleDialog.open /\ roleDialog.role = "admin_school" /\ roleDialog.school # s
    /\ roleDialog' = [roleDialog EXCEPT !.school = s]
    /\ UNCHANGED <<account, accountChanges, accountRow, accountsDue, roleChange, createForm,
                   creating, configVars>>

CloseRole ==
    /\ roleDialog.open /\ roleDialog' = ClosedRole
    /\ UNCHANGED <<account, accountChanges, accountRow, accountsDue, roleChange, createForm,
                   creating, configVars>>

\* handleRoleChange.
ChangeRole ==
    /\ roleDialog.open /\ roleChange = NoAccount
    /\ roleDialog.role = "admin_school" => roleDialog.school # ""
    /\ roleChange' = [role |-> roleDialog.role,
                      school |-> IF roleDialog.role = "admin_school" THEN roleDialog.school ELSE ""]
    /\ UNCHANGED <<account, accountChanges, accountRow, accountsDue, roleDialog, createForm,
                   creating, configVars>>

\* The server writes the role and then the school; success closes the dialog,
\* whichever is open, and the list is read again.
RoleChanged ==
    /\ roleChange # NoAccount /\ accountChanges < AccountChanges
    /\ account' = roleChange /\ accountChanges' = accountChanges + 1
    /\ roleChange' = NoAccount /\ roleDialog' = ClosedRole /\ accountsDue' = TRUE
    /\ UNCHANGED <<accountRow, createForm, creating, configVars>>

RoleRefused ==
    /\ roleChange # NoAccount /\ roleChange' = NoAccount
    /\ UNCHANGED <<account, accountChanges, accountRow, accountsDue, roleDialog, createForm,
                   creating, configVars>>

\* The form for a new account keeps what was typed when its dialog is closed.
ToggleCreate ==
    /\ ~roleDialog.open
    /\ createForm' = [createForm EXCEPT !.open = ~@]
    /\ UNCHANGED <<account, accountChanges, accountRow, accountsDue, roleDialog, roleChange,
                   creating, configVars>>

FillCreate ==
    /\ createForm.open
    /\ \/ createForm' = [createForm EXCEPT !.complete = TRUE]      \* name, email, password
       \/ \E r \in AdminRoles :
             createForm' = [createForm EXCEPT !.role = r, !.school = IF r = "admin_school" THEN @ ELSE ""]
       \/ createForm.role = "admin_school" /\ createForm' = [createForm EXCEPT !.school = "s1"]
    /\ createForm' # createForm
    /\ UNCHANGED <<account, accountChanges, accountRow, accountsDue, roleDialog, roleChange,
                   creating, configVars>>

\* handleCreate.
Create ==
    /\ createForm.open /\ createForm.complete /\ ~creating
    /\ createForm.role = "admin_school" => createForm.school # ""
    /\ creating' = TRUE
    /\ UNCHANGED <<account, accountChanges, accountRow, accountsDue, roleDialog, roleChange,
                   createForm, configVars>>

Created ==
    /\ creating /\ creating' = FALSE
    /\ \/ createForm' = ClosedForm /\ accountsDue' = TRUE
       \/ UNCHANGED <<createForm, accountsDue>>            \* refused
    /\ UNCHANGED <<account, accountChanges, accountRow, roleDialog, roleChange, configVars>>

-----------------------------------------------------------------------------
SystemInit ==
    /\ config \in {c \in ConfigSets : c.province = "jabar" /\ c.city = "" /\ ~c.notify /\ c.secret # "k2"}
    /\ configChanges = 0 /\ configCache = NoConfig /\ configDue = TRUE
    /\ configLoaded = FALSE /\ configForm = NoConfig /\ configSave = NoConfig
    /\ secretTyped = FALSE /\ secretShown = FALSE
    /\ account = [role |-> "admin_store", school |-> ""] /\ accountChanges = 0
    /\ accountRow = account /\ accountsDue = FALSE
    /\ roleDialog = ClosedRole /\ roleChange = NoAccount
    /\ createForm = ClosedForm /\ creating = FALSE

ConfigNext ==
    \/ ConfigArrives \/ ReopenConfig \/ ChooseCity \/ ConfigSaved \/ ConfigRefused
    \/ \E v \in BOOLEAN : TypeConfig("notify", v)
    \/ \E v \in {"", "k2"} : TypeConfig("secret", v)
    \/ \E p \in Provinces : ChooseProvince(p)
    \/ \E tab \in {"general", "notifications", "integrations"} : SaveTab(tab)
    \/ \E secret \in {"", "k2"} : OtherAdminSets(secret)

AccountNext ==
    \/ AccountsArrive \/ OpenRole \/ CloseRole \/ ChangeRole \/ RoleChanged \/ RoleRefused
    \/ \E r \in AdminRoles : ChooseRole(r)
    \/ \E s \in {"s1", "s2"} : ChooseSchool(s)
    \/ ToggleCreate \/ FillCreate \/ Create \/ Created

\* One page is looked at a time.
SystemNext ==
    \/ accountRow = account /\ accountChanges = 0 /\ roleDialog = ClosedRole /\ roleChange = NoAccount
       /\ createForm = ClosedForm /\ ~creating /\ ConfigNext
    \/ ~configLoaded /\ AccountNext

SystemSpec == SystemInit /\ [][SystemNext]_systemVars

-----------------------------------------------------------------------------
\* Saving never loses a secret: one that was set when the form was filled, and
\* that the administrator did not type over, outlives every save of any tab,
\* whatever was set elsewhere meanwhile; and the mask is never stored for it.
SecretsOutliveSaves ==
    [][configSave # NoConfig /\ configSave' = NoConfig /\ secretShown /\ ~secretTyped =>
          config'.secret = config.secret /\ config'.secret # Mask]_systemVars

=============================================================================
