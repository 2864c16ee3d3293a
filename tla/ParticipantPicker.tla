------------------------- MODULE ParticipantPicker --------------------------
(***************************************************************************)
(* Picking an exam's participants: a filtered list loaded page by page,    *)
(* and "select all", which walks the remaining pages from an effect each   *)
(* time one arrives.  The filter may change, and change back, and students *)
(* may be taken back, while it walks.                                      *)
(*                                                                         *)
(* Students are numbered in list order; a candidate filter stands for      *)
(* search text, level, grade and school together (filterKey).              *)
(***************************************************************************)
EXTENDS Naturals, FiniteSets

CONSTANTS
    Candidates,     \* the candidate filters
    MatchedBy,      \* the students each of them lists
    PickerRows      \* the list's limit

AllCandidates == UNION {MatchedBy[f] : f \in Candidates}

NoFilter == "none"

ASSUME PickerConstants ==
    /\ NoFilter \notin Candidates /\ MatchedBy \in [Candidates -> SUBSET (Nat \ {0})]
    /\ IsFiniteSet(AllCandidates) /\ PickerRows \in Nat \ {0}

VARIABLES
    filterKey,
    pickPage,       \* page: the filter it belongs to, and its cursor
    accumulated,    \* the filter it belongs to, and the students listed
    pickCache,      \* query cache: the <<filter, cursor>> that have data
    effectsDue,     \* a render has committed whose effects have not run
    selectingAllKey,
    selected,
    takenBack       \* history: students taken back, and not selected again since

pickerVars == <<filterKey, pickPage, accumulated, pickCache, effectsDue,
                selectingAllKey, selected, takenBack>>

PickerTypeOK ==
    /\ filterKey \in Candidates
    /\ pickPage \in [key : Candidates, cursor : AllCandidates \cup {0}]
    /\ accumulated \in [key : Candidates, data : SUBSET AllCandidates]
    /\ pickCache \subseteq Candidates \X (AllCandidates \cup {0})
    /\ effectsDue \in BOOLEAN /\ selectingAllKey \in Candidates \cup {NoFilter}
    /\ selected \subseteq AllCandidates /\ takenBack \subseteq AllCandidates

-----------------------------------------------------------------------------
\* The students a page holds, and the cursor of the next one (0: no more).
PickRows(f, c) ==
    LET after == {s \in MatchedBy[f] : s > c}
    IN  {s \in after : Cardinality({q \in after : q < s}) < PickerRows}

PickNext(f, c) ==
    LET rows == PickRows(f, c)
    IN  IF \A s \in MatchedBy[f] : s <= c \/ s \in rows THEN 0
        ELSE CHOOSE s \in rows : \A q \in rows : q <= s

\* cursor, activeQuery.data, nextCursor and students of a render.
PickCursor == IF pickPage.key = filterKey THEN pickPage.cursor ELSE 0
PickLoaded == <<filterKey, PickCursor>> \in pickCache
NextCursor == IF PickLoaded THEN PickNext(filterKey, PickCursor) ELSE 0
Students   == IF accumulated.key = filterKey THEN accumulated.data ELSE {}

\* The user acts between two commits, when their effects have run.
Settled == ~(effectsDue /\ PickLoaded)

PickArrives ==
    /\ ~PickLoaded
    /\ pickCache' = pickCache \cup {<<filterKey, PickCursor>>}
    /\ effectsDue' = TRUE
    /\ UNCHANGED <<filterKey, pickPage, accumulated, selectingAllKey, selected, takenBack>>

\* RunEffects, when the walk keeps only the students of the page that came.
RunEffects_PageOnly ==
    LET rows == PickRows(filterKey, PickCursor)
        on   == PickNext(filterKey, PickCursor)
    IN  /\ effectsDue /\ PickLoaded
        /\ accumulated' =
             [key |-> filterKey,
              data |-> rows \cup (IF PickCursor # 0 THEN Students ELSE {})]
        /\ IF selectingAllKey = filterKey
           THEN /\ selected' = rows /\ takenBack' = takenBack \ rows
                /\ pickPage' = IF on # 0 THEN [key |-> filterKey, cursor |-> on] ELSE pickPage
                /\ selectingAllKey' = IF on # 0 THEN filterKey ELSE NoFilter
                /\ effectsDue' = (on # 0)
           ELSE effectsDue' = FALSE /\ UNCHANGED <<selected, pickPage, selectingAllKey, takenBack>>
        /\ UNCHANGED <<filterKey, pickCache>>

\* The effects of a render with data: the list takes the page, and "select all",
\* when it is this filter's, takes its students and goes on or ends.
RunEffects ==
    LET rows == PickRows(filterKey, PickCursor)
        on   == PickNext(filterKey, PickCursor)
    IN  /\ effectsDue /\ PickLoaded
        /\ accumulated' =
             [key |-> filterKey,
              data |-> rows \cup (IF PickCursor # 0 THEN Students ELSE {})]
        /\ IF selectingAllKey = filterKey
           THEN /\ selected' = selected \cup rows /\ takenBack' = takenBack \ rows
                /\ pickPage' = IF on # 0 THEN [key |-> filterKey, cursor |-> on] ELSE pickPage
                /\ selectingAllKey' = IF on # 0 THEN filterKey ELSE NoFilter
                /\ effectsDue' = (on # 0)
           ELSE effectsDue' = FALSE /\ UNCHANGED <<selected, pickPage, selectingAllKey, takenBack>>
        /\ UNCHANGED <<filterKey, pickCache>>

ChangePickFilter(f) ==
    /\ Settled /\ f # filterKey
    /\ filterKey' = f /\ effectsDue' = TRUE
    /\ UNCHANGED <<pickPage, accumulated, pickCache, selectingAllKey, selected, takenBack>>

LoadMoreCandidates ==
    /\ Settled /\ NextCursor # 0
    /\ pickPage' = [key |-> filterKey, cursor |-> NextCursor] /\ effectsDue' = TRUE
    /\ UNCHANGED <<filterKey, accumulated, pickCache, selectingAllKey, selected, takenBack>>

Toggle(s) ==
    /\ Settled /\ s \in Students
    /\ IF s \in selected
       THEN selected' = selected \ {s} /\ takenBack' = takenBack \cup {s}
       ELSE selected' = selected \cup {s} /\ takenBack' = takenBack \ {s}
    /\ UNCHANGED <<filterKey, pickPage, accumulated, pickCache, effectsDue, selectingAllKey>>

\* The rows shown are taken at once; the walk starts when there are more pages.
SelectAll ==
    /\ Settled /\ selectingAllKey # filterKey
    /\ selected' = selected \cup Students /\ takenBack' = takenBack \ Students
    /\ IF NextCursor # 0
       THEN selectingAllKey' = filterKey /\ effectsDue' = TRUE
       ELSE UNCHANGED <<selectingAllKey, effectsDue>>
    /\ UNCHANGED <<filterKey, pickPage, accumulated, pickCache>>

\* It does not stop a walk under way.
DeselectAll ==
    /\ Settled /\ selected # {}
    /\ takenBack' = takenBack \cup selected /\ selected' = {}
    /\ UNCHANGED <<filterKey, pickPage, accumulated, pickCache, effectsDue, selectingAllKey>>

-----------------------------------------------------------------------------
PickerInit ==
    /\ filterKey \in Candidates
    /\ pickPage = [key |-> filterKey, cursor |-> 0]
    /\ accumulated = [key |-> filterKey, data |-> {}]
    /\ pickCache = {} /\ effectsDue = TRUE /\ selectingAllKey = NoFilter
    /\ selected = {} /\ takenBack = {}

PickerNext ==
    \/ PickArrives \/ RunEffects \/ LoadMoreCandidates \/ SelectAll \/ DeselectAll
    \/ \E f \in Candidates : ChangePickFilter(f)
    \/ \E s \in AllCandidates : Toggle(s)

PickerSpec == PickerInit /\ [][PickerNext]_pickerVars

-----------------------------------------------------------------------------
\* When "select all" ends, every student the list then shows is selected, but
\* for those the admin has taken back since they were last selected, however often the filter was
\* changed and changed back meanwhile.
ListedAreSelected ==
    [][selectingAllKey # NoFilter /\ selectingAllKey' = NoFilter =>
          accumulated'.data \subseteq selected' \cup takenBack]_pickerVars

=============================================================================
