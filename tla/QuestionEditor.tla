---------------------------- MODULE QuestionEditor ----------------------------
(***************************************************************************)
(* The editor of a question, as the question bank opens it.  A question    *)
(* with blanks has tokens {{n}} in its body and one row of accepted        *)
(* answers per blank; row and token meet only by their number, and both    *)
(* are renumbered when a row goes.  An author can also type and delete     *)
(* tokens by hand, undo, switch the format and close the editor while a    *)
(* save is on its way.                                                     *)
(*                                                                         *)
(* Abstraction: of the body only the tokens are kept, each with the row it *)
(* was put in for (history; 0 when there was none), in the order they were *)
(* put in.  One question stands for the bank; its texts are left out.      *)
(***************************************************************************)
EXTENDS Naturals, Sequences, FiniteSets

CONSTANTS
    Options,        \* options of a choice question
    MaxRows,        \* bound: rows of blanks, tokens, statements
    QuestionEdits   \* bound: changes made in the editor

ASSUME QuestionConstants == Options # {} /\ MaxRows \in Nat \ {0, 1} /\ QuestionEdits \in Nat

VARIABLES
    question,                    \* the server's question
    questionSeen, questionsDue,  \* as the list shows it; the list is to be read again
    editorOpen, draft, draftEdits,    \* the editor's fields; how often they were changed
    beforeEdit, undone,          \* the body before its last change; history: an undo happened
    bodyUpload,                  \* a picture for the body is uploading
    questionSaving,              \* what this editor saves
    leftSaving                   \* what an editor that was closed since saves

questionVars == <<question, questionSeen, questionsDue, editorOpen, draft, draftEdits,
                  beforeEdit, undone, bodyUpload, questionSaving, leftSaving>>

Formats     == {"mcq", "multi_answer", "multi_blank", "true_false", "essay"}
RowIds      == 1..(3 * MaxRows)
BlankTokens      == [n : 1..MaxRows, of : RowIds \cup {0}]
Bodies      == UNION {[1..k -> BlankTokens] : k \in 0..MaxRows}
Questions   == [format : Formats, body : Bodies, correct : SUBSET Options,
                blanks     : UNION {[1..k -> RowIds] : k \in 0..MaxRows},
                statements : UNION {[1..k -> BOOLEAN] : k \in 0..MaxRows}]   \* is its text filled in
NoQuestion  == [format |-> "none"]

InRange(s)   == {s[k] : k \in DOMAIN s}
Dropped(s, k) == SubSeq(s, 1, k - 1) \o SubSeq(s, k + 1, Len(s))
Used(d, old) == InRange(d.blanks) \cup {d.body[k].of : k \in DOMAIN d.body} \cup {old[k].of : k \in DOMAIN old}
NewRow(used) == CHOOSE r \in RowIds \ used : \A q \in RowIds \ used : r <= q
RowOf(d, n)  == IF n \in DOMAIN d.blanks THEN d.blanks[n] ELSE 0

\* Each row's answers belong to a blank of the body that was put in for that row.
Paired(d) == \A k \in DOMAIN d.body :
                d.body[k].of # 0 => RowOf(d, d.body[k].n) = d.body[k].of

QuestionTypeOK ==
    /\ question \in Questions /\ questionSeen \in Questions /\ draft \in Questions
    /\ {questionsDue, editorOpen, undone, bodyUpload} \subseteq BOOLEAN
    /\ draftEdits \in 0..QuestionEdits /\ beforeEdit \in Bodies
    /\ {questionSaving, leftSaving} \subseteq Questions \cup {NoQuestion}

FirstQuestion ==
    [format |-> "multi_blank", body |-> <<[n |-> 1, of |-> 1], [n |-> 2, of |-> 2]>>,
     correct |-> {CHOOSE o \in Options : TRUE}, blanks |-> <<1, 2>>, statements |-> <<FALSE, FALSE>>]

QuestionInit ==
    /\ question = FirstQuestion
    /\ questionSeen = FirstQuestion /\ questionsDue = FALSE
    /\ editorOpen = FALSE /\ draft = FirstQuestion /\ draftEdits = 0
    /\ beforeEdit = <<>> /\ undone = FALSE
    /\ bodyUpload = FALSE /\ questionSaving = NoQuestion /\ leftSaving = NoQuestion

\* A question without rows gets the two empty rows of a new one.
WithRows(q) ==
    IF q.blanks # <<>> THEN q
    ELSE LET r == NewRow(Used(q, <<>>)) IN
         [q EXCEPT !.blanks = <<r, NewRow(Used(q, <<>>) \cup {r})>>]

OpenQuestion ==
    /\ ~editorOpen /\ editorOpen' = TRUE
    /\ draft' = WithRows(questionSeen)
    /\ beforeEdit' = draft'.body /\ bodyUpload' = FALSE
    /\ UNCHANGED <<question, questionSeen, questionsDue, draftEdits, undone,
                   questionSaving, leftSaving>>

\* Cancel is disabled during a save; the dialog's own close is not, and the save
\* goes on without its editor.  Bound: one such save.
CloseEditor == editorOpen' = FALSE /\ bodyUpload' = FALSE /\ draft' = FirstQuestion /\ beforeEdit' = <<>>
CloseQuestion ==
    /\ editorOpen /\ CloseEditor
    /\ NoQuestion \in {questionSaving, leftSaving}
    /\ leftSaving' = IF leftSaving = NoQuestion THEN questionSaving ELSE leftSaving
    /\ questionSaving' = NoQuestion
    /\ UNCHANGED <<question, questionSeen, questionsDue, draftEdits, undone>>

\* The fields are disabled while this editor's save is under way; another's
\* does not disable them.
MayEdit == editorOpen /\ draftEdits < QuestionEdits /\ questionSaving = NoQuestion
EditTo(d) ==
    /\ MayEdit /\ draftEdits' = draftEdits + 1 /\ draft' = d
    /\ beforeEdit' = IF d.body = draft.body THEN beforeEdit ELSE draft.body
    /\ UNCHANGED <<question, questionSeen, questionsDue, editorOpen, undone,
                   bodyUpload, questionSaving, leftSaving>>

\* Locked while an exam with this question runs; the lock only takes this away.
ChooseFormat(f) == EditTo([draft EXCEPT !.format = f])

SetCorrect(o) ==
    \/ draft.format = "mcq" /\ EditTo([draft EXCEPT !.correct = {o}])
    \/ draft.format = "multi_answer" /\ EditTo([draft EXCEPT !.correct = (@ \cup {o}) \ (@ \cap {o})])

AddStatement ==
    /\ draft.format = "true_false" /\ Len(draft.statements) < MaxRows
    /\ EditTo([draft EXCEPT !.statements = Append(@, FALSE)])
EditStatement(k) ==
    /\ draft.format = "true_false" /\ k \in DOMAIN draft.statements
    /\ \/ EditTo([draft EXCEPT !.statements[k] = ~@])
       \/ Len(draft.statements) > 1 /\ EditTo([draft EXCEPT !.statements = Dropped(@, k)])

\* The new row is the last one; its token goes where the caret is.
AddBlank ==
    /\ draft.format = "multi_blank" /\ Len(draft.blanks) < MaxRows /\ Len(draft.body) < MaxRows
    /\ LET r == NewRow(Used(draft, beforeEdit)) IN
       EditTo([draft EXCEPT !.blanks = Append(@, r),
                            !.body   = Append(@, [n |-> Len(draft.blanks) + 1, of |-> r])])

Renumbered_KeepsRemoved(body, removed) ==
    [k \in DOMAIN body |-> IF body[k].n >= removed THEN [body[k] EXCEPT !.n = @ - 1] ELSE body[k]]

\* The tokens with other numbers, in their order.
BodyWithout(body, removed) ==
    LET others == {k \in DOMAIN body : body[k].n # removed} IN
    [j \in 1..Cardinality(others) |->
        body[CHOOSE k \in others : Cardinality({i \in others : i <= k}) = j]]

\* renumberTokensInBody
Renumbered(body, removed) ==
    LET kept == BodyWithout(body, removed) IN
    [k \in DOMAIN kept |-> IF kept[k].n > removed THEN [kept[k] EXCEPT !.n = @ - 1] ELSE kept[k]]

RemoveBlank_RowsOnly(k) ==
    /\ draft.format = "multi_blank" /\ k \in DOMAIN draft.blanks /\ Len(draft.blanks) > 1
    /\ EditTo([draft EXCEPT !.blanks = Dropped(@, k),
                            !.body   = BodyWithout(@, k)])

RemoveBlank(k) ==
    /\ draft.format = "multi_blank" /\ k \in DOMAIN draft.blanks /\ Len(draft.blanks) > 1
    /\ EditTo([draft EXCEPT !.blanks = Dropped(@, k), !.body = Renumbered(@, k)])

\* By hand, in any format: a token means the row that bears its number now.
TypeToken(n) ==
    /\ Len(draft.body) < MaxRows
    /\ EditTo([draft EXCEPT !.body = Append(@, [n |-> n, of |-> RowOf(draft, n)])])
DeleteToken(k) == k \in DOMAIN draft.body /\ EditTo([draft EXCEPT !.body = Dropped(@, k)])

\* The editor's undo knows the body and not the rows.
UndoBody ==
    /\ MayEdit /\ beforeEdit # draft.body
    /\ draft' = [draft EXCEPT !.body = beforeEdit] /\ beforeEdit' = draft.body
    /\ draftEdits' = draftEdits + 1 /\ undone' = TRUE
    /\ UNCHANGED <<question, questionSeen, questionsDue, editorOpen, bodyUpload,
                   questionSaving, leftSaving>>

\* The picture replaces what was selected when its button was pressed, at its place by then.
ChoosePicture ==
    /\ editorOpen /\ questionSaving = NoQuestion /\ bodyUpload' = TRUE
    /\ UNCHANGED <<question, questionSeen, questionsDue, editorOpen, draft, draftEdits,
                   beforeEdit, undone, questionSaving, leftSaving>>
PictureArrives ==
    /\ bodyUpload /\ bodyUpload' = FALSE
    /\ \/ UNCHANGED <<draft, beforeEdit, draftEdits>>
       \/ /\ draftEdits < QuestionEdits /\ draftEdits' = draftEdits + 1 /\ beforeEdit' = draft.body
          /\ \E k \in DOMAIN draft.body : draft' = [draft EXCEPT !.body = Dropped(@, k)]
    /\ UNCHANGED <<question, questionSeen, questionsDue, editorOpen, undone,
                   questionSaving, leftSaving>>

ValidTokens(body, blanks) ==
    /\ body # <<>> /\ Len(body) = Len(blanks)
    /\ {body[k].n : k \in DOMAIN body} = 1..Len(body)

ValidQuestion(d) ==
    /\ d.format = "mcq"          => Cardinality(d.correct) = 1
    /\ d.format = "multi_answer" => d.correct # {}
    /\ d.format = "multi_blank"  => ValidTokens(d.body, d.blanks)
    /\ d.format = "true_false"   => Len(d.statements) >= 2 /\ FALSE \notin InRange(d.statements)

PressSave ==
    /\ editorOpen /\ questionSaving = NoQuestion /\ ValidQuestion(draft)
    /\ questionSaving' = draft
    /\ UNCHANGED <<question, questionSeen, questionsDue, editorOpen, draft, draftEdits,
                   beforeEdit, undone, bodyUpload, leftSaving>>

\* buildInput sends the parts of the format; the server keeps those.
InputOf(d) ==
    [d EXCEPT !.blanks     = IF d.format = "multi_blank" THEN @ ELSE <<>>,
              !.body       = IF d.format = "multi_blank" THEN @ ELSE [k \in DOMAIN @ |-> [@[k] EXCEPT !.of = 0]],
              !.correct    = IF d.format \in {"mcq", "multi_answer"} THEN @ ELSE FirstQuestion.correct,
              !.statements = IF d.format = "true_false" THEN @ ELSE <<FALSE, FALSE>>]

\* onSaved closes the editor.
QuestionSaved ==
    /\ questionSaving # NoQuestion
    /\ question' = InputOf(questionSaving) /\ questionSaving' = NoQuestion
    /\ questionsDue' = TRUE /\ CloseEditor
    /\ UNCHANGED <<questionSeen, draftEdits, undone, leftSaving>>

\* The onSaved of an editor that is gone closes the one that is open by then,
\* whose own save goes on without it.
LeftSaved ==
    /\ leftSaving # NoQuestion
    /\ question' = InputOf(leftSaving)
    /\ leftSaving' = questionSaving /\ questionSaving' = NoQuestion
    /\ questionsDue' = TRUE /\ CloseEditor
    /\ UNCHANGED <<questionSeen, draftEdits, undone>>

LeftRefused ==
    /\ leftSaving # NoQuestion /\ leftSaving' = NoQuestion
    /\ UNCHANGED <<question, questionSeen, questionsDue, editorOpen, draft, draftEdits,
                   beforeEdit, undone, bodyUpload, questionSaving>>

SaveRefused ==    \* question_format_locked, a network error
    /\ questionSaving # NoQuestion /\ questionSaving' = NoQuestion
    /\ UNCHANGED <<question, questionSeen, questionsDue, editorOpen, draft, draftEdits,
                   beforeEdit, undone, bodyUpload, leftSaving>>

QuestionsArrive ==
    /\ questionsDue /\ questionsDue' = FALSE
    /\ questionSeen' = question
    /\ UNCHANGED <<question, editorOpen, draft, draftEdits, beforeEdit, undone, bodyUpload,
                   questionSaving, leftSaving>>

QuestionNext ==
    \/ OpenQuestion \/ CloseQuestion \/ UndoBody \/ ChoosePicture \/ PictureArrives
    \/ \E f \in Formats : ChooseFormat(f)
    \/ \E o \in Options : SetCorrect(o)
    \/ AddStatement \/ AddBlank
    \/ \E k \in 1..MaxRows : EditStatement(k) \/ RemoveBlank(k) \/ TypeToken(k) \/ DeleteToken(k)
    \/ PressSave \/ QuestionSaved \/ SaveRefused \/ LeftSaved \/ LeftRefused \/ QuestionsArrive

QuestionSpec == QuestionInit /\ [][QuestionNext]_questionVars

-----------------------------------------------------------------------------
\* A blank is always scored with the answers it was written for: until the first undo of a
\* body, every token and the row with its number belong together, whatever was added, removed,
\* typed or switched since, in the editor and in the question the server keeps.
AnswersFollowTheirBlank == ~undone => Paired(draft) /\ Paired(question)
===============================================================================
