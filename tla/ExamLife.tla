------------------------------ MODULE ExamLife --------------------------------
(***************************************************************************)
(* An exam before and after it is handed in: ExamSession up to the submit, *)
(* EssayGrading from a submitted session's first grade to its certificate. *)
(* They share the submit, and each has it: ExamSession's Finalize and      *)
(* EssayGrading's SubmitSitting are finalizeLockedSessionTx.  Grading      *)
(* reads no clock and no request, the sitting reads no grade given by hand *)
(* and no certificate, so one of the two moves in each behaviour.          *)
(***************************************************************************)
EXTENDS ExamSession, EssayGrading

VARIABLE part

lifeVars == <<part, vars, gradingVars>>

SomeDesign == CHOOSE d \in Designs : TRUE

\* Certificates are on at first, with any design or none; they can be switched.
LifeInit ==
    /\ part \in {"sitting", "grading"}
    /\ Init
    /\ GradingInit
    /\ certEnabled
    /\ part = "sitting" => certDesign = SomeDesign

LifeNext ==
    \/ part = "sitting" /\ Next /\ UNCHANGED <<part, gradingVars>>
    \/ part = "grading" /\ GradingNext /\ UNCHANGED <<part, vars>>

LifeSpec == LifeInit /\ [][LifeNext]_lifeVars
===============================================================================
