---------------------------- MODULE ExamSessionMC ----------------------------
(* Instances of ExamSession for TLC. *)
EXTENDS ExamSession, TLC

\* The questions of the instances: one per section, the first of them graded by
\* the machine.
MCKey == [qn \in Questions |-> "a"]
OneEach == "q1" :> 1 @@ "q2" :> 2
OnlyFirst == "q1" :> 1

Symmetry == Permutations(Workers)
=============================================================================
