----------------------------- MODULE ExamPageMC -----------------------------
(* Small instances of ExamPage: question q belongs to section q. *)
EXTENDS ExamPage
MCSectionOf == [q \in Questions |-> q]
=============================================================================
