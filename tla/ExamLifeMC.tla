----------------------------- MODULE ExamLifeMC -------------------------------
(* An instance of ExamLife for TLC. *)
EXTENDS ExamLife, ExamSessionMC

\* The machine's part of the total, all of it penalties.
MCMachinePoints == -1

LifeSymmetry == Symmetry \cup Permutations(Graders)
===============================================================================
