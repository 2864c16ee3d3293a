----------------------------- MODULE ExamAttempts -----------------------------
(***************************************************************************)
(* What the sitting of an exam promises, whatever the interleaving of      *)
(* requests, retries, administrators and the worker: a registration sits   *)
(* at most max_attempts times, one sitting at a time, and each sitting     *)
(* that ends asks for a certificate exactly once.                          *)
(***************************************************************************)
EXTENDS Naturals

CONSTANTS
    Regs,          \* exam registrations
    MaxAttempts,   \* the exam's attempt ceiling, 0 meaning one
    Unlimited,     \* no ceiling
    AttemptBound   \* bound: attempts of one registration

VARIABLES
    used,       \* attempts begun, per registration
    open,       \* a sitting is going on
    certified   \* certificate requests, per attempt

vars == <<used, open, certified>>

Init ==
    /\ used = [r \in Regs |-> 0]
    /\ open = [r \in Regs |-> FALSE]
    /\ certified = [s \in Regs \X (1..AttemptBound) |-> 0]

\* A sitting begins: none is going on and the ceiling is not reached.
Sit(r) ==
    /\ ~open[r]
    /\ MaxAttempts # Unlimited => used[r] < (IF MaxAttempts = 0 THEN 1 ELSE MaxAttempts)
    /\ used[r] < AttemptBound
    /\ used' = [used EXCEPT ![r] = @ + 1]
    /\ open' = [open EXCEPT ![r] = TRUE]
    /\ UNCHANGED certified

\* The sitting going on ends and asks for its certificate, the first time.
Finish(r) ==
    /\ open[r]
    /\ open' = [open EXCEPT ![r] = FALSE]
    /\ certified[<<r, used[r]>>] = 0
    /\ certified' = [certified EXCEPT ![<<r, used[r]>>] = 1]
    /\ UNCHANGED used

Next == \E r \in Regs : Sit(r) \/ Finish(r)

Spec == Init /\ [][Next]_vars
=============================================================================
