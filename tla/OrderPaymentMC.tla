---------------------------- MODULE OrderPaymentMC ----------------------------
(* Instances of OrderPayment for TLC. *)
EXTENDS OrderPayment, TLC

MCKind == "book" :> "physical" @@ "course" :> "course" @@ "exam" :> "exam"

\* s1 buys a book with a course, then the last book again; s1's third order is
\* a free course with a free exam; an administrator buys seats for two students.
Holds == "o1" :> ("book" :> 1 @@ "course" :> 1)
      @@ "o2" :> ("book" :> 1)
      @@ "o3" :> ("exam" :> 1 @@ "course" :> 1)
      @@ "o4" :> ("exam" :> 2)
MCQty == [o \in Orders |-> [p \in Products |->
            IF p \in DOMAIN Holds[o] THEN Holds[o][p] ELSE 0]]

MCBuyer == [o \in Orders |-> IF o = "o4" THEN "admin" ELSE "s1"]
MCParticipants == [o \in Orders |-> IF o = "o4" THEN {"s1", "s2"} ELSE {}]
MCStock == [p \in Products |-> 1]

\* The bounds let the first order reach the gateway, and the second and fourth
\* stay unpaid.
FewInvoices == [o \in Orders |-> IF o = "o1" THEN 1 ELSE 0]
FewEvents   == [o \in Orders |-> IF o \in {"o1", "o3"} THEN 1 ELSE 0]
Two         == [o \in Orders |-> 2]
=============================================================================
