------------------------------ MODULE PageProofs ------------------------------
(***************************************************************************)
(* The session, the query cache and the pages of the shop and the courses, *)
(* for every set of users, units, goods and orders: a shell is its         *)
(* owner's, what this browser changed is read again, a charge is for the   *)
(* cart there is, a video not begun is covered, a form follows its         *)
(* profile, a move keeps its author's order, an abandoned edit stays out   *)
(* of later saves, and a receipt is its order's.                           *)
(***************************************************************************)
EXTENDS AuthClient, QueryCache, CartPage, CourseVideo, ProfileForm, CurriculumEditor,
        ProductsPage, OrdersPage, FiniteSetTheorems, SequenceTheorems,
        WellFoundedInduction, TLAPS

(***************************************************************************)
(* The session                                                             *)
(***************************************************************************)

\* A token beside the user it was issued to; the user may be unknown.
Owns(x) == x.token \in Issued /\ (x.user # Nobody => owner[x.token] = x.user)

\* The store holds such a pair, and so does every refresh: its old token until
\* it is answered, its new one until that is stored.
SessionsMatch ==
    /\ authStore.token # 0 => Owns(authStore)
    /\ \A r \in Requests : request[r].state \in {"refreshing", "renewed"} => Owns(request[r])

AuthInv == AuthTypeOK /\ SessionsMatch

LEMMA AuthInitInv == ASSUME AuthInit \/ AuthInitLegacy PROVE AuthInv
<1> USE AuthConstants DEF AuthInv, AuthTypeOK, SessionsMatch, Owns, Issued, NoStore, Idle, Nobody, Tokens, Routes
<1>1. CASE AuthInit
  BY <1>1 DEF AuthInit
<1>2. CASE AuthInitLegacy
  <2>1. PICK u \in Users : owner = <<u>> /\ fresh = {1} /\ renewable = {1}
                            /\ authStore = [token |-> 1, user |-> Nobody]
                            /\ request = [r \in Requests |-> Idle]
                            /\ pending = Nobody /\ incomplete = Incomplete /\ route = "student"
    BY <1>2 DEF AuthInitLegacy
  <2>2. owner \in Seq(Users) /\ Len(owner) = 1 /\ DOMAIN owner = {1}
    BY <2>1
  <2>3. QED
    BY <2>1, <2>2
<1>3. QED
  BY <1>1, <1>2

\* A session that is issued comes after the others, and theirs stay as they are.
LEMMA IssueAppends ==
    ASSUME AuthTypeOK, NEW u \in Users, Issue(u)
    PROVE  /\ owner' \in Seq(Users) /\ Len(owner') <= TokenBound
           /\ New \in DOMAIN owner' /\ New \in Tokens /\ owner'[New] = u
           /\ \A k \in Issued : k \in DOMAIN owner' /\ owner'[k] = owner[k]
BY AuthConstants DEF AuthTypeOK, Issue, New, Issued, Tokens

LEMMA SignedInKeeps ==
    ASSUME AuthInv, NEW u \in Users, SignedIn(u), request' = request,
           pending' \in Users \cup {Nobody}, incomplete' \subseteq Users, route' \in Routes
    PROVE  AuthInv'
<1>1. Issue(u)
  BY DEF SignedIn
<1>2. AuthTypeOK
  BY DEF AuthInv
<1> USE AuthConstants, IssueAppends, <1>1, <1>2 DEF SignedIn, Issued
<1>3. AuthTypeOK'
  BY DEF AuthTypeOK
<1>4. SessionsMatch'
  BY DEF AuthInv, SessionsMatch, Owns, AuthTypeOK
<1>5. QED
  BY <1>3, <1>4 DEF AuthInv

LEMMA RequestKeeps ==
    ASSUME AuthInv, NEW r \in Requests,
           Send(r) \/ Served(r) \/ Unauthorized(r) \/ RefreshServed(r) \/ RefreshStored(r) \/ RefreshFails(r)
    PROVE  AuthInv'
<1> USE AuthConstants DEF AuthInv, AuthTypeOK, SessionsMatch, Owns, Issued, Idle, NoStore, Nobody, Tokens, Routes
<1>1. CASE Send(r)
  BY <1>1 DEF Send
<1>2. CASE Served(r)
  BY <1>2 DEF Served
<1>3. CASE Unauthorized(r)
  <2>1. CASE Evict
    BY <1>3, <2>1 DEF Unauthorized, Evict
  <2>2. CASE ~Evict
    BY <1>3, <2>2 DEF Unauthorized
  <2>3. QED
    BY <2>1, <2>2
<1>4. CASE RefreshServed(r)
  <2>1. owner[request[r].token] \in Users /\ Issue(owner[request[r].token])
    BY <1>4 DEF RefreshServed
  <2>2. AuthTypeOK'
    <3>1. /\ owner' \in Seq(Users) /\ Len(owner') <= TokenBound /\ New \in Tokens
          /\ New \in DOMAIN owner' /\ DOMAIN owner \subseteq DOMAIN owner'
      BY <2>1, IssueAppends
    <3>2. request' \in [Requests -> [state : {"idle", "sent", "refreshing", "renewed"},
                                    token : Tokens \cup {0}, user : Users \cup {Nobody}]]
      BY <1>4, <3>1 DEF RefreshServed
    <3>3. fresh' \subseteq Issued' /\ renewable' \subseteq Issued'
      BY <1>4, <3>1 DEF RefreshServed
    <3>4. authStore' = authStore /\ pending' = pending /\ incomplete' = incomplete /\ route' = route
      BY <1>4 DEF RefreshServed
    <3>5. QED
      BY <3>1, <3>2, <3>3, <3>4
  <2>3. request[r].user # Nobody => owner[request[r].token] = request[r].user
    BY <1>4 DEF RefreshServed
  <2>4. /\ New \in DOMAIN owner' /\ New \in Tokens /\ owner'[New] = owner[request[r].token]
        /\ \A k \in DOMAIN owner : k \in DOMAIN owner' /\ owner'[k] = owner[k]
    BY <2>1, IssueAppends
  <2>5. authStore' = authStore /\ (authStore.token # 0 => Owns(authStore)')
    BY <1>4, <2>4 DEF RefreshServed
  <2>6. Owns(request[r])'
    <3>1. request'[r].token = New /\ request'[r].user = request[r].user
      BY <1>4 DEF RefreshServed
    <3>2. QED
      BY <2>3, <2>4, <3>1
  <2>7. ASSUME NEW q \in Requests, q # r, request'[q].state \in {"refreshing", "renewed"}
        PROVE  Owns(request[q])'
    <3>1. request'[q] = request[q]
      BY <1>4, <2>7 DEF RefreshServed
    <3>2. QED
      BY <2>4, <2>7, <3>1
  <2>8. QED
    BY <2>2, <2>5, <2>6, <2>7
<1>5. CASE RefreshStored(r)
  BY <1>5 DEF RefreshStored
<1>6. CASE RefreshFails(r)
  BY <1>6 DEF RefreshFails, Evict
<1>7. QED
  BY <1>1, <1>2, <1>3, <1>4, <1>5, <1>6

LEMMA AuthStep == ASSUME AuthInv, [AuthNext]_authVars PROVE AuthInv'
<1> USE AuthConstants DEF Routes
<1>1. ASSUME NEW u \in Users, Login(u) PROVE AuthInv'
  BY <1>1, SignedInKeeps DEF Login, HomeOf, AuthInv, AuthTypeOK
<1>2. ASSUME NEW u \in Users, AskForCode(u) PROVE AuthInv'
  BY <1>2 DEF AskForCode, AuthInv, AuthTypeOK, SessionsMatch, Owns, Issued
<1>3. CASE VerifyOtp
  BY <1>3, SignedInKeeps DEF VerifyOtp, AuthInv, AuthTypeOK
<1>4. CASE Logout
  BY <1>4 DEF Logout, AuthInv, AuthTypeOK, SessionsMatch, Owns, Issued, NoStore, Nobody, Tokens
<1>5. CASE Expire
  BY <1>5 DEF Expire, AuthInv, AuthTypeOK, SessionsMatch, Owns, Issued
<1>6. CASE Guard
  BY <1>6 DEF Guard, HomeOf, AuthInv, AuthTypeOK, SessionsMatch, Owns, Issued
<1>7. CASE CompleteProfile
  BY <1>7 DEF CompleteProfile, AuthInv, AuthTypeOK, SessionsMatch, Owns, Issued
<1>8. ASSUME NEW to \in Routes, GoTo(to) PROVE AuthInv'
  BY <1>8 DEF GoTo, AuthInv, AuthTypeOK, SessionsMatch, Owns, Issued
<1>9. CASE UNCHANGED authVars
  BY <1>9 DEF authVars, AuthInv, AuthTypeOK, SessionsMatch, Owns, Issued
<1>10. QED
  BY <1>1, <1>2, <1>3, <1>4, <1>5, <1>6, <1>7, <1>8, <1>9, RequestKeeps DEF AuthNext

LEMMA AuthInvShell == ASSUME AuthInv PROVE ShellIsTheOwners
<1>1. StudentShell \/ AdminShell => owner[authStore.token] = Resolved
  BY DEF AuthInv, SessionsMatch, Owns, StudentShell, AdminShell, Resolved
<1>2. StudentShell \/ AdminShell => (AdminShell <=> RoleOf[Resolved] = "admin")
  BY DEF StudentShell, AdminShell
<1>3. QED
  BY <1>1, <1>2 DEF ShellIsTheOwners

\* The types of the session's variables, for every set of users and requests.
THEOREM AuthTypes == AuthSpec => []AuthTypeOK
<1>1. AuthInit \/ AuthInitLegacy => AuthInv
  BY AuthInitInv
<1>2. AuthInv /\ [AuthNext]_authVars => AuthInv'
  BY AuthStep
<1>3. AuthInv => AuthTypeOK
  BY DEF AuthInv
<1>4. QED
  BY <1>1, <1>2, <1>3, PTL DEF AuthSpec

\* Whatever refreshes, sign-outs and sign-ins overlapped, a shell on the screen
\* is that of the person the store's token acts for.
THEOREM ShellsAreTheOwners == AuthSpec => []ShellIsTheOwners
<1>1. AuthInit \/ AuthInitLegacy => AuthInv
  BY AuthInitInv
<1>2. AuthInv /\ [AuthNext]_authVars => AuthInv'
  BY AuthStep
<1>3. AuthInv => ShellIsTheOwners
  BY AuthInvShell
<1>4. QED
  BY <1>1, <1>2, <1>3, PTL DEF AuthSpec

-------------------------------------------------------------------------------
(***************************************************************************)
(* The query cache                                                         *)
(***************************************************************************)

\* How the keys begin each other.
LEMMA KeyPrefixes ==
    ASSUME NEW a, NEW b, NEW c, NEW d
    PROVE  /\ IsPrefix(<<a, b>>, <<a, b>>) /\ IsPrefix(<<a, b, c>>, <<a, b, c>>)
           /\ IsPrefix(<<a, b, c, d>>, <<a, b, c, d>>)
           /\ IsPrefix(<<a, b>>, <<a, b, c>>) /\ IsPrefix(<<a, b>>, <<a, b, c, d>>)
BY DEF IsPrefix

LEMMA KeyOfThree == ASSUME NEW S, NEW a \in S, NEW b \in S, NEW c \in S PROVE <<a, b>> \o <<c>> = <<a, b, c>>
<1> DEFINE s == <<a, b>> \o <<c>>
           t == <<a, b, c>>
<1>1. <<a, b>> \in Seq(S) /\ <<c>> \in Seq(S) /\ Len(<<a, b>>) = 2 /\ Len(<<c>>) = 1
  OBVIOUS
<1>2. s \in Seq(S) /\ Len(s) = 3 /\ s[1] = a /\ s[2] = b /\ s[3] = c
  BY <1>1, ConcatProperties
<1>3. t \in Seq(S) /\ Len(t) = 3 /\ t[1] = a /\ t[2] = b /\ t[3] = c
  OBVIOUS
<1>4. \A i \in 1..3 : i = 1 \/ i = 2 \/ i = 3
  OBVIOUS
<1> HIDE DEF s, t
<1>5. s = t
  BY <1>2, <1>3, <1>4, SeqEqual
<1>6. QED
  BY <1>5 DEF s, t

LEMMA KeyOfFour ==
    ASSUME NEW S, NEW a \in S, NEW b \in S, NEW c \in S, NEW d \in S PROVE <<a, b>> \o <<c, d>> = <<a, b, c, d>>
<1> DEFINE s == <<a, b>> \o <<c, d>>
           t == <<a, b, c, d>>
<1>1. <<a, b>> \in Seq(S) /\ <<c, d>> \in Seq(S) /\ Len(<<a, b>>) = 2 /\ Len(<<c, d>>) = 2
  OBVIOUS
<1>2. s \in Seq(S) /\ Len(s) = 4 /\ s[1] = a /\ s[2] = b /\ s[3] = c /\ s[4] = d
  BY <1>1, ConcatProperties
<1>3. t \in Seq(S) /\ Len(t) = 4 /\ t[1] = a /\ t[2] = b /\ t[3] = c /\ t[4] = d
  OBVIOUS
<1>4. \A i \in 1..4 : i = 1 \/ i = 2 \/ i = 3 \/ i = 4
  OBVIOUS
<1> HIDE DEF s, t
<1>5. s = t
  BY <1>2, <1>3, <1>4, SeqEqual
<1>6. QED
  BY <1>5 DEF s, t

LEMMA KeyOfThreeAndOne ==
    ASSUME NEW S, NEW a \in S, NEW b \in S, NEW c \in S, NEW d \in S PROVE <<a, b, c>> \o <<d>> = <<a, b, c, d>>
<1> DEFINE s == <<a, b, c>> \o <<d>>
           t == <<a, b, c, d>>
<1>1. <<a, b, c>> \in Seq(S) /\ <<d>> \in Seq(S) /\ Len(<<a, b, c>>) = 3 /\ Len(<<d>>) = 1
  OBVIOUS
<1>2. s \in Seq(S) /\ Len(s) = 4 /\ s[1] = a /\ s[2] = b /\ s[3] = c /\ s[4] = d
  BY <1>1, ConcatProperties
<1>3. t \in Seq(S) /\ Len(t) = 4 /\ t[1] = a /\ t[2] = b /\ t[3] = c /\ t[4] = d
  OBVIOUS
<1>4. \A i \in 1..4 : i = 1 \/ i = 2 \/ i = 3 \/ i = 4
  OBVIOUS
<1> HIDE DEF s, t
<1>5. s = t
  BY <1>2, <1>3, <1>4, SeqEqual
<1>6. QED
  BY <1>5 DEF s, t

\* A mutation that covers the kept keys of what it writes.
Reached(covers, data) == \A key : ReadAgain(key, data) => \E k \in covers : IsPrefix(k, key)
Keeps(m) == \A data \in m.writing : Reached(m.covers, data)

LEMMA MutationKeeps ==
    ASSUME NEW writing, NEW covers, \A data \in writing : Reached(covers, data) PROVE Keeps(Mutation(writing, covers))
BY DEF Mutation, Keeps

LEMMA AdminPrefixes ==
    ASSUME NEW r, NEW x, NEW y
    PROVE  /\ IsPrefix(Admin(r), AdminList(r)) /\ IsPrefix(Admin(r), AdminDetail(r))
           /\ IsPrefix(Admin(r), Admin(r) \o <<x>>) /\ IsPrefix(Admin(r), Admin(r) \o <<x, y>>)
           /\ IsPrefix(AdminList(r), AdminList(r)) /\ IsPrefix(AdminDetail(r), AdminDetail(r))
           /\ IsPrefix(Admin(r) \o <<x, y>>, Admin(r) \o <<x, y>>)
           /\ IsPrefix(AdminExams(r), AdminExams(r)) /\ IsPrefix(AdminExams(r), AdminExams(r) \o <<x>>)
           /\ IsPrefix(AdminExams(r) \o <<x>>, AdminExams(r) \o <<x>>)
           /\ IsPrefix(AdminExams(r) \o <<x>> \o <<y>>, AdminExams(r) \o <<x, y>>)
<1> DEFINE S == {"admin", "adminExams", r, x, y}
<1>1. "admin" \in S /\ "adminExams" \in S /\ r \in S /\ x \in S /\ y \in S
  OBVIOUS
<1> HIDE DEF S
<1>2. Admin(r) \o <<x>> = <<"admin", r, x>> /\ AdminExams(r) \o <<x>> = <<"adminExams", r, x>>
  BY <1>1, KeyOfThree, Zenon DEF Admin, AdminExams
<1>3. Admin(r) \o <<x, y>> = <<"admin", r, x, y>> /\ AdminExams(r) \o <<x, y>> = <<"adminExams", r, x, y>>
  BY <1>1, KeyOfFour DEF Admin, AdminExams
<1>4. <<"adminExams", r, x>> \o <<y>> = <<"adminExams", r, x, y>>
  BY <1>1, KeyOfThreeAndOne
<1>5. AdminExams(r) \o <<x>> \o <<y>> = <<"adminExams", r, x, y>>
  BY <1>2, <1>4, Zenon
<1>6. QED
  BY <1>2, <1>3, <1>5, KeyPrefixes DEF Admin, AdminList, AdminDetail, AdminExams

LEMMA RootPrefixes ==
    ASSUME NEW r
    PROVE  /\ IsPrefix(Admin(r), AdminList(r)) /\ IsPrefix(Admin(r), AdminDetail(r))
           /\ IsPrefix(AdminList(r), AdminList(r)) /\ IsPrefix(AdminDetail(r), AdminDetail(r))
           /\ IsPrefix(AdminExams(r), AdminExams(r))
BY AdminPrefixes

LEMMA PartPrefixes ==
    ASSUME NEW r, NEW x
    PROVE  /\ IsPrefix(Admin(r), Admin(r) \o <<x>>) /\ IsPrefix(AdminExams(r), AdminExams(r) \o <<x>>)
           /\ IsPrefix(AdminExams(r) \o <<x>>, AdminExams(r) \o <<x>>)
BY AdminPrefixes

LEMMA SectionPrefix == IsPrefix(AdminDetail("courses") \o <<"sections">>, AdminDetail("courses") \o <<"sections">>)
BY DEF IsPrefix

LEMMA AccountMutationsKeep == \A m \in AccountMutations : Keeps(m)
<1>1. \A key : ReadAgain(key, "account") => key = AdminList("accounts")
  BY DEF ReadAgain
<1>2. Reached({Admin("accounts")}, "account")
  BY <1>1, RootPrefixes, Zenon DEF Reached
<1>3. QED
  BY <1>2, MutationKeeps, Zenon DEF AccountMutations

LEMMA AnnouncementMutationsKeep == \A m \in AnnouncementMutations : Keeps(m)
<1>1. \A key : ReadAgain(key, "announcement") => key = AdminList("announcements")
  BY DEF ReadAgain
<1>2. Reached({AdminList("announcements")}, "announcement")
  BY <1>1, RootPrefixes, Zenon DEF Reached
<1>3. QED
  BY <1>2, MutationKeeps, Zenon DEF AnnouncementMutations

LEMMA ConfigMutationsKeep == \A m \in ConfigMutations : Keeps(m)
<1>1. \A key : ReadAgain(key, "config") => key = Admin("config") \o <<"detail">>
  BY DEF ReadAgain
<1>2. Reached({Admin("config")}, "config")
  BY <1>1, RootPrefixes, PartPrefixes, Zenon DEF Reached
<1>3. QED
  BY <1>2, MutationKeeps, Zenon DEF ConfigMutations

LEMMA BankMutationsKeep == \A m \in BankMutations : Keeps(m)
<1>1. \A key : ReadAgain(key, "question") => key = AdminList("bank-questions")
  BY DEF ReadAgain
<1>2. Reached({AdminList("bank-questions")}, "question")
  BY <1>1, RootPrefixes, AdminPrefixes, Zenon DEF Reached
<1>3. QED
  BY <1>2, MutationKeeps, Zenon DEF BankMutations

LEMMA TopicMutationsKeep == \A m \in TopicMutations : Keeps(m)
<1>1. \A key : ReadAgain(key, "topic") => key = AdminList("topics")
  BY DEF ReadAgain
<1>2. Reached({AdminList("topics")}, "topic")
  BY <1>1, RootPrefixes, Zenon DEF Reached
<1>3. QED
  BY <1>2, MutationKeeps, Zenon DEF TopicMutations

LEMMA TestMutationsKeep == \A m \in TestMutations : Keeps(m)
<1> DEFINE questions == {Admin("tests") \o <<"questions", "id">>}
           bank == {AdminList("bank-questions")}
<1>1. /\ \A key : ReadAgain(key, "new test") => key = AdminList("tests")
      /\ \A key : ReadAgain(key, "test") => key = AdminList("tests") \/ key = AdminDetail("tests")
      /\ \A key : ReadAgain(key, "attachment") =>
              key = Admin("tests") \o <<"questions", "id">> \/ key = AdminList("bank-questions")
      /\ \A key : ReadAgain(key, "question") => key = AdminList("bank-questions")
      /\ \A key : ReadAgain(key, "attachment order") => key = Admin("tests") \o <<"questions", "id">>
  BY DEF ReadAgain
<1>2. Reached({AdminList("tests")}, "new test")
  BY <1>1, RootPrefixes, Zenon DEF Reached
<1>3. Reached({AdminList("tests"), AdminDetail("tests")}, "test")
  BY <1>1, RootPrefixes, Zenon DEF Reached
<1>4. Reached(questions \cup bank, "question") /\ Reached(questions \cup bank, "attachment")
  BY <1>1, AdminPrefixes, Zenon DEF Reached
<1>5. Reached(questions, "attachment order")
  BY <1>1, PartPrefixes, AdminPrefixes, Zenon DEF Reached
<1>6. QED
  BY <1>2, <1>3, <1>4, <1>5, MutationKeeps, Zenon DEF TestMutations

LEMMA CourseMutationsKeep == \A m \in CourseMutations : Keeps(m)
<1>1. /\ \A key : ReadAgain(key, "new course") => key = AdminList("courses")
      /\ \A key : ReadAgain(key, "course") => key = AdminList("courses") \/ key = AdminDetail("courses")
      /\ \A key : ReadAgain(key, "section") => key = AdminDetail("courses") \o <<"sections">>
  BY DEF ReadAgain
<1>2. Reached({AdminList("courses"), AdminDetail("courses")}, "course")
  BY <1>1, RootPrefixes, Zenon DEF Reached
<1>3. Reached({AdminDetail("courses") \o <<"sections">>}, "section")
  BY <1>1, SectionPrefix, Zenon DEF Reached
<1>4. Reached({AdminList("courses")}, "new course")
  BY <1>1, RootPrefixes, Zenon DEF Reached
<1>5. QED
  BY <1>2, <1>3, <1>4, MutationKeeps, Zenon DEF CourseMutations

LEMMA ExamMutationsKeep == \A m \in ExamMutations : Keeps(m)
<1>1. /\ \A key : ReadAgain(key, "exam") => key = AdminExams("list") \/ key = AdminExams("detail") \o <<"id">>
      /\ \A key : ReadAgain(key, "exam tests") => key = AdminExams("list") \/ key = AdminExams("detail") \o <<"id">>
      /\ \A key : ReadAgain(key, "design") => key = AdminExams("detail") \o <<"id">> \/ key = AdminExams("detail") \o <<"id", "certificate-design">>
      /\ \A key : ReadAgain(key, "certificate switch") => key = AdminExams("detail") \o <<"id", "certificate-design">>
  BY DEF ReadAgain
<1>2. Reached({AdminExams("list"), AdminExams("detail")}, "exam")
  BY <1>1, RootPrefixes, PartPrefixes, Zenon DEF Reached
<1>3. /\ Reached({AdminExams("list"), AdminExams("detail") \o <<"id">>}, "exam")
      /\ Reached({AdminExams("list"), AdminExams("detail") \o <<"id">>}, "exam tests")
  BY <1>1, RootPrefixes, PartPrefixes, Zenon DEF Reached
<1>4. /\ Reached({AdminExams("list"), AdminExams("detail") \o <<"id">>, AdminExams("detail") \o <<"id">> \o <<"certificate-design">>}, "exam")
      /\ Reached({AdminExams("list"), AdminExams("detail") \o <<"id">>, AdminExams("detail") \o <<"id">> \o <<"certificate-design">>}, "certificate switch")
  BY <1>1, RootPrefixes, PartPrefixes, AdminPrefixes, Zenon DEF Reached
<1>5. /\ Reached({AdminExams("detail") \o <<"id">>, AdminExams("detail") \o <<"id">> \o <<"certificate-design">>}, "design")
  BY <1>1, RootPrefixes, PartPrefixes, AdminPrefixes, Zenon DEF Reached
<1>6. QED
  BY <1>2, <1>3, <1>4, <1>5, MutationKeeps, Zenon DEF ExamMutations

LEMMA GradingMutationsKeep == \A m \in GradingMutations : Keeps(m)
<1>1. \A key : ReadAgain(key, "grade") => key = AdminExams("grading") \o <<"id">> \/ key = AdminExams("sessionEssays") \o <<"id">> \/ key = <<"exam", "result", "id">>
  BY DEF ReadAgain
<1>2. /\ Reached({AdminExams("sessionEssays") \o <<"id">>, AdminExams("grading"), <<"exam", "result", "id">>}, "grade")
  BY <1>1, RootPrefixes, PartPrefixes, KeyPrefixes, Zenon DEF Reached
<1>3. QED
  BY <1>2, MutationKeeps, Zenon DEF GradingMutations

LEMMA GrantMutationsKeep == \A m \in GrantMutations : Keeps(m)
<1>1. \A key : ReadAgain(key, "registration") => key = AdminExams("roster") \o <<"id">> \/ key = Admin("examGrants") \o <<"search">>
  BY DEF ReadAgain
<1>2. Reached({Admin("examGrants"), AdminExams("roster") \o <<"id">>}, "registration")
  BY <1>1, RootPrefixes, PartPrefixes, Zenon DEF Reached
<1>3. QED
  BY <1>2, MutationKeeps, Zenon DEF GrantMutations

LEMMA BulkMutationsKeep == \A m \in BulkMutations : Keeps(m)
<1>1. \A key : ~ ReadAgain(key, "bulk order")
  BY DEF ReadAgain
<1>2. Reached({Admin("bulkExamOrders"), AdminExams("roster") \o <<"id">>}, "bulk order")
  BY <1>1, RootPrefixes, PartPrefixes, AdminPrefixes, Zenon DEF Reached
<1>3. QED
  BY <1>2, MutationKeeps, Zenon DEF BulkMutations

LEMMA SessionMutationsKeep == \A m \in SessionMutations : Keeps(m)
<1>1. \A key : ReadAgain(key, "sitting") => key = <<"adminSessions", "monitor", "id">>
  BY DEF ReadAgain
<1>2. Reached({<<"adminSessions", "monitor">>}, "sitting")
  BY <1>1, KeyPrefixes, Zenon DEF Reached
<1>3. QED
  BY <1>2, MutationKeeps, Zenon DEF SessionMutations

LEMMA NoticeMutationsKeep == \A m \in NoticeMutations : Keeps(m)
<1>1. \A key : ReadAgain(key, "notification") => key = AdminList("notifications")
  BY DEF ReadAgain
<1>2. Reached({Admin("notifications")}, "notification")
  BY <1>1, RootPrefixes, Zenon DEF Reached
<1>3. QED
  BY <1>2, MutationKeeps, Zenon DEF NoticeMutations

LEMMA AdminOrderMutationsKeep == \A m \in AdminOrderMutations : Keeps(m)
<1>1. /\ \A key : ReadAgain(key, "order") => key = AdminList("orders") \/ key = Admin("orders") \o <<"summary">> \/ key = AdminDetail("orders") \/ key = Admin("orders") \o <<"tracking", "id">>
      /\ \A key : ReadAgain(key, "shipment") => key = AdminList("orders") \/ key = Admin("orders") \o <<"summary">> \/ key = AdminDetail("orders") \/ key = Admin("orders") \o <<"tracking", "id">>
  BY DEF ReadAgain
<1>2. Reached({Admin("orders")}, "order") /\ Reached({Admin("orders")}, "shipment")
  BY <1>1, RootPrefixes, PartPrefixes, AdminPrefixes, Zenon DEF Reached
<1>3. QED
  BY <1>2, MutationKeeps, Zenon DEF AdminOrderMutations

LEMMA ProductMutationsKeep == \A m \in ProductMutations : Keeps(m)
<1>1. \A key : ReadAgain(key, "product") => key = AdminList("products")
  BY DEF ReadAgain
<1>2. Reached({AdminList("products")}, "product")
  BY <1>1, RootPrefixes, Zenon DEF Reached
<1>3. QED
  BY <1>2, MutationKeeps, Zenon DEF ProductMutations

LEMMA PromoMutationsKeep == \A m \in PromoMutations : Keeps(m)
<1>1. \A key : ReadAgain(key, "promo") => key = AdminList("promos")
  BY DEF ReadAgain
<1>2. Reached({AdminList("promos")}, "promo")
  BY <1>1, RootPrefixes, Zenon DEF Reached
<1>3. QED
  BY <1>2, MutationKeeps, Zenon DEF PromoMutations

LEMMA SchoolMutationsKeep == \A m \in SchoolMutations : Keeps(m)
<1>1. \A key : ReadAgain(key, "school") => key = AdminList("schools") \/ key = Admin("schools") \o <<"options">>
  BY DEF ReadAgain
<1>2. Reached({Admin("schools")}, "school")
  BY <1>1, RootPrefixes, PartPrefixes, Zenon DEF Reached
<1>3. QED
  BY <1>2, MutationKeeps, Zenon DEF SchoolMutations

LEMMA StudentMutationsKeep == \A m \in StudentMutations : Keeps(m)
<1>1. \A key : ReadAgain(key, "student") => key = AdminList("students")
  BY DEF ReadAgain
<1>2. Reached({Admin("students")}, "student")
  BY <1>1, RootPrefixes, Zenon DEF Reached
<1>3. QED
  BY <1>2, MutationKeeps, Zenon DEF StudentMutations

LEMMA OrderMutationsKeep == \A m \in OrderMutations : Keeps(m)
<1>1. /\ \A key : ReadAgain(key, "cart") => key = <<"orders", "cart">>
      /\ \A key : ReadAgain(key, "checkout") => key = <<"orders", "cart">> \/ key = <<"orders", "list">>
      /\ \A key : ReadAgain(key, "retry") => key = <<"orders", "list">> \/ key = <<"orders", "detail", "id">>
  BY DEF ReadAgain
<1>2. Reached({<<"orders", "cart">>}, "cart")
  BY <1>1, PartPrefixes, KeyPrefixes, Zenon DEF Reached
<1>3. /\ Reached({<<"orders", "cart">>, <<"orders", "list">>}, "cart")
      /\ Reached({<<"orders", "cart">>, <<"orders", "list">>}, "checkout")
  BY <1>1, PartPrefixes, KeyPrefixes, Zenon DEF Reached
<1>4. Reached({<<"orders", "detail", "id">>, <<"orders", "list">>}, "retry")
  BY <1>1, PartPrefixes, KeyPrefixes, Zenon DEF Reached
<1>5. QED
  BY <1>2, <1>3, <1>4, MutationKeeps, Zenon DEF OrderMutations

LEMMA LearnerMutationsKeep == \A m \in LearnerMutations : Keeps(m)
<1>1. \A key : ReadAgain(key, "progress") => key = <<"courses", "list">> \/ key = <<"courses", "detail", "id">>
  BY DEF ReadAgain
<1>2. Reached({<<"courses", "detail", "id">>, <<"courses", "list">>}, "progress")
  BY <1>1, KeyPrefixes, Zenon DEF Reached
<1>3. QED
  BY <1>2, MutationKeeps, Zenon DEF LearnerMutations

LEMMA ProfileMutationsKeep == \A m \in ProfileMutations : Keeps(m)
<1>1. \A key : ReadAgain(key, "profile") => key = <<"students", "profile">>
  BY DEF ReadAgain
<1>2. Reached({<<"students", "profile">>}, "profile")
  BY <1>1, KeyPrefixes, Zenon DEF Reached
<1>3. QED
  BY <1>2, MutationKeeps, Zenon DEF ProfileMutations

LEMMA MeMutationsKeep == \A m \in MeMutations : Keeps(m)
<1>1. \A key : ReadAgain(key, "own photo") => key = <<"auth", "me">>
  BY DEF ReadAgain
<1>2. Reached({<<"auth", "me">>}, "own photo")
  BY <1>1, KeyPrefixes, Zenon DEF Reached
<1>3. QED
  BY <1>2, MutationKeeps, Zenon DEF MeMutations

LEMMA ExamineeMutationsKeep == \A m \in ExamineeMutations : Keeps(m)
<1>1. /\ \A key : ReadAgain(key, "check-in") => key = <<"exam", "list">> \/ key = <<"exam", "detail", "id">>
      /\ \A key : ReadAgain(key, "attempt") => key = <<"exam", "session", "id">>
      /\ \A key : ~ReadAgain(key, "new attempt") /\ ~ReadAgain(key, "answer") /\ ~ReadAgain(key, "violation")
  BY DEF ReadAgain
<1>2. Reached({<<"exam", "detail">>, <<"exam", "list">>}, "check-in")
  BY <1>1, KeyPrefixes, Zenon DEF Reached
<1>3. Reached({<<"exam", "session", "id">>}, "attempt")
  BY <1>1, KeyPrefixes, Zenon DEF Reached
<1>4. Reached({}, "new attempt") /\ Reached({}, "answer") /\ Reached({}, "violation")
  BY <1>1, Zenon DEF Reached
<1>5. QED
  BY <1>2, <1>3, <1>4, MutationKeeps, Zenon DEF ExamineeMutations

LEMMA MutationGroups ==
    ASSUME NEW m \in Mutations
    PROVE  \/ m \in AccountMutations \/ m \in AnnouncementMutations \/ m \in ConfigMutations \/ m \in BankMutations
           \/ m \in TopicMutations \/ m \in TestMutations \/ m \in CourseMutations \/ m \in ExamMutations
           \/ m \in GradingMutations \/ m \in GrantMutations \/ m \in BulkMutations \/ m \in SessionMutations
           \/ m \in NoticeMutations \/ m \in AdminOrderMutations \/ m \in ProductMutations \/ m \in PromoMutations
           \/ m \in SchoolMutations
           \/ m \in StudentMutations \/ m \in OrderMutations \/ m \in LearnerMutations
           \/ m \in ProfileMutations \/ m \in MeMutations \/ m \in ExamineeMutations
BY DEF Mutations

LEMMA MutationsKeep == \A m \in Mutations : Keeps(m)
BY MutationGroups, AccountMutationsKeep, AnnouncementMutationsKeep, ConfigMutationsKeep, BankMutationsKeep, TopicMutationsKeep,
   TestMutationsKeep, CourseMutationsKeep, ExamMutationsKeep, GradingMutationsKeep, GrantMutationsKeep,
   BulkMutationsKeep, SessionMutationsKeep, NoticeMutationsKeep, AdminOrderMutationsKeep, ProductMutationsKeep, PromoMutationsKeep,
   SchoolMutationsKeep, StudentMutationsKeep, OrderMutationsKeep, LearnerMutationsKeep,
   ProfileMutationsKeep, MeMutationsKeep, ExamineeMutationsKeep

\* A mutation covers a query that reads what it writes, or nothing they share is
\* kept.
LEMMA CoveredOrGap ==
    ASSUME NEW q \in Queries, NEW m \in Mutations, Reads(q, m) PROVE Covers(m, q) \/ KnownGap(q, m)
<1>1. ASSUME NEW data \in q.reads \cap m.writing, ReadAgain(q.key, data) PROVE Covers(m, q)
  <2>1. Reached(m.covers, data)
    BY <1>1, MutationsKeep, Zenon DEF Keeps
  <2>2. QED
    BY <1>1, <2>1, Zenon DEF Reached, Covers
<1>2. QED
  BY <1>1, Zenon DEF KnownGap

\* What old data is still waiting for: the mutation's success, the next mount or
\* answer, or nothing at all.
CacheInv ==
    /\ query \in Queries /\ mutation \in Mutations /\ Reads(query, mutation)
    /\ mounted \in BOOLEAN /\ invalidated \in BOOLEAN /\ aged \in BOOLEAN /\ overlooked \in BOOLEAN
    /\ cached \in {"none", "current", "old"} /\ asking \in {"idle", "asked", "current", "old"}
    /\ mutating \in {"idle", "sent", "written"} /\ writes \in 0..CacheWrites
    /\ mutating = "sent" => writes < CacheWrites
    /\ asking = "old" => mutating = "written" \/ overlooked
    /\ cached = "old" => mutating = "written" \/ invalidated \/ overlooked \/ KnownGap(query, mutation)

LEMMA CacheInitInv == ASSUME CacheInit PROVE CacheInv
<1>1. 0 \in 0..CacheWrites
  BY CacheConstants
<1>2. QED
  BY <1>1 DEF CacheInit, CacheInv

LEMMA CacheStep == ASSUME CacheInv, [CacheNext]_cacheVars PROVE CacheInv'
<1> USE DEF CacheInv
<1> DEFINE gap == KnownGap(query, mutation)
           covered == Covers(mutation, query)
<1>1. query' = query /\ mutation' = mutation
  BY DEF CacheNext, cacheVars, Mount, Unmount, Read, Arrive, AskFails, Age, Mutate, Write, Succeed, MutationFails
<1>2. KnownGap(query', mutation') = gap /\ Reads(query', mutation') = Reads(query, mutation)
  BY <1>1
<1>3. covered \/ gap
  BY CoveredOrGap
<1>4. covered = Covers(mutation, query) /\ gap = KnownGap(query, mutation)
  OBVIOUS
<1> HIDE DEF gap, covered
<1>5. CASE Mount \/ Unmount \/ Read \/ Age
  BY <1>1, <1>2, <1>4, <1>5 DEF Mount, Unmount, Read, Age, Ask
<1>6. CASE Arrive \/ AskFails
  BY <1>1, <1>2, <1>4, <1>6 DEF Arrive, AskFails
<1>7. CASE Mutate \/ MutationFails
  BY <1>1, <1>2, <1>4, <1>7 DEF Mutate, MutationFails
<1>8. CASE Write
  <2>1. writes' \in 0..CacheWrites
    BY <1>8, CacheConstants DEF Write
  <2>2. QED
    BY <1>1, <1>2, <1>4, <1>8, <2>1 DEF Write, Older
<1>9. CASE Succeed
  BY <1>1, <1>2, <1>3, <1>4, <1>9 DEF Succeed, Ask
<1>10. CASE UNCHANGED cacheVars
  BY <1>10 DEF cacheVars
<1>11. QED
  BY <1>5, <1>6, <1>7, <1>8, <1>9, <1>10 DEF CacheNext

LEMMA CacheInvHolds == CacheSpec => []CacheInv
<1>1. CacheInit => CacheInv
  BY CacheInitInv
<1>2. CacheInv /\ [CacheNext]_cacheVars => CacheInv'
  BY CacheStep
<1>3. QED
  BY <1>1, <1>2, PTL DEF CacheSpec

\* The cache's flags keep their values, and its pair of query and mutation stays one of the hooks'.
THEOREM CacheTypesHold == CacheSpec => []CacheTypeOK
<1>1. CacheInv => CacheTypeOK
  BY DEF CacheInv, CacheTypeOK
<1>2. QED
  BY <1>1, CacheInvHolds, PTL

\* For every query and every mutation of the hooks and any number of writes: old data of the kinds
\* that are kept is marked to be read again once the mutation has succeeded, unless the answer was
\* under way when the invalidation came.
THEOREM OwnWritesAreShown == CacheSpec => []OwnWriteIsShown
<1>1. CacheInv => OwnWriteIsShown
  BY DEF CacheInv, OwnWriteIsShown
<1>2. QED
  BY <1>1, CacheInvHolds, PTL

-------------------------------------------------------------------------------
(***************************************************************************)
(* The cart                                                                *)
(***************************************************************************)

CartCopies == [qty : 0..MaxQty, place : Places \cup {0}, promo : BOOLEAN,
               status : {"cart", "payment_pending"}]
PatchSet   == [step : {"idle", "sent", "priced"}, place : Places \cup {0}, courier : BOOLEAN,
               promo : {"keep", "apply", "clear"}, tries : 0..1, next : Orders \cup {NoOrder}]

CartTypes ==
    /\ order \in Orders /\ cart \in CartCopies
    /\ cartDue \in BOOLEAN /\ addressOpen \in BOOLEAN /\ addressSeeded \in BOOLEAN
    /\ ratesShown \in BOOLEAN /\ checkingOut \in BOOLEAN
    /\ profilePlace \in Places \cup {0} /\ address \in Places \cup {0}
    /\ patch \in [Patches -> PatchSet]
    /\ qtySent \in 0..NotAsked

\* The sums of an order, and the quote behind its shipping cost.
Adds(o) ==
    /\ o.courier <=> o.quote # NoQuote
    /\ o.courier => o.quote = <<o.place, o.qty>> /\ o.qty > 0
    /\ o.shipping = (IF o.courier THEN Rate(o.quote) ELSE 0)
    /\ o.total = Total(o.qty, o.discount, o.shipping)

\* What a priced patch will write adds up, and while the order has not moved it
\* was priced for the order's quantity.
PricedRight(p) ==
    patch[p].step = "priced" =>
        /\ patch[p].next \in Orders /\ Adds(patch[p].next) /\ patch[p].next.status = "cart"
        /\ patch[p].next.version <= order.version + 1
        /\ Unmoved(p) => patch[p].next.qty = order.qty

CartInv ==
    /\ CartTypes /\ Adds(order)
    /\ \A p \in Patches : PricedRight(p)
    /\ order.status = "payment_pending" => order.courier /\ order.qty > 0

LEMMA NotAskedFits == NotAsked \in Nat /\ \A q \in 0..MaxQty : q \in 0..NotAsked
BY CartConstants DEF NotAsked

LEMMA CartTypesOK == ASSUME CartTypes PROVE CartTypeOK
BY DEF CartTypes, CartTypeOK, CartCopies, PatchSet

LEMMA IdlePatchFits == IdlePatch \in PatchSet
BY DEF IdlePatch, PatchSet

LEMMA CartInitInv == ASSUME CartInit PROVE CartInv
<1> USE CartConstants, NotAskedFits, IdlePatchFits DEF CartInit
<1>1. order \in Orders /\ Adds(order)
  BY DEF Orders, Quotes, NoQuote, Adds, Total, Price, Discount
<1>2. CartTypes
  <2>1. cart \in CartCopies
    BY <1>1 DEF CartCopies, CartOf, Orders
  <2>2. patch \in [Patches -> PatchSet] /\ qtySent \in 0..NotAsked
    OBVIOUS
  <2>3. QED
    BY <1>1, <2>1, <2>2 DEF CartTypes
<1>3. \A p \in Patches : PricedRight(p)
  BY DEF PricedRight, IdlePatch
<1>4. QED
  BY <1>1, <1>2, <1>3 DEF CartInv

\* The total of any quantity and shipping cost is a number.
LEMMA TotalIsNat ==
    ASSUME NEW qty \in 0..MaxQty, NEW less \in {0, Discount}, NEW cost \in Nat
    PROVE  Total(qty, less, cost) \in Nat
BY CartConstants DEF Total, Price, Discount

LEMMA RateIsNat == ASSUME NEW q \in Quotes PROVE Rate(q) \in Nat
<1>1. q[1] \in Places \cup {0} /\ q[2] \in 0..MaxQty
  BY DEF Quotes
<1>2. q[1] \in Nat /\ q[2] \in Nat
  <2>1. MaxQty \in Nat /\ Places \cup {0} \subseteq Nat
    BY CartConstants
  <2>2. \A n \in 0..MaxQty : n \in Nat
    BY <2>1
  <2>3. QED
    BY <1>1, <2>1, <2>2
<1>3. QED
  BY <1>2 DEF Rate

LEMMA WithQtyAdds ==
    ASSUME NEW o \in Orders, NEW qty \in 0..MaxQty, o.version < CartChanges
    PROVE  /\ WithQty(o, qty) \in Orders /\ Adds(WithQty(o, qty))
           /\ WithQty(o, qty).version = o.version + 1 /\ WithQty(o, qty).status = o.status
<1> DEFINE left == IF o.qty = 0 THEN 0 ELSE qty
<1>1. left \in 0..MaxQty /\ Total(left, o.discount, 0) \in Nat
  BY TotalIsNat, CartConstants DEF Orders
<1>2. NoQuote \in Quotes /\ o.version + 1 \in 0..CartChanges
  BY CartConstants DEF Quotes, NoQuote, Orders
<1>3. WithQty(o, qty) \in Orders
  BY <1>1, <1>2 DEF Orders, WithQty
<1>4. Adds(WithQty(o, qty)) /\ WithQty(o, qty).version = o.version + 1 /\ WithQty(o, qty).status = o.status
  BY DEF Orders, WithQty, Adds
<1>5. QED
  BY <1>3, <1>4

LEMMA BuildPatchAdds ==
    ASSUME NEW o \in Orders, Adds(o), NEW p \in PatchSet, o.version < CartChanges,
           p.courier /\ o.qty > 0 => p.place # 0
    PROVE  /\ BuildPatch(o, p) \in Orders /\ Adds(BuildPatch(o, p))
           /\ BuildPatch(o, p).qty = o.qty /\ BuildPatch(o, p).status = o.status
           /\ BuildPatch(o, p).version = o.version + 1
<1> DEFINE place == IF p.place = 0 THEN o.place ELSE p.place
           quote == IF p.courier /\ o.qty > 0 THEN <<place, o.qty>>
                    ELSE IF p.courier \/ place = o.place THEN o.quote ELSE NoQuote
           promo == IF p.promo = "keep" THEN o.promo ELSE p.promo = "apply"
           less  == IF p.promo = "keep" THEN o.discount
                    ELSE IF p.promo = "apply" /\ o.qty > 0 THEN Discount ELSE 0
           cost  == IF quote = NoQuote THEN 0 ELSE Rate(quote)
<1>1. place \in Places \cup {0} /\ (p.courier /\ o.qty > 0 => place # 0)
  BY DEF Orders, PatchSet
<1>2. quote \in Quotes
  BY <1>1, CartConstants DEF Orders, Quotes, NoQuote
<1>3. quote # NoQuote => quote = <<place, o.qty>> /\ o.qty > 0
  <2>1. o.quote # NoQuote => o.quote = <<o.place, o.qty>> /\ o.qty > 0
    BY DEF Adds
  <2>2. CASE p.courier /\ o.qty > 0
    BY <2>2
  <2>3. CASE ~(p.courier /\ o.qty > 0) /\ place = o.place
    BY <2>1, <2>3
  <2>4. CASE ~(p.courier /\ o.qty > 0) /\ place # o.place
    BY <2>1, <2>4
  <2>5. QED
    BY <2>2, <2>3, <2>4
<1>4. promo \in BOOLEAN /\ less \in {0, Discount}
  BY DEF Orders, PatchSet
<1>5. cost \in Nat
  BY <1>2, RateIsNat
<1>6. Total(o.qty, less, cost) \in Nat
  BY <1>4, <1>5, TotalIsNat DEF Orders
<1>7. BuildPatch(o, p) = [qty |-> o.qty, place |-> place, courier |-> (quote # NoQuote), quote |-> quote,
                          shipping |-> cost, promo |-> promo, discount |-> less,
                          total |-> Total(o.qty, less, cost),
                          version |-> o.version + 1, status |-> o.status]
  BY DEF BuildPatch
<1> HIDE DEF place, quote, promo, less, cost
<1>8. BuildPatch(o, p) \in Orders
  <2>1. o.version + 1 \in 0..CartChanges /\ (quote # NoQuote) \in BOOLEAN
    BY CartConstants DEF Orders
  <2>2. QED
    BY <1>1, <1>2, <1>4, <1>5, <1>6, <1>7, <2>1 DEF Orders
<1>9. /\ BuildPatch(o, p).place = place /\ BuildPatch(o, p).quote = quote
      /\ BuildPatch(o, p).shipping = cost /\ BuildPatch(o, p).courier = (quote # NoQuote)
      /\ BuildPatch(o, p).discount = less /\ BuildPatch(o, p).total = Total(o.qty, less, cost)
      /\ BuildPatch(o, p).version = o.version + 1
      /\ BuildPatch(o, p).qty = o.qty /\ BuildPatch(o, p).status = o.status
  BY <1>7 DEF Orders
<1>10. cost = (IF quote # NoQuote THEN Rate(quote) ELSE 0)
  BY DEF cost
<1>11. Adds(BuildPatch(o, p))
  BY <1>3, <1>9, <1>10 DEF Adds
<1>12. QED
  BY <1>8, <1>9, <1>11

\* A step that leaves the order alone, and the patches that are priced.
LEMMA OrderKeptInv ==
    ASSUME CartInv, CartTypes', order' = order,
           \A p \in Patches : patch'[p].step = "priced" => patch'[p] = patch[p]
    PROVE  CartInv'
BY DEF CartInv, Adds, PricedRight, Unmoved

\* A step that changes the order's row: every patch priced before has lost.
LEMMA OrderMovedInv ==
    ASSUME CartInv, CartTypes', Adds(order'), order'.version = order.version + 1,
           order'.status = "cart",
           \A p \in Patches : patch'[p].step = "priced" => patch'[p] = patch[p]
    PROVE  CartInv'
<1>1. ASSUME NEW p \in Patches PROVE PricedRight(p)'
  <2>1. CASE patch'[p].step # "priced"
    BY <2>1 DEF PricedRight
  <2>2. CASE patch'[p].step = "priced"
    <3>1. PricedRight(p) /\ patch'[p] = patch[p] /\ patch[p].step = "priced"
      BY <2>2 DEF CartInv
    <3>2. order.version \in Nat /\ patch[p].next.version \in Nat
      BY <3>1, CartConstants DEF CartInv, CartTypes, Orders, PricedRight
    <3>3. QED
      BY <3>1, <3>2 DEF PricedRight, Unmoved
  <2>3. QED
    BY <2>1, <2>2
<1>2. QED
  BY <1>1 DEF CartInv, Adds

\* A patch's steps.
LEMMA PatchKeeps ==
    ASSUME CartInv, NEW p \in Patches, PricePatch(p) \/ PatchWritten(p) \/ PatchAgain(p) \/ PatchFails(p)
    PROVE  CartInv'
<1> USE DEF addressUnchanged
<1>1. CartTypes /\ patch[p] \in PatchSet /\ order \in Orders
  BY DEF CartInv, CartTypes
<1>2. CASE PricePatch(p)
  <2>1. /\ BuildPatch(order, patch[p]) \in Orders /\ Adds(BuildPatch(order, patch[p]))
        /\ BuildPatch(order, patch[p]).qty = order.qty /\ BuildPatch(order, patch[p]).status = order.status
        /\ BuildPatch(order, patch[p]).version = order.version + 1
    BY <1>1, <1>2, BuildPatchAdds DEF CartInv, PricePatch
  <2>2. /\ patch'[p] = [patch[p] EXCEPT !.step = "priced", !.next = BuildPatch(order, patch[p])]
        /\ \A q \in Patches : q # p => patch'[q] = patch[q]
        /\ order' = order /\ order.status = "cart"
    BY <1>1, <1>2 DEF PricePatch, CartTypes
  <2>3. patch' \in [Patches -> PatchSet]
    BY <1>1, <1>2, <2>1 DEF PricePatch, CartTypes, PatchSet
  <2>4. CartTypes'
    BY <1>1, <1>2, <2>3 DEF PricePatch, CartTypes
  <2>5. PricedRight(p)'
    <3>1. patch'[p].next = BuildPatch(order, patch[p])
      BY <1>1, <2>2 DEF PatchSet
    <3>2. order.version + 1 \in Nat
      BY <1>1, CartConstants DEF Orders
    <3>3. QED
      BY <2>1, <2>2, <3>1, <3>2 DEF PricedRight
  <2>6. ASSUME NEW q \in Patches, q # p PROVE PricedRight(q)'
    BY <2>2, <2>6 DEF CartInv, PricedRight, Unmoved
  <2>7. QED
    BY <2>2, <2>4, <2>5, <2>6 DEF CartInv, Adds
<1>3. CASE PatchWritten(p)
  <2>1. /\ patch[p].next \in Orders /\ Adds(patch[p].next) /\ patch[p].next.status = "cart"
        /\ patch[p].next.qty = order.qty /\ patch[p].next.version = order.version + 1
    BY <1>3 DEF CartInv, PatchWritten, PricedRight, Unmoved
  <2>2. order' = Patched(order, patch[p].next)
    BY <1>3 DEF PatchWritten
  <2>3. order' = patch[p].next
    BY <2>1, <2>2 DEF Patched, Orders
  <2>4. patch' = [patch EXCEPT ![p] = IdlePatch]
    BY <1>3 DEF PatchWritten
  <2>5. CartTypes'
    BY <1>1, <1>3, <2>1, <2>3, <2>4, IdlePatchFits DEF PatchWritten, CartTypes
  <2>6. \A q \in Patches : patch'[q].step = "priced" => patch'[q] = patch[q]
    BY <1>1, <2>4 DEF IdlePatch, CartTypes
  <2>7. QED
    BY <2>1, <2>3, <2>5, <2>6, OrderMovedInv
<1>4. CASE PatchAgain(p)
  <2>1. patch' = [patch EXCEPT ![p] = Asked(patch[p].place, patch[p].courier, patch[p].promo, 1)]
    BY <1>4 DEF PatchAgain
  <2>2. Asked(patch[p].place, patch[p].courier, patch[p].promo, 1) \in PatchSet
    BY <1>1 DEF Asked, PatchSet
  <2>3. CartTypes' /\ order' = order
    BY <1>1, <1>4, <2>1, <2>2 DEF PatchAgain, CartTypes
  <2>4. \A q \in Patches : patch'[q].step = "priced" => patch'[q] = patch[q]
    BY <1>1, <2>1 DEF CartTypes, Asked
  <2>5. QED
    BY <2>3, <2>4, OrderKeptInv
<1>5. CASE PatchFails(p)
  <2>1. patch' = [patch EXCEPT ![p] = IdlePatch]
    BY <1>5 DEF PatchFails
  <2>2. CartTypes' /\ order' = order
    BY <1>1, <1>5, <2>1, IdlePatchFits DEF PatchFails, CartTypes
  <2>3. \A q \in Patches : patch'[q].step = "priced" => patch'[q] = patch[q]
    BY <1>1, <2>1 DEF IdlePatch, CartTypes
  <2>4. QED
    BY <2>2, <2>3, OrderKeptInv
<1>6. QED
  BY <1>2, <1>3, <1>4, <1>5

\* A request that leaves the page has nothing priced yet.
LEMMA SendPatchFits ==
    ASSUME CartTypes, NEW courier \in BOOLEAN, NEW promo \in {"keep", "apply", "clear"},
           SendPatch(courier, promo)
    PROVE  /\ patch' \in [Patches -> PatchSet]
           /\ \A q \in Patches : patch'[q].step = "priced" => patch'[q] = patch[q]
<1>1. PICK p \in Patches : patch' = [patch EXCEPT ![p] = Asked(address, courier, promo, 0)]
  BY DEF SendPatch
<1>2. Asked(address, courier, promo, 0) \in PatchSet /\ Asked(address, courier, promo, 0).step = "sent"
  BY DEF PatchSet, Asked, CartTypes
<1>3. QED
  BY <1>1, <1>2 DEF CartTypes

\* The page's own steps.
LEMMA PageKeeps ==
    ASSUME CartInv,
           \/ CartArrives \/ SeedAddress \/ OpenAddress \/ SaveAddress
           \/ \E place \in Places \cup {0} : EditAddress(place)
           \/ CheckShipping \/ SelectCourier \/ \E qty \in 0..MaxQty : ChangeQty(qty)
           \/ ApplyPromo \/ ClearPromo \/ PressCheckout \/ UNCHANGED cartVars
    PROVE  CartInv'
<1> USE DEF addressUnchanged
<1>1. CartTypes
  BY DEF CartInv
<1>2. CASE CartArrives
  <2>1. CartOf(order) \in CartCopies
    BY <1>1 DEF CartTypes, CartOf, Orders, CartCopies
  <2>2. QED
    BY <1>1, <1>2, <2>1, OrderKeptInv DEF CartArrives, CartTypes
<1>3. CASE SeedAddress
  BY <1>1, <1>3, OrderKeptInv DEF SeedAddress, CartTypes, CartCopies
<1>4. CASE OpenAddress
  BY <1>1, <1>4, OrderKeptInv DEF OpenAddress, CartTypes
<1>5. CASE SaveAddress
  BY <1>1, <1>5, SendPatchFits, OrderKeptInv DEF SaveAddress, CartTypes
<1>6. ASSUME NEW place \in Places \cup {0}, EditAddress(place) PROVE CartInv'
  BY <1>1, <1>6, OrderKeptInv DEF EditAddress, CartTypes
<1>7. CASE CheckShipping
  BY <1>1, <1>7, OrderKeptInv DEF CheckShipping, CartTypes
<1>8. CASE SelectCourier
  BY <1>1, <1>8, SendPatchFits, OrderKeptInv DEF SelectCourier, CartTypes
<1>9. ASSUME NEW qty \in 0..MaxQty, ChangeQty(qty) PROVE CartInv'
  BY <1>1, <1>9, NotAskedFits, OrderKeptInv DEF ChangeQty, CartTypes
<1>10. CASE ApplyPromo
  BY <1>1, <1>10, SendPatchFits, OrderKeptInv DEF ApplyPromo, CartTypes
<1>11. CASE ClearPromo
  BY <1>1, <1>11, SendPatchFits, OrderKeptInv DEF ClearPromo, CartTypes
<1>12. CASE PressCheckout
  BY <1>1, <1>12, OrderKeptInv DEF PressCheckout, CartTypes
<1>13. CASE UNCHANGED cartVars
  BY <1>1, <1>13, OrderKeptInv DEF cartVars, CartTypes
<1>14. QED
  BY <1>2, <1>3, <1>4, <1>5, <1>6, <1>7, <1>8, <1>9, <1>10, <1>11, <1>12, <1>13

LEMMA QtyKeeps == ASSUME CartInv, QtyAnswered PROVE CartInv'
<1> USE DEF addressUnchanged
<1>1. CartTypes /\ order \in Orders /\ NotAsked \in 0..NotAsked
  BY NotAskedFits DEF CartInv, CartTypes
<1>2. CASE /\ order.status = "cart" /\ order.version < CartChanges
           /\ order' = WithQty(order, qtySent) /\ cartDue' = TRUE
  <2>1. qtySent \in 0..MaxQty
    BY <1>1, CartConstants DEF QtyAnswered, CartTypes, NotAsked
  <2>2. /\ order' \in Orders /\ Adds(order') /\ order'.version = order.version + 1
        /\ order'.status = "cart"
    BY <1>1, <1>2, <2>1, WithQtyAdds
  <2>3. CartTypes'
    BY <1>1, <1>2, <2>2 DEF QtyAnswered, CartTypes
  <2>4. QED
    BY <2>2, <2>3, OrderMovedInv DEF QtyAnswered
<1>3. CASE UNCHANGED <<order, cartDue>>
  BY <1>1, <1>3, OrderKeptInv DEF QtyAnswered, CartTypes
<1>4. QED
  BY <1>2, <1>3 DEF QtyAnswered

LEMMA CheckoutKeeps == ASSUME CartInv, CheckedOut PROVE CartInv'
<1> USE DEF addressUnchanged
<1>1. CartTypes /\ order \in Orders
  BY DEF CartInv, CartTypes
<1>2. CASE /\ order.status = "cart" /\ order.qty > 0 /\ order.courier /\ order.shipping > 0
           /\ order' = [order EXCEPT !.status = "payment_pending"] /\ cartDue' = TRUE
  <2>1. order' \in Orders
    BY <1>1, <1>2 DEF Orders
  <2>2. /\ order'.qty = order.qty /\ order'.place = order.place /\ order'.courier = order.courier
        /\ order'.quote = order.quote /\ order'.shipping = order.shipping /\ order'.discount = order.discount
        /\ order'.total = order.total /\ order'.version = order.version
    BY <1>1, <1>2 DEF Orders
  <2>3. CartTypes'
    BY <1>1, <1>2, <2>1 DEF CheckedOut, CartTypes
  <2>4. Adds(order') /\ (\A p \in Patches : PricedRight(p)')
    BY <2>2 DEF CheckedOut, CartInv, Adds, PricedRight, Unmoved
  <2>5. QED
    BY <1>2, <2>2, <2>3, <2>4 DEF CartInv, Adds
<1>3. CASE UNCHANGED <<order, cartDue>>
  BY <1>1, <1>3, OrderKeptInv DEF CheckedOut, CartTypes
<1>4. QED
  BY <1>2, <1>3 DEF CheckedOut

LEMMA CartStep == ASSUME CartInv, [CartNext]_cartVars PROVE CartInv'
BY PatchKeeps, PageKeeps, QtyKeeps, CheckoutKeeps DEF CartNext

LEMMA CartInvCharged == ASSUME CartInv PROVE ChargedForThisCart
BY DEF CartInv, Adds, ChargedForThisCart

\* The types of the cart's variables.
THEOREM CartTypesHold == CartSpec => []CartTypeOK
<1>1. CartInit => CartInv
  BY CartInitInv
<1>2. CartInv /\ [CartNext]_cartVars => CartInv'
  BY CartStep
<1>3. CartInv => CartTypeOK
  BY CartTypesOK DEF CartInv
<1>4. QED
  BY <1>1, <1>2, <1>3, PTL DEF CartSpec

\* An order is charged for the destination, quantity, courier and promo it has,
\* however many changes of them overlapped.
THEOREM ChargedForThisOrder == CartSpec => []ChargedForThisCart
<1>1. CartInit => CartInv
  BY CartInitInv
<1>2. CartInv /\ [CartNext]_cartVars => CartInv'
  BY CartStep
<1>3. CartInv => ChargedForThisCart
  BY CartInvCharged
<1>4. QED
  BY <1>1, <1>2, <1>3, PTL DEF CartSpec

-------------------------------------------------------------------------------
(***************************************************************************)
(* The course video                                                        *)
(***************************************************************************)

PlayerRecords  == [state : States \cup {"none"}, rest : States, muted : BOOLEAN, volume : Volumes]
ControlRecords == [ready : BOOLEAN, started : BOOLEAN, playing : BOOLEAN, muted : BOOLEAN,
                   volume : Volumes, fallback : BOOLEAN, unplayable : BOOLEAN]

VideoTypes ==
    /\ lessonsDone \in SUBSET Lessons /\ doneSeen \in SUBSET Lessons
    /\ activeLesson \in Lessons \cup {0} /\ completing \in Lessons \cup {0}
    /\ youtubeApi \in {"none", "loading", "ready"} /\ making \in BOOLEAN /\ mountShown \in BOOLEAN
    /\ player \in PlayerRecords /\ controls \in ControlRecords
    /\ playerSays \in Seq(Events) /\ Len(playerSays) <= EventsBound

\* There is no player before the continuation has run, and none after a failure;
\* what the controls show of the sound is the player's.
OnePlayer ==
    /\ making => player = NoPlayer /\ controls = Fresh
    /\ player.state = "none" => player = NoPlayer
    /\ player = NoPlayer => playerSays = <<>>
    /\ controls.unplayable \/ controls.fallback => player = NoPlayer /\ ~making
    /\ player # NoPlayer => controls.muted = player.muted /\ controls.volume = player.volume

\* What the player is, or falls back to when it only buffers.
Still    == IF player.state = "buffering" THEN player.rest ELSE player.state
Unplayed == {"unstarted", "ended"}

\* A video that does not play yet, or no more, has told so, or is behind the gate:
\* the word that it has ended is on its way behind every word that it plays.
GateWillClose ==
    Still \in Unplayed =>
        /\ controls.started => \E j \in DOMAIN playerSays : playerSays[j] = "ended"
        /\ \A k \in DOMAIN playerSays :
              playerSays[k] = "playing" => \E j \in DOMAIN playerSays : j > k /\ playerSays[j] = "ended"

VideoInv == VideoTypes /\ OnePlayer /\ GateWillClose

LEMMA VideoInvTypes == ASSUME VideoInv PROVE VideoTypeOK
BY DEF VideoInv, VideoTypes, VideoTypeOK, PlayerRecords, ControlRecords

LEMMA VideoInvCovers == ASSUME VideoInv PROVE GateCoversUnplayed
<1>1. ASSUME playerSays = <<>>, Still \in Unplayed PROVE ~ controls.started
  <2>1. DOMAIN playerSays = {}
    BY <1>1
  <2>2. QED
    BY <1>1, <2>1 DEF VideoInv, GateWillClose
<1>2. QED
  BY <1>1 DEF VideoInv, OnePlayer, GateCoversUnplayed, Still, Unplayed

LEMMA VideoConstantsHold == EventsBound \in Nat /\ 1 <= EventsBound /\ Lessons \in SUBSET Nat /\ 0 \notin Lessons /\ 1 \in Lessons
BY VideoConstants

LEMMA VideoRecords ==
    /\ NoPlayer \in PlayerRecords /\ NewPlayer \in PlayerRecords /\ NewPlayer # NoPlayer /\ Fresh \in ControlRecords
    /\ NoPlayer.state = "none" /\ NewPlayer.state = "unstarted"
    /\ NewPlayer.muted = FALSE /\ NewPlayer.volume = 100 /\ Fresh.muted = FALSE /\ Fresh.volume = 100
    /\ ~ Fresh.started /\ ~ Fresh.unplayable /\ ~ Fresh.fallback
<1>1. 100 \in Volumes
  BY DEF Volumes
<1>2. /\ NoPlayer \in [state : States \cup {"none"}, rest : States, muted : BOOLEAN, volume : Volumes]
      /\ NoPlayer.state = "none" /\ NoPlayer.muted = FALSE /\ NoPlayer.volume = 100
  BY <1>1 DEF NoPlayer, States
<1>3. NoPlayer \in PlayerRecords
  BY <1>2 DEF PlayerRecords
<1>4. NewPlayer \in PlayerRecords /\ NewPlayer.state = "unstarted" /\ NewPlayer.muted = FALSE /\ NewPlayer.volume = 100
  BY <1>2 DEF PlayerRecords, NewPlayer, States
<1>5. /\ Fresh \in ControlRecords /\ Fresh.muted = FALSE /\ Fresh.volume = 100
      /\ ~ Fresh.started /\ ~ Fresh.unplayable /\ ~ Fresh.fallback
  BY <1>1 DEF Fresh, ControlRecords
<1>6. QED
  BY <1>2, <1>3, <1>4, <1>5

\* The lesson shown is the one chosen, or the first that is open, or the first.
LEMMA ActiveLessonIsOne ==
    ASSUME NEW chosen \in Lessons \cup {0}, NEW seen \in SUBSET Lessons PROVE ActiveLesson(chosen, seen) \in Lessons
<1> DEFINE among == IF Lessons \ seen = {} THEN Lessons ELSE Lessons \ seen
<1>1. among \in SUBSET Nat /\ among # {} /\ among \in SUBSET Lessons
  BY VideoConstantsHold
<1>2. PICK x \in among : \A y \in among : ~ (<<y, x>> \in OpToRel(<, Nat))
  BY <1>1, NatLessThanWellFounded, WFMin
<1>3. \A y \in among : ~ (y < x)
  BY <1>1, <1>2 DEF OpToRel
<1>4. \E l \in among : \A k \in among : l <= k
  BY <1>1, <1>3
<1>5. ActiveLesson(chosen, seen) = (IF chosen # 0 THEN chosen ELSE CHOOSE l \in among : \A k \in among : l <= k)
  BY DEF ActiveLesson
<1> HIDE DEF among
<1>6. QED
  BY <1>1, <1>4, <1>5

LEMMA VideoInitInv == ASSUME VideoInit PROVE VideoInv
<1>1. /\ lessonsDone = {} /\ doneSeen = {} /\ activeLesson = 0 /\ completing = 0
      /\ youtubeApi = "loading" /\ making = TRUE /\ mountShown = TRUE
      /\ player = NoPlayer /\ playerSays = <<>> /\ controls = Fresh
  BY DEF VideoInit
<1>2. <<>> \in Seq(Events) /\ Len(<<>>) <= EventsBound
  BY VideoConstantsHold
<1>3. VideoTypes
  BY <1>1, <1>2, VideoRecords DEF VideoTypes
<1>4. OnePlayer
  BY <1>1, VideoRecords DEF OnePlayer
<1>5. Still \notin Unplayed
  BY <1>1, VideoRecords DEF Still, Unplayed
<1>6. QED
  BY <1>3, <1>4, <1>5 DEF VideoInv, GateWillClose

\* The page changes and the player does not, or goes with its video.
LEMMA LessonShown ==
    ASSUME VideoInv, NEW chosen \in Lessons \cup {0}, NEW seen \in SUBSET Lessons, ShowLesson(chosen, seen),
           lessonsDone' = lessonsDone, completing' = completing
    PROVE  VideoInv'
<1> DEFINE video == VideoOf[ActiveLesson(chosen, seen)]
<1>1. activeLesson' = chosen /\ doneSeen' = seen /\ (SwitchVideo(video) \/ playerUnchanged)
  BY DEF ShowLesson
<1>2. VideoTypes
  BY DEF VideoInv
<1>3. CASE playerUnchanged
  BY <1>1, <1>3 DEF playerUnchanged, VideoInv, VideoTypes, OnePlayer, GateWillClose, Still
<1>4. CASE SwitchVideo(video)
  <2>1. /\ player' = NoPlayer /\ playerSays' = <<>> /\ controls' = Fresh
        /\ making' \in BOOLEAN /\ mountShown' \in BOOLEAN /\ youtubeApi' \in {"none", "loading", "ready"}
    BY <1>2, <1>4 DEF SwitchVideo, VideoTypes
  <2>2. <<>> \in Seq(Events) /\ Len(<<>>) <= EventsBound
    BY VideoConstantsHold
  <2>3. VideoTypes'
    BY <1>1, <1>2, <2>1, <2>2, VideoRecords DEF VideoTypes
  <2>4. OnePlayer'
    BY <2>1, VideoRecords DEF OnePlayer
  <2>5. GateWillClose'
    BY <2>1, VideoRecords DEF GateWillClose, Still, Unplayed
  <2>6. QED
    BY <2>3, <2>4, <2>5 DEF VideoInv
<1>5. QED
  BY <1>1, <1>3, <1>4

\* A step of the player that says what it has become: the gate keeps its promise if
\* it ends, or keeps being or having been what it was, without beginning to play.
LEMMA PlayerGoes ==
    ASSUME VideoInv, NEW state \in States, NEW rest \in States, Goes(state, rest), player # NoPlayer,
           UNCHANGED <<courseVars, youtubeApi, making, mountShown, controls>>,
           \/ state = "ended"
           \/ (IF state = "buffering" THEN rest ELSE state) \notin Unplayed
           \/ state # "playing" /\ (IF state = "buffering" THEN rest ELSE state) = Still
    PROVE  VideoInv'
<1> DEFINE n == Len(playerSays)
<1>1. /\ n < EventsBound /\ player' = [player EXCEPT !.state = state, !.rest = rest]
      /\ playerSays' = Append(playerSays, state)
      /\ lessonsDone' = lessonsDone /\ doneSeen' = doneSeen /\ activeLesson' = activeLesson
      /\ completing' = completing /\ youtubeApi' = youtubeApi /\ making' = making
      /\ mountShown' = mountShown /\ controls' = controls
  BY DEF Goes, courseVars
<1>2. VideoTypes /\ OnePlayer /\ GateWillClose
  BY DEF VideoInv
<1>3. /\ playerSays \in Seq(Events) /\ n \in Nat /\ DOMAIN playerSays = 1..n /\ state \in Events
      /\ EventsBound \in Nat
  BY <1>2, VideoConstantsHold DEF VideoTypes, Events
<1>4. /\ playerSays' \in Seq(Events) /\ Len(playerSays') = n + 1 /\ DOMAIN playerSays' = 1..(n + 1)
      /\ \A k \in 1..n : playerSays'[k] = playerSays[k] /\ k \in 1..(n + 1)
      /\ playerSays'[n + 1] = state /\ n + 1 \in 1..(n + 1)
      /\ \A k \in 1..(n + 1) : k \in 1..n \/ k = n + 1
      /\ \A k \in 1..n : k < n + 1
  BY <1>1, <1>3
<1>5. /\ player' \in PlayerRecords /\ player'.state = state /\ player'.rest = rest
      /\ player'.muted = player.muted /\ player'.volume = player.volume
  BY <1>1, <1>2 DEF VideoTypes, PlayerRecords
<1>6. player' # NoPlayer /\ player'.state # "none"
  BY <1>5, VideoRecords DEF States
<1> HIDE DEF n
<1>7. VideoTypes'
  BY <1>1, <1>2, <1>3, <1>4, <1>5 DEF VideoTypes
<1>8. OnePlayer'
  BY <1>1, <1>2, <1>5, <1>6 DEF OnePlayer
<1>9. GateWillClose'
  <2>1. CASE state = "ended"
    <3>1. \A k \in 1..(n + 1) : playerSays'[k] = "playing" => n + 1 > k
      BY <1>3, <1>4, <2>1
    <3>2. QED
      BY <1>4, <2>1, <3>1 DEF GateWillClose
  <2>2. CASE (IF state = "buffering" THEN rest ELSE state) \notin Unplayed
    BY <1>5, <2>2 DEF GateWillClose, Still
  <2>3. CASE state # "playing" /\ (IF state = "buffering" THEN rest ELSE state) = Still
    <3>1. Still' = Still
      BY <1>5, <2>3 DEF Still
    <3>2. SUFFICES ASSUME Still \in Unplayed
                   PROVE  /\ controls.started => \E j \in 1..(n + 1) : playerSays'[j] = "ended"
                          /\ \A k \in 1..(n + 1) : playerSays'[k] = "playing" =>
                                \E j \in 1..(n + 1) : j > k /\ playerSays'[j] = "ended"
      BY <1>1, <1>4, <3>1 DEF GateWillClose
    <3>3. controls.started => \E j \in 1..(n + 1) : playerSays'[j] = "ended"
      BY <1>2, <1>3, <1>4, <3>2 DEF GateWillClose
    <3>4. ASSUME NEW k \in 1..(n + 1), playerSays'[k] = "playing"
          PROVE  \E j \in 1..(n + 1) : j > k /\ playerSays'[j] = "ended"
      <4>1. k \in 1..n /\ playerSays[k] = "playing"
        BY <1>4, <2>3, <3>4
      <4>2. QED
        BY <1>2, <1>3, <1>4, <3>2, <4>1 DEF GateWillClose
    <3>5. QED
      BY <3>3, <3>4
  <2>4. QED
    BY <2>1, <2>2, <2>3
<1>10. QED
  BY <1>7, <1>8, <1>9 DEF VideoInv

LEMMA PlayerStays ==
    ASSUME VideoInv, UNCHANGED <<courseVars, youtubeApi, making, mountShown, controls, player, playerSays>>
    PROVE  VideoInv'
BY DEF courseVars, VideoInv, VideoTypes, OnePlayer, GateWillClose, Still

LEMMA PlayerTypes ==
    ASSUME VideoInv
    PROVE  /\ player.state \in States \cup {"none"} /\ player.rest \in States
           /\ player.state # "none" => player # NoPlayer
BY VideoRecords DEF VideoInv, VideoTypes, PlayerRecords

LEMMA Played ==
    ASSUME VideoInv, Plays, player # NoPlayer, UNCHANGED <<courseVars, youtubeApi, making, mountShown, controls>>
    PROVE  VideoInv'
<1>1. CASE player.state \in {"unstarted", "paused", "ended"}
  <2>1. Goes("buffering", player.state) /\ player.state \in States /\ "buffering" \in States /\ player.state = Still
    BY <1>1 DEF Plays, States, Still
  <2>2. QED
    BY <2>1, PlayerGoes
<1>2. CASE player.state \notin {"unstarted", "paused", "ended"}
  BY <1>2, PlayerStays DEF Plays
<1>3. QED
  BY <1>1, <1>2

LEMMA PlayerMoved == ASSUME VideoInv, PlayerMoves PROVE VideoInv'
<1>1. UNCHANGED <<courseVars, youtubeApi, making, mountShown, controls>>
  BY DEF PlayerMoves
<1>2. CASE player.state = "buffering" /\ \E s \in {"playing", player.rest} : Goes(s, player.rest)
  <2>1. PICK s \in {"playing", player.rest} : Goes(s, player.rest)
    BY <1>2
  <2>2. /\ s \in States /\ player.rest \in States /\ player # NoPlayer /\ player.rest = Still
    BY <1>2, PlayerTypes DEF States, Still
  <2>3. \/ (IF s = "buffering" THEN player.rest ELSE s) \notin Unplayed
        \/ s # "playing" /\ (IF s = "buffering" THEN player.rest ELSE s) = Still
    BY <2>2 DEF Unplayed
  <2>4. QED
    BY <1>1, <2>1, <2>2, <2>3, PlayerGoes
<1>3. CASE player.state = "playing" /\ (Goes("ended", "ended") \/ Goes("buffering", "paused"))
  <2>1. player # NoPlayer /\ {"ended", "buffering", "paused"} \subseteq States
    BY <1>3, PlayerTypes DEF States
  <2>2. "paused" \notin Unplayed
    BY DEF Unplayed
  <2>3. QED
    BY <1>1, <1>3, <2>1, <2>2, PlayerGoes
<1>4. QED
  BY <1>2, <1>3 DEF PlayerMoves

\* The controls that only ask the player.
LEMMA PlayerAsked == ASSUME VideoInv, StartPlayback \/ TogglePlay \/ SeekTo PROVE VideoInv'
<1>1. UNCHANGED <<courseVars, youtubeApi, making, mountShown, controls>>
  BY DEF StartPlayback, TogglePlay, SeekTo, controlsStay
<1>2. "paused" \in States /\ "buffering" \in States /\ "ended" \in States /\ "paused" \notin Unplayed
  BY DEF States, Unplayed
<1>3. CASE Plays /\ player # NoPlayer
  BY <1>1, <1>3, Played
<1>4. CASE UNCHANGED <<player, playerSays>>
  BY <1>1, <1>4, PlayerStays
<1>5. CASE Goes("paused", "paused") /\ player # NoPlayer
  BY <1>1, <1>2, <1>5, PlayerGoes
<1>6. CASE SeekTo /\ player.state # "paused"
  <2>1. /\ player.state \in {"playing", "ended"} /\ player # NoPlayer
        /\ Goes("buffering", IF player.state = "ended" THEN "ended" ELSE "paused")
    BY <1>6, PlayerTypes DEF SeekTo
  <2>2. CASE player.state = "ended"
    <3>1. Goes("buffering", "ended") /\ Still = "ended"
      BY <2>1, <2>2 DEF Still
    <3>2. QED
      BY <1>1, <1>2, <2>1, <3>1, PlayerGoes
  <2>3. CASE player.state # "ended"
    <3>1. Goes("buffering", "paused")
      BY <2>1, <2>3
    <3>2. QED
      BY <1>1, <1>2, <2>1, <3>1, PlayerGoes
  <2>4. QED
    BY <2>2, <2>3
<1>7. QED
  BY <1>3, <1>4, <1>5, <1>6 DEF StartPlayback, TogglePlay, SeekTo

\* The player fails and says so; an event arrives.
LEMMA PlayerErred == ASSUME VideoInv, PlayerErrs PROVE VideoInv'
<1> DEFINE n == Len(playerSays)
<1>1. /\ player.state \in {"unstarted", "buffering"} /\ n < EventsBound /\ playerSays' = Append(playerSays, "error")
      /\ lessonsDone' = lessonsDone /\ doneSeen' = doneSeen /\ activeLesson' = activeLesson
      /\ completing' = completing /\ youtubeApi' = youtubeApi /\ making' = making
      /\ mountShown' = mountShown /\ player' = player /\ controls' = controls
  BY DEF PlayerErrs, courseVars
<1>2. VideoTypes /\ OnePlayer /\ GateWillClose /\ player # NoPlayer
  BY <1>1, PlayerTypes DEF VideoInv
<1>3. /\ playerSays \in Seq(Events) /\ n \in Nat /\ DOMAIN playerSays = 1..n /\ "error" \in Events
      /\ EventsBound \in Nat
  BY <1>2, VideoConstantsHold DEF VideoTypes, Events
<1>4. /\ playerSays' \in Seq(Events) /\ Len(playerSays') = n + 1 /\ DOMAIN playerSays' = 1..(n + 1)
      /\ \A k \in 1..n : playerSays'[k] = playerSays[k] /\ k \in 1..(n + 1)
      /\ playerSays'[n + 1] = "error"
      /\ \A k \in 1..(n + 1) : k \in 1..n \/ k = n + 1
  BY <1>1, <1>3
<1> HIDE DEF n
<1>5. VideoTypes'
  BY <1>1, <1>2, <1>3, <1>4 DEF VideoTypes
<1>6. OnePlayer'
  BY <1>1, <1>2 DEF OnePlayer
<1>7. GateWillClose'
  <2>1. Still' = Still
    BY <1>1 DEF Still
  <2>2. SUFFICES ASSUME Still \in Unplayed
                 PROVE  /\ controls.started => \E j \in 1..(n + 1) : playerSays'[j] = "ended"
                        /\ \A k \in 1..(n + 1) : playerSays'[k] = "playing" =>
                              \E j \in 1..(n + 1) : j > k /\ playerSays'[j] = "ended"
    BY <1>1, <1>4, <2>1 DEF GateWillClose
  <2>3. controls.started => \E j \in 1..(n + 1) : playerSays'[j] = "ended"
    BY <1>2, <1>3, <1>4, <2>2 DEF GateWillClose
  <2>4. ASSUME NEW k \in 1..(n + 1), playerSays'[k] = "playing"
        PROVE  \E j \in 1..(n + 1) : j > k /\ playerSays'[j] = "ended"
    <3>1. k \in 1..n /\ playerSays[k] = "playing"
      BY <1>4, <2>4
    <3>2. QED
      BY <1>2, <1>3, <1>4, <2>2, <3>1 DEF GateWillClose
  <2>5. QED
    BY <2>3, <2>4
<1>8. QED
  BY <1>5, <1>6, <1>7 DEF VideoInv

LEMMA EventHandled == ASSUME VideoInv, EventArrives PROVE VideoInv'
<1> DEFINE n == Len(playerSays)
           e == Head(playerSays)
<1>1. /\ playerSays # <<>>
      /\ lessonsDone' = lessonsDone /\ doneSeen' = doneSeen /\ activeLesson' = activeLesson
      /\ completing' = completing /\ youtubeApi' = youtubeApi /\ making' = making
  BY DEF EventArrives, courseVars
<1>2. VideoTypes /\ OnePlayer /\ GateWillClose /\ player # NoPlayer /\ ~ making
  BY <1>1 DEF VideoInv, OnePlayer
<1>3. /\ playerSays \in Seq(Events) /\ n \in Nat /\ n >= 1 /\ n <= EventsBound /\ DOMAIN playerSays = 1..n
      /\ EventsBound \in Nat /\ e = playerSays[1] /\ e \in Events
  BY <1>1, <1>2, VideoConstantsHold DEF VideoTypes
<1>4. CASE e = "error"
  <2>1. /\ player' = NoPlayer /\ playerSays' = <<>> /\ mountShown' = FALSE
        /\ controls' = [controls EXCEPT !.unplayable = TRUE]
    BY <1>4 DEF EventArrives
  <2>2. controls' \in ControlRecords
    BY <1>2, <2>1 DEF VideoTypes, ControlRecords
  <2>3. <<>> \in Seq(Events) /\ Len(<<>>) <= EventsBound
    BY VideoConstantsHold
  <2>4. VideoTypes'
    BY <1>1, <1>2, <2>1, <2>2, <2>3, VideoRecords DEF VideoTypes
  <2>5. OnePlayer'
    BY <1>1, <1>2, <2>1 DEF OnePlayer
  <2>6. GateWillClose'
    BY <2>1, VideoRecords DEF GateWillClose, Still, Unplayed
  <2>7. QED
    BY <2>4, <2>5, <2>6 DEF VideoInv
<1>5. CASE e # "error"
  <2>1. /\ playerSays' = Tail(playerSays) /\ player' = player /\ mountShown' = mountShown
        /\ controls' = IF e = "ready" THEN [controls EXCEPT !.ready = TRUE]
                       ELSE [controls EXCEPT !.playing = (e = "playing"),
                                 !.started = e = "playing" \/ (@ /\ e # "ended")]
    BY <1>5 DEF EventArrives
  <2>2. /\ controls' \in ControlRecords /\ controls'.muted = controls.muted /\ controls'.volume = controls.volume
        /\ controls'.unplayable = controls.unplayable /\ controls'.fallback = controls.fallback
    <3>1. CASE e = "ready"
      BY <1>2, <2>1, <3>1 DEF VideoTypes, ControlRecords
    <3>2. CASE e # "ready"
      BY <1>2, <2>1, <3>2 DEF VideoTypes, ControlRecords
    <3>3. QED
      BY <3>1, <3>2
  <2>3. controls'.started => e = "playing" \/ (controls.started /\ e # "ended")
    <3>1. CASE e = "ready"
      BY <1>2, <2>1, <3>1 DEF VideoTypes, ControlRecords
    <3>2. CASE e # "ready"
      BY <1>2, <2>1, <3>2 DEF VideoTypes, ControlRecords
    <3>3. QED
      BY <3>1, <3>2
  <2>4. /\ playerSays' \in Seq(Events) /\ Len(playerSays') = n - 1 /\ DOMAIN playerSays' = 1..(n - 1)
        /\ \A k \in 1..(n - 1) : playerSays'[k] = playerSays[k + 1] /\ k + 1 \in 1..n
    BY <1>1, <1>3, <2>1
  <2>5. \A j \in 1..n : j > 1 => j - 1 \in 1..(n - 1) /\ playerSays'[j - 1] = playerSays[j]
    <3>1. ASSUME NEW j \in 1..n, j > 1 PROVE j - 1 \in 1..(n - 1) /\ (j - 1) + 1 = j
      BY <1>3, <3>1
    <3>2. QED
      BY <2>4, <3>1
  <2> HIDE DEF n, e
  <2>6. VideoTypes'
    <3>1. n - 1 <= EventsBound
      BY <1>3
    <3>2. QED
      BY <1>1, <1>2, <2>1, <2>2, <2>4, <3>1 DEF VideoTypes
  <2>7. OnePlayer'
    BY <1>1, <1>2, <2>1, <2>2 DEF OnePlayer
  <2>8. GateWillClose'
    <3>1. Still' = Still
      BY <2>1 DEF Still
    <3>2. SUFFICES ASSUME Still \in Unplayed
                   PROVE  /\ controls'.started => \E j \in 1..(n - 1) : playerSays'[j] = "ended"
                          /\ \A k \in 1..(n - 1) : playerSays'[k] = "playing" =>
                                \E j \in 1..(n - 1) : j > k /\ playerSays'[j] = "ended"
      BY <2>4, <3>1 DEF GateWillClose
    <3>3. /\ controls.started => \E j \in 1..n : playerSays[j] = "ended"
          /\ \A k \in 1..n : playerSays[k] = "playing" => \E j \in 1..n : j > k /\ playerSays[j] = "ended"
      BY <1>2, <1>3, <3>2 DEF GateWillClose
    <3>4. ASSUME controls'.started PROVE \E j \in 1..(n - 1) : playerSays'[j] = "ended"
      <4>1. \E j \in 1..n : j > 1 /\ playerSays[j] = "ended"
        <5>1. CASE e = "playing"
          <6>1. 1 \in 1..n /\ playerSays[1] = "playing"
            BY <1>3, <5>1
          <6>2. QED
            BY <3>3, <6>1
        <5>2. CASE controls.started /\ e # "ended"
          <6>1. PICK j \in 1..n : playerSays[j] = "ended"
            BY <3>3, <5>2
          <6>2. j > 1
            BY <1>3, <5>2, <6>1
          <6>3. QED
            BY <6>1, <6>2
        <5>3. QED
          BY <2>3, <3>4, <5>1, <5>2
      <4>2. QED
        BY <2>5, <4>1
    <3>5. ASSUME NEW k \in 1..(n - 1), playerSays'[k] = "playing"
          PROVE  \E j \in 1..(n - 1) : j > k /\ playerSays'[j] = "ended"
      <4>1. k + 1 \in 1..n /\ playerSays[k + 1] = "playing"
        BY <2>4, <3>5
      <4>2. PICK j \in 1..n : j > k + 1 /\ playerSays[j] = "ended"
        BY <3>3, <4>1
      <4>3. j > 1 /\ j - 1 > k
        BY <1>3, <4>1, <4>2
      <4>4. QED
        BY <2>5, <4>2, <4>3
    <3>6. QED
      BY <3>4, <3>5
  <2>9. QED
    BY <2>6, <2>7, <2>8 DEF VideoInv
<1>6. QED
  BY <1>4, <1>5

\* The controls of the sound set the player's with their own.
LEMMA SoundSet == ASSUME VideoInv, ToggleMute \/ \E v \in Volumes : ChangeVolume(v) PROVE VideoInv'
<1>1. /\ player # NoPlayer /\ controls.started /\ playerSays' = playerSays
      /\ lessonsDone' = lessonsDone /\ doneSeen' = doneSeen /\ activeLesson' = activeLesson
      /\ completing' = completing /\ youtubeApi' = youtubeApi /\ making' = making /\ mountShown' = mountShown
  BY DEF ToggleMute, ChangeVolume, controlsStay, courseVars
<1>2. VideoTypes /\ OnePlayer /\ GateWillClose
  BY DEF VideoInv
<1>3. player \in PlayerRecords /\ controls \in ControlRecords /\ 100 \in Volumes
      /\ controls.muted = player.muted /\ controls.volume = player.volume
      /\ ~ controls.unplayable /\ ~ controls.fallback
  BY <1>1, <1>2 DEF VideoTypes, OnePlayer, Volumes, ControlRecords
<1>4. \E m \in BOOLEAN, v \in Volumes :
         /\ player' = [player EXCEPT !.muted = m, !.volume = v]
         /\ controls' = [controls EXCEPT !.muted = m, !.volume = v]
  <2>1. CASE ToggleMute
    <3> DEFINE volume == IF controls.muted /\ controls.volume = 0 THEN 100 ELSE controls.volume
    <3>1. /\ player' = [player EXCEPT !.muted = ~controls.muted, !.volume = IF controls.muted THEN volume ELSE player.volume]
          /\ controls' = [controls EXCEPT !.muted = ~controls.muted, !.volume = volume]
      BY <1>3, <2>1 DEF ToggleMute, PlayerRecords, ControlRecords
    <3>2. (~controls.muted) \in BOOLEAN /\ volume \in Volumes /\ (IF controls.muted THEN volume ELSE player.volume) = volume
      BY <1>3 DEF ControlRecords
    <3> HIDE DEF volume
    <3>3. QED
      BY <3>1, <3>2
  <2>2. CASE \E v \in Volumes : ChangeVolume(v)
    <3>1. PICK v \in Volumes : /\ player' = [player EXCEPT !.volume = v, !.muted = (v = 0)]
                               /\ controls' = [controls EXCEPT !.volume = v, !.muted = (v = 0)]
      BY <2>2 DEF ChangeVolume
    <3>2. /\ [player EXCEPT !.volume = v, !.muted = (v = 0)] = [player EXCEPT !.muted = (v = 0), !.volume = v]
          /\ [controls EXCEPT !.volume = v, !.muted = (v = 0)] = [controls EXCEPT !.muted = (v = 0), !.volume = v]
      BY <1>3 DEF PlayerRecords, ControlRecords
    <3>3. QED
      BY <3>1, <3>2
  <2>3. QED
    BY <2>1, <2>2
<1>5. PICK m \in BOOLEAN, v \in Volumes :
         /\ player' = [player EXCEPT !.muted = m, !.volume = v]
         /\ controls' = [controls EXCEPT !.muted = m, !.volume = v]
  BY <1>4
<1>6. /\ player' \in PlayerRecords /\ player'.state = player.state /\ player'.rest = player.rest
      /\ player'.muted = m /\ player'.volume = v
  BY <1>3, <1>5 DEF PlayerRecords
<1>7. /\ controls' \in ControlRecords /\ controls'.started = controls.started
      /\ controls'.muted = m /\ controls'.volume = v
      /\ controls'.unplayable = controls.unplayable /\ controls'.fallback = controls.fallback
  BY <1>3, <1>5 DEF ControlRecords
<1>8. VideoTypes'
  BY <1>1, <1>2, <1>6, <1>7 DEF VideoTypes
<1>9. OnePlayer'
  <2>1. ~ making
    BY <1>1, <1>2 DEF OnePlayer
  <2>2. player'.state # "none" /\ player' # NoPlayer
    BY <1>1, <1>2, <1>6, VideoRecords DEF OnePlayer
  <2>3. QED
    BY <1>1, <1>3, <1>6, <1>7, <2>1, <2>2 DEF OnePlayer
<1>10. GateWillClose'
  BY <1>1, <1>2, <1>6, <1>7 DEF GateWillClose, Still
<1>11. QED
  BY <1>8, <1>9, <1>10 DEF VideoInv

\* The continuation of the effect, the script, the mount element.
LEMMA PlayerMade == ASSUME VideoInv, MakePlayer PROVE VideoInv'
<1>1. /\ making /\ making' = FALSE
      /\ lessonsDone' = lessonsDone /\ doneSeen' = doneSeen /\ activeLesson' = activeLesson
      /\ completing' = completing /\ youtubeApi' = youtubeApi /\ mountShown' = mountShown /\ controls' = controls
      /\ \/ player' = NewPlayer /\ playerSays' = <<"ready">>
         \/ player' = player /\ playerSays' = playerSays
  BY DEF MakePlayer, courseVars
<1>2. VideoTypes /\ OnePlayer /\ player = NoPlayer /\ controls = Fresh /\ playerSays = <<>>
  BY <1>1 DEF VideoInv, OnePlayer
<1>3. CASE player' = NewPlayer /\ playerSays' = <<"ready">>
  <2>1. "ready" \in Events
    BY DEF Events
  <2>2. playerSays' \in Seq(Events) /\ Len(playerSays') <= EventsBound
    BY <1>3, <2>1, VideoConstantsHold
  <2>3. VideoTypes'
    BY <1>1, <1>2, <1>3, <2>2, VideoRecords DEF VideoTypes
  <2>4. OnePlayer'
    BY <1>1, <1>2, <1>3, VideoRecords DEF OnePlayer
  <2>5. \A k \in DOMAIN playerSays' : playerSays'[k] # "playing"
    BY <1>3
  <2>6. GateWillClose'
    BY <1>1, <1>2, <2>5, VideoRecords DEF GateWillClose
  <2>7. QED
    BY <2>3, <2>4, <2>6 DEF VideoInv
<1>4. CASE player' = player /\ playerSays' = playerSays
  <2>1. VideoTypes' /\ OnePlayer'
    BY <1>1, <1>2, <1>4 DEF VideoTypes, OnePlayer
  <2>2. GateWillClose'
    BY <1>2, <1>4, VideoRecords DEF GateWillClose, Still, Unplayed
  <2>3. QED
    BY <2>1, <2>2 DEF VideoInv
<1>5. QED
  BY <1>1, <1>3, <1>4

LEMMA ScriptFailed == ASSUME VideoInv, ApiFails PROVE VideoInv'
<1>1. /\ youtubeApi' = "none" /\ making' = FALSE
      /\ lessonsDone' = lessonsDone /\ doneSeen' = doneSeen /\ activeLesson' = activeLesson
      /\ completing' = completing /\ player' = player /\ playerSays' = playerSays
      /\ IF making THEN mountShown' = FALSE /\ controls' = [controls EXCEPT !.fallback = TRUE]
         ELSE mountShown' = mountShown /\ controls' = controls
  BY DEF ApiFails, courseVars
<1>2. VideoTypes /\ OnePlayer /\ GateWillClose
  BY DEF VideoInv
<1>3. CASE making
  <2>1. /\ player = NoPlayer /\ mountShown' = FALSE /\ controls' \in ControlRecords
    BY <1>1, <1>2, <1>3 DEF OnePlayer, VideoTypes, ControlRecords
  <2>2. VideoTypes'
    BY <1>1, <1>2, <2>1 DEF VideoTypes
  <2>3. OnePlayer'
    BY <1>1, <1>2, <2>1 DEF OnePlayer
  <2>4. GateWillClose'
    BY <1>1, <2>1, VideoRecords DEF GateWillClose, Still, Unplayed
  <2>5. QED
    BY <2>2, <2>3, <2>4 DEF VideoInv
<1>4. CASE ~ making
  BY <1>1, <1>2, <1>4 DEF VideoInv, VideoTypes, OnePlayer, GateWillClose, Still
<1>5. QED
  BY <1>3, <1>4

LEMMA PageAround == ASSUME VideoInv, Rerender \/ ApiLoads \/ PressComplete \/ Completed PROVE VideoInv'
<1>1. /\ player' = player /\ playerSays' = playerSays /\ controls' = controls /\ making' = making
      /\ doneSeen' = doneSeen /\ activeLesson' = activeLesson
      /\ mountShown' \in {mountShown, TRUE} /\ youtubeApi' \in {youtubeApi, "ready"}
  BY DEF Rerender, ApiLoads, PressComplete, Completed, courseVars, playerUnchanged
<1>2. VideoTypes /\ OnePlayer /\ GateWillClose
  BY DEF VideoInv
<1>3. lessonsDone' \in SUBSET Lessons /\ completing' \in Lessons \cup {0}
  <2>1. CASE Rerender \/ ApiLoads
    BY <1>2, <2>1 DEF Rerender, ApiLoads, courseVars, VideoTypes
  <2>2. CASE PressComplete
    BY <1>2, <2>2, ActiveLessonIsOne DEF PressComplete, VideoTypes
  <2>3. CASE Completed
    BY <1>2, <2>3 DEF Completed, VideoTypes
  <2>4. QED
    BY <2>1, <2>2, <2>3
<1>4. VideoTypes'
  BY <1>1, <1>2, <1>3 DEF VideoTypes
<1>5. QED
  BY <1>1, <1>2, <1>4 DEF VideoInv, OnePlayer, GateWillClose, Still

LEMMA VideoStep == ASSUME VideoInv, [VideoNext]_videoVars PROVE VideoInv'
<1>1. VideoTypes
  BY DEF VideoInv
<1>2. ASSUME NEW l \in Lessons, SelectLesson(l) PROVE VideoInv'
  BY <1>1, <1>2, LessonShown DEF SelectLesson, VideoTypes
<1>3. CASE CourseArrives
  BY <1>1, <1>3, LessonShown DEF CourseArrives, VideoTypes
<1>4. CASE Rerender \/ ApiLoads \/ PressComplete \/ Completed
  BY <1>4, PageAround
<1>5. CASE ApiFails
  BY <1>5, ScriptFailed
<1>6. CASE MakePlayer
  BY <1>6, PlayerMade
<1>7. CASE PlayerMoves
  BY <1>7, PlayerMoved
<1>8. CASE PlayerErrs
  BY <1>8, PlayerErred
<1>9. CASE EventArrives
  BY <1>9, EventHandled
<1>10. CASE StartPlayback \/ TogglePlay \/ SeekTo
  BY <1>10, PlayerAsked
<1>11. CASE ToggleMute \/ \E v \in Volumes : ChangeVolume(v)
  BY <1>11, SoundSet
<1>12. CASE UNCHANGED videoVars
  BY <1>12, PlayerStays DEF videoVars, courseVars
<1>13. QED
  BY <1>2, <1>3, <1>4, <1>5, <1>6, <1>7, <1>8, <1>9, <1>10, <1>11, <1>12 DEF VideoNext

LEMMA VideoInvHolds == VideoSpec => []VideoInv
<1>1. VideoInit => VideoInv
  BY VideoInitInv
<1>2. VideoInv /\ [VideoNext]_videoVars => VideoInv'
  BY VideoStep
<1>3. QED
  BY <1>1, <1>2, PTL DEF VideoSpec

\* The lesson to complete is always one of the course, the player's events wait in a bounded line
\* and the controls keep their shape.
THEOREM VideoTypesHold == VideoSpec => []VideoTypeOK
<1>1. VideoInv => VideoTypeOK
  BY VideoInvTypes
<1>2. QED
  BY <1>1, VideoInvHolds, PTL

\* With any lessons and videos, however many of the player's events are still on their way: once
\* they have been handled a video that has not begun, or has ended, is behind the gate, a player
\* that failed is gone, and the sound the controls show is the player's.
THEOREM UnplayedIsCovered == VideoSpec => []GateCoversUnplayed
<1>1. VideoInv => GateCoversUnplayed
  BY VideoInvCovers
<1>2. QED
  BY <1>1, VideoInvHolds, PTL

-------------------------------------------------------------------------------
(***************************************************************************)
(* The profile                                                             *)
(***************************************************************************)

ProfileTypes ==
    /\ profile \in Profiles /\ profileSeen \in Profiles /\ fields \in Filled
    /\ profileDue \in BOOLEAN /\ editMode \in BOOLEAN /\ photoUploading \in BOOLEAN
    /\ passwordOpen \in BOOLEAN /\ passwordSaving \in BOOLEAN
    /\ DOMAIN typed \subseteq FieldNames /\ \A f \in DOMAIN typed : typed[f] \in Contents \cup {""}
    /\ typedCount \in 0..TypedBound /\ syncedVersion \in Versions \cup {0}
    /\ profileSaving \in Savings \cup {NotSaving}

\* Versions only grow, and a version names one profile.
VersionsAgree ==
    /\ syncedVersion <= profileSeen.version /\ profileSeen.version <= profile.version
    /\ profileSeen.version = profile.version => profileSeen = profile
    /\ ~profileDue => profileSeen = profile

\* A form nobody edits shows the version it was filled from, if that is the
\* profile's; what is typed stays until the edit ends.
FormFilled ==
    /\ ~editMode /\ syncedVersion = profile.version => fields = profile.values
    /\ ~editMode /\ ~profileDue => fields = profile.values
    /\ editMode => \A f \in DOMAIN typed : fields[f] = typed[f]

ProfileInv == ProfileTypes /\ VersionsAgree /\ FormFilled

LEMMA ProfileBounds == ProfileChanges \in Nat /\ TypedBound \in Nat
BY ProfileConstants

LEMMA OneMoreTyped ==
    ASSUME NEW n \in 0..TypedBound, n < TypedBound PROVE n + 1 \in 0..TypedBound
<1>1. TypedBound \in Nat
  BY ProfileBounds
<1>2. QED
  BY ONLY <1>1, n \in 0..TypedBound, n < TypedBound

LEMMA VersionsAreNat == ASSUME NEW v \in Versions \cup {0} PROVE v \in Nat
BY ProfileBounds DEF Versions

LEMMA ProfileHas ==
    ASSUME NEW p \in Profiles
    PROVE  p.values \in Filled /\ p.version \in Versions /\ p.version \in Nat
BY VersionsAreNat DEF Profiles

LEMMA ProfileInitInv == ASSUME ProfileInit PROVE ProfileInv
<1>1. profile \in Profiles /\ profile.version = 1 /\ 1 \in Versions
  <2>1. SomeContent \in Contents
    BY ProfileConstants DEF SomeContent
  <2>2. 1 \in Versions
    BY ProfileBounds DEF Versions
  <2>3. [f \in FieldNames |-> IF f = "name" THEN SomeContent ELSE ""] \in Filled
    BY <2>1 DEF Filled
  <2>4. QED
    BY <2>2, <2>3 DEF Profiles, ProfileInit
<1>2. ProfileTypes
  <2>0. typedCount = 0
    BY DEF ProfileInit
  <2>1. typedCount \in 0..TypedBound
    BY <2>0, ProfileBounds
  <2>2. DOMAIN typed \subseteq FieldNames /\ \A f \in DOMAIN typed : typed[f] \in Contents \cup {""}
    BY DEF ProfileInit, NoFields
  <2>3. fields \in Filled
    BY <1>1, ProfileHas DEF ProfileInit
  <2>4. QED
    BY <1>1, <2>1, <2>2, <2>3 DEF ProfileTypes, ProfileInit
<1>3. VersionsAgree
  <2>1. profileSeen = profile /\ syncedVersion = 1
    BY DEF ProfileInit
  <2>2. QED
    BY <1>1, <2>1 DEF VersionsAgree
<1>4. FormFilled
  BY DEF FormFilled, ProfileInit
<1>5. QED
  BY <1>2, <1>3, <1>4 DEF ProfileInv

\* The effect fills a form nobody edits from newer data, and leaves the types alone.
LEMMA SyncFits ==
    ASSUME NEW seen \in Profiles, NEW editing \in BOOLEAN, NEW current \in Filled,
           syncedVersion \in Versions \cup {0}, SyncFields(seen, editing, current)
    PROVE  /\ fields' \in Filled /\ syncedVersion' \in Versions \cup {0}
           /\ ~editing => syncedVersion' = seen.version
           /\ editing => fields' = current /\ syncedVersion' = syncedVersion
           /\ ~editing /\ syncedVersion # seen.version => fields' = seen.values
           /\ ~editing /\ syncedVersion = seen.version => fields' = current
BY ProfileHas DEF SyncFields

LEMMA NewVersionFits ==
    ASSUME ProfileTypes, NEW values \in Filled, NewVersion(values)
    PROVE  /\ profile' \in Profiles /\ profile'.values = values
           /\ profile'.version = profile.version + 1
<1>1. profile.version \in Nat /\ profile.version <= ProfileChanges
  BY ProfileHas DEF ProfileTypes, NewVersion
<1>2. profile.version + 1 \in Versions
  BY <1>1, ProfileBounds DEF Versions
<1>3. QED
  BY <1>2 DEF NewVersion, Profiles

\* Whoever changes the profile makes a version that no form was filled from.
LEMMA NewVersionKeeps ==
    ASSUME ProfileInv, NEW values \in Filled, NewVersion(values), profileDue' = TRUE,
           profileSeen' = profileSeen, fields' \in Filled, editMode' \in BOOLEAN,
           \/ syncedVersion' = syncedVersion
           \/ syncedVersion' = profileSeen.version,
           DOMAIN typed' \subseteq FieldNames,
           \A f \in DOMAIN typed' : typed'[f] \in Contents \cup {""},
           editMode' => \A f \in DOMAIN typed' : fields'[f] = typed'[f],
           typedCount' = typedCount, profileSaving' \in {profileSaving, NotSaving},
           photoUploading' \in BOOLEAN, passwordOpen' \in BOOLEAN, passwordSaving' \in BOOLEAN
    PROVE  ProfileInv'
<1>1. profile' \in Profiles /\ profile'.version = profile.version + 1
  BY NewVersionFits DEF ProfileInv
<1>2. /\ profile.version \in Nat /\ profileSeen.version \in Nat /\ syncedVersion \in Nat
      /\ profileSeen.version \in Versions
  BY ProfileHas, VersionsAreNat DEF ProfileInv, ProfileTypes
<1>3. ProfileTypes'
  BY <1>1, <1>2 DEF ProfileInv, ProfileTypes
<1>4. /\ syncedVersion <= profileSeen.version /\ profileSeen.version <= profile.version
      /\ profileSeen'.version = profileSeen.version /\ ~(~profileDue')
  BY DEF ProfileInv, VersionsAgree
<1>9. syncedVersion' = syncedVersion \/ syncedVersion' = profileSeen.version
  OBVIOUS
<1>10. syncedVersion' <= profileSeen.version /\ syncedVersion' \in Nat
  BY ONLY <1>2, <1>4, <1>9
<1>11. /\ profileSeen'.version <= profile'.version /\ profileSeen'.version # profile'.version
       /\ syncedVersion' # profile'.version /\ syncedVersion' <= profileSeen'.version
  BY ONLY <1>1, <1>2, <1>4, <1>10
<1>5. VersionsAgree'
  BY <1>4, <1>11 DEF VersionsAgree
<1>6. syncedVersion' # profile'.version
  BY <1>11
<1>7. FormFilled'
  BY <1>6 DEF FormFilled
<1>8. QED
  BY <1>3, <1>5, <1>7 DEF ProfileInv

LEMMA ProfileStep == ASSUME ProfileInv, [ProfileNext]_profileVars PROVE ProfileInv'
<1> USE DEF ProfileInv
<1>0. /\ profile.version \in Nat /\ profileSeen.version \in Nat /\ syncedVersion \in Nat
      /\ profile.version \in Versions /\ profile.values \in Filled /\ profileSeen.values \in Filled
      /\ profileSeen.version \in Versions
  BY ProfileHas, VersionsAreNat DEF ProfileTypes
<1>1. CASE ProfileArrives
  <2>1. SyncFields(profile, editMode, fields) /\ UNCHANGED <<profile, editMode, typed>>
        /\ profileSeen' = profile /\ profileDue' = FALSE
    BY <1>1 DEF ProfileArrives
  <2>2. /\ fields' \in Filled /\ syncedVersion' \in Versions \cup {0}
        /\ ~editMode => syncedVersion' = profile.version
        /\ editMode => fields' = fields /\ syncedVersion' = syncedVersion
        /\ ~editMode /\ syncedVersion # profile.version => fields' = profile.values
        /\ ~editMode /\ syncedVersion = profile.version => fields' = fields
    BY <2>1, SyncFits DEF ProfileTypes
  <2>3. ProfileTypes'
    BY <1>1, <2>1, <2>2 DEF ProfileTypes, ProfileArrives
  <2>4. VersionsAgree'
    BY <1>0, <2>1, <2>2 DEF VersionsAgree
  <2>5. FormFilled'
    BY <2>1, <2>2 DEF FormFilled
  <2>6. QED
    BY <2>3, <2>4, <2>5
<1>2. CASE StartEdit
  <2>1. DOMAIN typed' = {} /\ editMode' = TRUE
    BY <1>2 DEF StartEdit, NoFields
  <2>2. ProfileTypes' /\ VersionsAgree'
    BY <1>2, <2>1 DEF StartEdit, ProfileTypes, VersionsAgree
  <2>3. FormFilled'
    BY <2>1 DEF FormFilled
  <2>4. QED
    BY <2>2, <2>3
<1>3. ASSUME NEW f \in FieldNames, NEW v \in Contents \cup {""}, SetField(f, v) PROVE ProfileInv'
  <2> DEFINE cleared == IF f = "provinsi" THEN {"kota"} ELSE {}
             changed == [g \in cleared \cup {f} |-> IF g = f THEN v ELSE ""]
  <2>1. /\ editMode /\ typedCount < TypedBound /\ typedCount' = typedCount + 1
        /\ fields' = [g \in FieldNames |-> IF g \in DOMAIN changed THEN changed[g] ELSE fields[g]]
        /\ typed'  = [g \in DOMAIN typed \cup DOMAIN changed |->
                        IF g \in DOMAIN changed THEN changed[g] ELSE typed[g]]
        /\ UNCHANGED <<profile, profileSeen, profileDue, editMode, syncedVersion, profileSaving,
                       photoUploading, passwordOpen, passwordSaving>>
    BY <1>3 DEF SetField
  <2>2. /\ DOMAIN changed \subseteq FieldNames
        /\ \A g \in DOMAIN changed : changed[g] \in Contents \cup {""}
    BY DEF FieldNames
  <2> HIDE DEF changed
  <2>3. fields' \in Filled
    BY <2>1, <2>2 DEF ProfileTypes, Filled
  <2>4. /\ DOMAIN typed' \subseteq FieldNames
        /\ \A g \in DOMAIN typed' : typed'[g] \in Contents \cup {""} /\ fields'[g] = typed'[g]
    BY <2>1, <2>2 DEF ProfileTypes, FormFilled
  <2>9. typedCount \in 0..TypedBound
    BY DEF ProfileTypes
  <2>10. typedCount < TypedBound /\ typedCount' = typedCount + 1
    BY <2>1
  <2>5. typedCount' \in 0..TypedBound
    BY <2>9, <2>10, OneMoreTyped
  <2>6. ProfileTypes' /\ VersionsAgree'
    BY <2>1, <2>3, <2>4, <2>5 DEF ProfileTypes, VersionsAgree
  <2>7. FormFilled'
    BY <2>1, <2>4 DEF FormFilled
  <2>8. QED
    BY <2>6, <2>7
<1>4. CASE CancelEdit
  <2>1. /\ SyncFields(profileSeen, FALSE, profileSeen.values) /\ UNCHANGED <<profile, profileSeen, profileDue>>
        /\ editMode' = FALSE /\ DOMAIN typed' = {}
    BY <1>4 DEF CancelEdit, NoFields
  <2>2. /\ fields' = profileSeen.values /\ syncedVersion' = profileSeen.version
    BY <1>0, <2>1, SyncFits DEF ProfileTypes
  <2>3. ProfileTypes'
    BY <1>0, <1>4, <2>1, <2>2 DEF ProfileTypes, CancelEdit
  <2>4. VersionsAgree'
    BY <1>0, <2>1, <2>2 DEF VersionsAgree
  <2>5. FormFilled'
    BY <2>1, <2>2 DEF FormFilled, VersionsAgree
  <2>6. QED
    BY <2>3, <2>4, <2>5
<1>5. CASE SaveProfile
  <2>1. profileSaving' \in Savings
    <3> DEFINE named == {g \in FieldNames : fields[g] # ""}
    <3>1. [f \in named |-> fields[f]] \in [named -> Contents]
      BY DEF ProfileTypes, Filled
    <3>2. named \in SUBSET FieldNames
      OBVIOUS
    <3>3. profileSaving' = [saving |-> TRUE, fields |-> [f \in named |-> fields[f]]]
      BY <1>5 DEF SaveProfile
    <3>4. QED
      BY <3>1, <3>2, <3>3 DEF Savings
  <2>2. QED
    BY <1>5, <2>1 DEF SaveProfile, ProfileTypes, VersionsAgree, FormFilled
<1>6. CASE ProfileSaved
  <2>1. /\ NewVersion(Overlaid(profile.values, profileSaving.fields))
        /\ SyncFields(profileSeen, FALSE, fields) /\ profileSeen' = profileSeen
        /\ editMode' = FALSE /\ DOMAIN typed' = {} /\ profileDue' = TRUE
        /\ profileSaving' = NotSaving /\ profileSaving \in Savings
        /\ UNCHANGED <<typedCount, photoUploading, passwordOpen, passwordSaving>>
    BY <1>6 DEF ProfileSaved, NoFields, ProfileTypes
  <2>2. Overlaid(profile.values, profileSaving.fields) \in Filled
    <3>1. PICK F \in SUBSET FieldNames : profileSaving.fields \in [F -> Contents]
      BY <2>1 DEF Savings
    <3>2. QED
      BY <1>0, <3>1 DEF Overlaid, Filled
  <2>3. fields' \in Filled /\ syncedVersion' = profileSeen.version
    BY <1>0, <2>1, SyncFits DEF ProfileTypes
  <2>4. QED
    BY <2>1, <2>2, <2>3, NewVersionKeeps DEF ProfileTypes
<1>7. CASE ProfileRefused \/ ChoosePhoto \/ OpenPassword \/ ClosePassword \/ SubmitPassword
           \/ PasswordAnswered
  <2>1. /\ UNCHANGED <<profile, profileSeen, profileDue, editMode, fields, typed, typedCount, syncedVersion>>
        /\ profileSaving' \in {profileSaving, NotSaving}
        /\ photoUploading' \in BOOLEAN /\ passwordOpen' \in BOOLEAN /\ passwordSaving' \in BOOLEAN
    BY <1>7 DEF ProfileRefused, ChoosePhoto, OpenPassword, ClosePassword, SubmitPassword,
                PasswordAnswered, ProfileTypes
  <2>2. ProfileTypes'
    BY <2>1 DEF ProfileTypes
  <2>3. VersionsAgree' /\ FormFilled'
    BY <2>1 DEF VersionsAgree, FormFilled
  <2>4. QED
    BY <2>2, <2>3
<1>8. CASE PhotoUploaded
  <2>1. CASE NewVersion(profile.values) /\ profileDue' = TRUE
    BY <1>0, <1>8, <2>1, NewVersionKeeps DEF PhotoUploaded, ProfileTypes, FormFilled
  <2>2. CASE UNCHANGED <<profile, profileDue>>
    BY <1>8, <2>2 DEF PhotoUploaded, ProfileTypes, VersionsAgree, FormFilled
  <2>3. QED
    BY <1>8, <2>1, <2>2 DEF PhotoUploaded
<1>9. ASSUME NEW F \in {{"name"}, {"provinsi", "kota"}}, NEW v \in Contents, OtherDevice(F, v)
      PROVE  ProfileInv'
  <2>1. [f \in FieldNames |-> IF f \in F THEN v ELSE profile.values[f]] \in Filled
    BY <1>0 DEF Filled
  <2>2. QED
    BY <1>9, <2>1, NewVersionKeeps DEF OtherDevice, ProfileTypes, FormFilled
<1>10. CASE UNCHANGED profileVars
  BY <1>10 DEF profileVars, ProfileTypes, VersionsAgree, FormFilled
<1>11. QED
  BY <1>1, <1>2, <1>3, <1>4, <1>5, <1>6, <1>7, <1>8, <1>9, <1>10 DEF ProfileNext

LEMMA ProfileInvTypes == ASSUME ProfileInv PROVE ProfileTypeOK
BY DEF ProfileInv, ProfileTypes, ProfileTypeOK

LEMMA ProfileInvForm == ASSUME ProfileInv PROVE FormFollowsProfile
BY DEF ProfileInv, VersionsAgree, FormFilled, FormFollowsProfile

\* The types of the profile page, for every set of contents.
THEOREM ProfileTypesHold == ProfileSpec => []ProfileTypeOK
<1>1. ProfileInit => ProfileInv
  BY ProfileInitInv
<1>2. ProfileInv /\ [ProfileNext]_profileVars => ProfileInv'
  BY ProfileStep
<1>3. ProfileInv => ProfileTypeOK
  BY ProfileInvTypes
<1>4. QED
  BY <1>1, <1>2, <1>3, PTL DEF ProfileSpec

\* However many versions arrive, nothing that was typed is changed while it is
\* being edited, and a form that is not edited shows the profile that was read.
THEOREM FormsFollowProfiles == ProfileSpec => []FormFollowsProfile
<1>1. ProfileInit => ProfileInv
  BY ProfileInitInv
<1>2. ProfileInv /\ [ProfileNext]_profileVars => ProfileInv'
  BY ProfileStep
<1>3. ProfileInv => FormFollowsProfile
  BY ProfileInvForm
<1>4. QED
  BY <1>1, <1>2, <1>3, PTL DEF ProfileSpec

-------------------------------------------------------------------------------
(***************************************************************************)
(* The curriculum of a course                                              *)
(***************************************************************************)

MoveSet == [stage : {"idle", "sent", "counted", "done"}, of : Nat, place : Nat, ids : Seq(Units),
            taken : SUBSET Units]

CurriculumTypes ==
    /\ There \subseteq Units
    /\ unitsShown \in Seq(Units) /\ OneEach(unitsShown)
    /\ DOMAIN asked = Kinds
    /\ asked["reorder"] \in MoveSet
    /\ OneEach(asked["reorder"].ids)

\* The units a move has reached are where it put them, as far as they are still
\* there and the other author has not moved them since.
MovedSoFar ==
    \A k \in DOMAIN asked["reorder"].ids :
        k < asked["reorder"].place /\ asked["reorder"].ids[k] \in There \ asked["reorder"].taken
            => position[asked["reorder"].ids[k]] = k - 1

CurriculumInv == CurriculumTypes /\ MovedSoFar

LEMMA UnitsNumbered == Units \subseteq Nat
BY CurriculumConstants

LEMMA NoUnits == <<>> \in Seq(Units) /\ DOMAIN <<>> = {} /\ OneEach(<<>>)
BY DEF OneEach

NewMoveSet == [stage : {"idle", "sent"}, of : Nat, place : {0, 1}, ids : Seq(Units),
               taken : SUBSET Units]

LEMMA NoAskFits ==
    /\ NoAsk \in NewMoveSet
    /\ NoAsk.stage = "idle" /\ NoAsk.ids = <<>>
<1>1. \A s \in Seq(Units), t \in SUBSET Units :
          [stage |-> "idle", of |-> 0, place |-> 0, ids |-> s, taken |-> t] \in NewMoveSet
  BY DEF NewMoveSet
<1>2. QED
  BY <1>1, NoUnits, Zenon DEF NoAsk

LEMMA ListsAreSeqs ==
    ASSUME NEW S \in SUBSET Units, NEW seq \in Lists(S) PROVE seq \in Seq(Units) /\ OneEach(seq)
<1>1. PICK n \in 0..Cardinality(S) : seq \in [1..n -> S]
  BY DEF Lists
<1>2. CASE n \in Nat
  BY <1>1, <1>2 DEF Lists
<1>3. CASE n \notin Nat
  BY <1>1, <1>3
<1>4. QED
  BY <1>2, <1>3

LEMMA CurriculumInitInv == ASSUME CurriculumInit PROVE CurriculumInv
<1>1. PICK n \in 0..Cardinality(Units) : /\ 1..n \subseteq Units /\ unitsShown = [i \in 1..n |-> i]
                                     /\ position = [u \in 1..n |-> u - 1]
  BY DEF CurriculumInit
<1>2. n \in Nat
  BY <1>1
<1>3. unitsShown \in Seq(Units) /\ OneEach(unitsShown)
  <2>1. unitsShown \in [1..n -> Units]
    BY <1>1
  <2>2. QED
    BY <1>1, <1>2, <2>1 DEF OneEach
<1>4. asked = [k \in Kinds |-> NoAsk] /\ asked["reorder"] = NoAsk
  BY DEF CurriculumInit, Kinds
<1>5. /\ asked["reorder"].ids = <<>> /\ asked["reorder"].stage = "idle"
      /\ asked["reorder"] \in MoveSet
  BY <1>4, NoAskFits DEF NewMoveSet, MoveSet
<1>6. DOMAIN asked["reorder"].ids = {} /\ OneEach(asked["reorder"].ids)
  BY <1>5, NoUnits
<1>7. CurriculumTypes
  BY <1>1, <1>3, <1>4, <1>5, <1>6 DEF CurriculumTypes, There
<1>8. MovedSoFar
  BY <1>6 DEF MovedSoFar
<1>9. QED
  BY <1>7, <1>8 DEF CurriculumInv

\* Steps that leave the move alone and put no unit of it elsewhere.
LEMMA MoveUndisturbed ==
    ASSUME CurriculumInv, DOMAIN asked' = Kinds,
           asked'["reorder"] = asked["reorder"],
           unitsShown' \in Seq(Units), OneEach(unitsShown'), There' \subseteq Units,
           \A u \in Present(asked["reorder"].ids) \cap There' : u \in There /\ position'[u] = position[u]
    PROVE  CurriculumInv'
<1>1. CurriculumTypes'
  BY DEF CurriculumInv, CurriculumTypes, OneEach
<1>2. MovedSoFar'
  BY DEF CurriculumInv, MovedSoFar, Present
<1>3. QED
  BY <1>1, <1>2 DEF CurriculumInv

LEMMA NoUnitMoved ==
    ASSUME CurriculumInv, DOMAIN asked' = Kinds, asked'["reorder"] = asked["reorder"],
           unitsShown' \in Seq(Units), OneEach(unitsShown'), position' = position
    PROVE  CurriculumInv'
BY MoveUndisturbed DEF There, CurriculumInv, CurriculumTypes

\* Nor does ending or beginning one.
LEMMA NoMove ==
    ASSUME CurriculumInv, DOMAIN asked' = Kinds, UNCHANGED <<unitsShown, position>>,
           asked'["reorder"] \in NewMoveSet,
           OneEach(asked'["reorder"].ids)
    PROVE  CurriculumInv'
<1>1. \A k \in DOMAIN asked'["reorder"].ids : k \in Nat /\ ~(k < asked'["reorder"].place)
  BY DEF NewMoveSet
<1>2. asked'["reorder"] \in MoveSet
  BY DEF NewMoveSet, MoveSet
<1>3. QED
  BY <1>1, <1>2 DEF CurriculumInv, CurriculumTypes, MovedSoFar, OneEach, There

LEMMA RowsExchanged ==
    ASSUME CurriculumTypes, NEW i \in 1..(Len(unitsShown) - 1)
    PROVE  LET moved == [unitsShown EXCEPT ![i] = unitsShown[i + 1], ![i + 1] = unitsShown[i]]
           IN  moved \in Seq(Units) /\ OneEach(moved)
<1> DEFINE once  == [unitsShown EXCEPT ![i] = unitsShown[i + 1]]
           moved == [once EXCEPT ![i + 1] = unitsShown[i]]
<1>1. /\ unitsShown \in Seq(Units) /\ i \in 1..Len(unitsShown) /\ i + 1 \in 1..Len(unitsShown)
      /\ DOMAIN unitsShown = 1..Len(unitsShown) /\ Len(unitsShown) \in Nat /\ i \in Nat
  BY DEF CurriculumTypes
<1>2. unitsShown[i] \in Units /\ unitsShown[i + 1] \in Units
  BY <1>1
<1>3. once \in Seq(Units) /\ Len(once) = Len(unitsShown)
  BY <1>1, <1>2, ExceptSeq
<1>4. moved \in Seq(Units) /\ Len(moved) = Len(unitsShown)
  BY <1>1, <1>2, <1>3, ExceptSeq
<1>5. OneEach(moved)
  <2> SUFFICES ASSUME NEW a \in 1..Len(unitsShown), NEW b \in 1..Len(unitsShown), moved[a] = moved[b]
               PROVE  a = b
    BY <1>1 DEF OneEach
  <2> DEFINE old(k) == IF k = i THEN i + 1 ELSE IF k = i + 1 THEN i ELSE k
  <2>1. \A k \in 1..Len(unitsShown) : moved[k] = unitsShown[old(k)] /\ old(k) \in 1..Len(unitsShown)
    BY <1>1
  <2>2. unitsShown[old(a)] = unitsShown[old(b)]
    BY <2>1
  <2>3. old(a) = old(b)
    BY <1>1, <2>1, <2>2 DEF CurriculumTypes, OneEach
  <2>4. QED
    BY <1>1, <2>3
<1>6. QED
  BY <1>4, <1>5

LEMMA CurriculumStep == ASSUME CurriculumInv, [CurriculumNext]_curriculumVars PROVE CurriculumInv'
<1>0. /\ CurriculumTypes /\ DOMAIN asked = Kinds /\ "reorder" \in Kinds /\ "add" \in Kinds
      /\ Units \subseteq Nat
      /\ unitsShown \in Seq(Units) /\ OneEach(unitsShown)
      /\ There \subseteq Units
  BY UnitsNumbered DEF CurriculumInv, CurriculumTypes, Kinds
<1>1. CASE StopEdit \/ OpenCreate \/ CloseCreate \/ (\E u \in Units : EditUnit(u))
           \/ UNCHANGED curriculumVars
  BY <1>0, <1>1, NoUnitMoved DEF StopEdit, OpenCreate, CloseCreate, EditUnit, curriculumVars
<1>2. CASE Rename \/ Add \/ (\E u \in Units : Delete(u))
  <2>1. UNCHANGED <<position, unitsShown>>
    BY <1>2 DEF Rename, Add, Delete
  <2>2. \E k \in {"rename", "add", "delete"} : \E r : asked' = [asked EXCEPT ![k] = r]
    BY <1>2 DEF Rename, Add, Delete, AskFor
  <2>3. QED
    BY <1>0, <2>1, <2>2, NoUnitMoved
<1>3. ASSUME NEW i \in 1..Cardinality(Units), Move(i) PROVE CurriculumInv'
  <2> DEFINE moved == [unitsShown EXCEPT ![i] = unitsShown[i + 1], ![i + 1] = unitsShown[i]]
             r == [stage |-> "sent", of |-> i, place |-> 1, ids |-> moved, taken |-> {}]
  <2>1. /\ i \in 1..(Len(unitsShown) - 1) /\ UNCHANGED <<position, unitsShown>>
        /\ asked' = [asked EXCEPT !["reorder"] = r]
    BY <1>3 DEF Move, AskFor
  <2>2. moved \in Seq(Units) /\ OneEach(moved)
    BY <1>0, <2>1, RowsExchanged
  <2>3. i \in Nat /\ asked'["reorder"] = r /\ DOMAIN asked' = Kinds
    BY <1>0, <2>1
  <2> HIDE DEF moved
  <2>4. r \in NewMoveSet /\ r.ids = moved
    BY <2>2, <2>3 DEF NewMoveSet
  <2> HIDE DEF r
  <2>5. QED
    BY <2>1, <2>2, <2>3, <2>4, NoMove
<1>4. ASSUME NEW kind \in Kinds, AskedDone(kind) \/ AskedFails(kind) PROVE CurriculumInv'
  <2>1. asked' = [asked EXCEPT ![kind] = NoAsk] /\ UNCHANGED <<position, unitsShown>>
    BY <1>4 DEF AskedDone, AskedFails
  <2>2. CASE kind = "reorder"
    <3>1. asked'["reorder"] = NoAsk /\ DOMAIN asked' = Kinds
      BY <1>0, <2>1, <2>2
    <3>2. QED
      BY <1>0, <2>1, <3>1, NoUnits, NoAskFits, NoMove
  <2>3. CASE kind # "reorder"
    BY <1>0, <2>1, <2>3, NoUnitMoved
  <2>4. QED
    BY <2>2, <2>3
<1>5. CASE UnitsArrive
  <2>1. PICK seq \in Lists(There) : unitsShown' = seq /\ UNCHANGED <<position, asked>>
    BY <1>5 DEF UnitsArrive
  <2>2. unitsShown' \in Seq(Units) /\ OneEach(unitsShown')
    BY <1>0, <2>1, ListsAreSeqs
  <2>3. QED
    BY <1>0, <2>1, <2>2, NoUnitMoved
<1>6. CASE CountUnits \/ RenameUnit
  <2>1. /\ \E k \in {"add", "rename"} : \E r : asked' = [asked EXCEPT ![k] = r]
        /\ UNCHANGED <<position, unitsShown>>
    BY <1>6 DEF CountUnits, RenameUnit, Stage
  <2>2. QED
    BY <1>0, <2>1, NoUnitMoved
<1>7. CASE InsertUnit
  <2>1. PICK u \in NewUnits : position' = Placed(u, asked["add"].place)
    BY <1>7 DEF InsertUnit
  <2>2. u \notin Present(asked["reorder"].ids) /\ u \in Units
    BY <2>1 DEF NewUnits
  <2>3. asked'["reorder"] = asked["reorder"] /\ DOMAIN asked' = Kinds /\ UNCHANGED unitsShown
    BY <1>0, <1>7 DEF InsertUnit, Stage
  <2>4. QED
    BY <1>0, <2>1, <2>2, <2>3, MoveUndisturbed DEF Placed, There, Present
<1>8. CASE DeleteUnit
  <2>1. asked'["reorder"] = asked["reorder"] /\ DOMAIN asked' = Kinds /\ UNCHANGED unitsShown
    BY <1>0, <1>8 DEF DeleteUnit, Stage
  <2>2. position' = Without(asked["delete"].of)
    BY <1>8 DEF DeleteUnit
  <2>3. QED
    BY <1>0, <2>1, <2>2, MoveUndisturbed DEF Without, There
<1>9. CASE MoveUnit
  <2> DEFINE r == asked["reorder"]
             u == r.ids[r.place]
  <2>1. /\ r.stage = "sent" /\ r.place <= Len(r.ids) /\ UNCHANGED unitsShown
        /\ position' = IF u \in There THEN Placed(u, r.place - 1) ELSE position
    BY <1>9 DEF MoveUnit
  <2>2. /\ r.ids \in Seq(Units) /\ r.place \in Nat /\ OneEach(r.ids) /\ Len(r.ids) \in Nat
        /\ DOMAIN r.ids = 1..Len(r.ids)
        /\ r \in MoveSet
    BY <1>0 DEF CurriculumTypes, MoveSet
  <2>3. /\ DOMAIN asked' = Kinds
        /\ asked'["reorder"] = [r EXCEPT !.place = r.place + 1,
                                         !.stage = IF r.place = Len(r.ids) THEN "done" ELSE "sent"]
    BY <1>0, <1>9 DEF MoveUnit
  <2>9. r.place + 1 \in Nat
    BY <2>2
  <2>4. /\ asked'["reorder"].ids = r.ids /\ asked'["reorder"].place = r.place + 1
        /\ asked'["reorder"].taken = r.taken /\ asked'["reorder"] \in MoveSet
    BY <2>2, <2>3, <2>9 DEF MoveSet
  <2>10. There' \subseteq Units
    BY <1>0, <2>1 DEF Placed, There
  <2>5. CurriculumTypes'
    BY <2>10, <1>0, <2>1, <2>2, <2>3, <2>4 DEF CurriculumTypes
  <2>7. MovedSoFar'
    <3> SUFFICES ASSUME NEW k \in 1..Len(r.ids), k < r.place + 1, r.ids[k] \in There' \ r.taken
                 PROVE  position'[r.ids[k]] = k - 1
      BY <2>2, <2>4 DEF MovedSoFar
    <3>1. CASE k = r.place
      BY <2>1, <2>2, <3>1 DEF Placed, There
    <3>2. CASE k # r.place
      <4>1. k < r.place /\ r.place \in DOMAIN r.ids
        BY <2>1, <2>2, <3>2
      <4>2. r.ids[k] # u
        BY <2>2, <4>1, <3>2 DEF OneEach
      <4>3. r.ids[k] \in There /\ position'[r.ids[k]] = position[r.ids[k]]
        BY <2>1, <4>2 DEF Placed, There
      <4>4. QED
        BY <2>2, <4>1, <4>3 DEF CurriculumInv, MovedSoFar
    <3>3. QED
      BY <3>1, <3>2
  <2>8. QED
    BY <2>5, <2>7 DEF CurriculumInv
<1>10. CASE OtherAuthor
  <2>1. UNCHANGED <<unitsShown, asked>>
    BY <1>10 DEF OtherAuthor
  <2>2. ASSUME NEW u \in NewUnits, position' = Placed(u, Cardinality(There)) PROVE CurriculumInv'
    <3>1. u \notin Present(asked["reorder"].ids) /\ u \in Units
      BY <2>2 DEF NewUnits
    <3>2. QED
      BY <1>0, <2>1, <2>2, <3>1, MoveUndisturbed DEF Placed, There, Present
  <2>3. ASSUME NEW u \in There, position' = Without(u) PROVE CurriculumInv'
    BY <1>0, <2>1, <2>3, MoveUndisturbed DEF Without, There
  <2>4. QED
    BY <1>10, <2>2, <2>3 DEF OtherAuthor
<1>11. CASE OtherMoves
  <2> DEFINE r == asked["reorder"]
  <2>1. PICK u \in There, p \in 0..(Cardinality(Units) - 1) :
            /\ position' = Placed(u, p)
            /\ asked' = [asked EXCEPT !["reorder"].taken = @ \cup ({u} \cap Written(r))]
    BY <1>11 DEF OtherMoves
  <2>2. UNCHANGED unitsShown
    BY <1>11 DEF OtherMoves
  <2>3. r \in MoveSet /\ OneEach(r.ids) /\ u \in Units
    BY <1>0 DEF CurriculumTypes
  <2>4. DOMAIN asked' = Kinds /\ asked'["reorder"] = [r EXCEPT !.taken = @ \cup ({u} \cap Written(r))]
    BY <1>0, <2>1
  <2>5. /\ asked'["reorder"].ids = r.ids /\ asked'["reorder"].place = r.place
        /\ asked'["reorder"].taken = r.taken \cup ({u} \cap Written(r))
        /\ asked'["reorder"] \in MoveSet
    BY <2>3, <2>4 DEF MoveSet
  <2>6. There' = There /\ \A v \in There : v # u => position'[v] = position[v]
    BY <2>1 DEF Placed, There
  <2>7. CurriculumTypes'
    BY <1>0, <2>2, <2>3, <2>4, <2>5, <2>6 DEF CurriculumTypes
  <2>8. MovedSoFar'
    <3> SUFFICES ASSUME NEW k \in DOMAIN r.ids, k < r.place,
                        r.ids[k] \in There, r.ids[k] \notin asked'["reorder"].taken
                 PROVE  position'[r.ids[k]] = k - 1
      BY <2>5, <2>6 DEF MovedSoFar
    <3>1. r.ids[k] \in Written(r)
      BY DEF Written
    <3>2. r.ids[k] # u /\ r.ids[k] \notin r.taken
      BY <2>5, <3>1
    <3>3. QED
      BY <2>6, <3>2 DEF CurriculumInv, MovedSoFar
  <2>9. QED
    BY <2>7, <2>8 DEF CurriculumInv
<1>12. QED
  BY <1>1, <1>2, <1>3, <1>4, <1>5, <1>6, <1>7, <1>8, <1>9, <1>10, <1>11 DEF CurriculumNext

LEMMA MovesAreInOrder == ASSUME CurriculumInv PROVE MovedAsSent
<1>1. asked["reorder"].ids \in Seq(Units) /\ asked["reorder"].place \in Nat
  BY DEF CurriculumInv, CurriculumTypes, MoveSet
<1>2. QED
  BY <1>1 DEF CurriculumInv, CurriculumTypes, MovedSoFar, MovedAsSent

\* The units a move has come to are in the order it was sent with, for any units
\* and any additions, deletions and moves of another author between its statements,
\* but for the units that author has moved again since.
THEOREM MovesAreAsSent == CurriculumSpec => []MovedAsSent
<1>1. CurriculumInit => CurriculumInv
  BY CurriculumInitInv
<1>2. CurriculumInv /\ [CurriculumNext]_curriculumVars => CurriculumInv'
  BY CurriculumStep
<1>3. CurriculumInv => MovedAsSent
  BY MovesAreInOrder
<1>4. QED
  BY <1>1, <1>2, <1>3, PTL DEF CurriculumSpec

\* The rest of the types: how many units there are bounds every position, and a
\* move is at a row of its list while it is under way.
AskSet == [stage : {"idle", "sent", "counted", "done"}, of : Units \cup (0..Cardinality(Units)),
           place : 0..(Cardinality(Units) + 1), ids : Lists(Units), taken : SUBSET Units]

EditorTypes ==
    /\ listKind \in {"chapters", "lessons"} /\ unitsDue \in BOOLEAN /\ createOpen \in BOOLEAN
    /\ unitEdit \in Units \cup {0} /\ (createOpen => listKind = "lessons")
    /\ curriculumWrites \in 0..CurriculumWrites

PositionTypes ==
    /\ \A u \in There : position[u] \in 0..Cardinality(Units)
    /\ asked \in [Kinds -> AskSet]
    /\ asked["add"].place \in 0..Cardinality(Units)
    /\ asked["reorder"].stage = "sent" => asked["reorder"].place >= 1

LEMMA UnitsCounted ==
    /\ Cardinality(Units) \in Nat
    /\ \A S \in SUBSET Units : Cardinality(S) \in 0..Cardinality(Units)
<1>1. IsFiniteSet(Units)
  BY CurriculumConstants
<1>2. \A S \in SUBSET Units : Cardinality(S) \in Nat /\ Cardinality(S) <= Cardinality(Units)
  BY <1>1, FS_Subset, FS_CardinalityType
<1>3. QED
  BY <1>1, <1>2, FS_CardinalityType

\* A list without repetitions is no longer than there are units.
LEMMA ListsBounded ==
    ASSUME NEW seq \in Seq(Units), OneEach(seq)
    PROVE  Len(seq) <= Cardinality(Units) /\ seq \in Lists(Units)
<1> DEFINE n == Len(seq)
<1>1. n \in Nat /\ seq \in [1..n -> Units] /\ DOMAIN seq = 1..n
  OBVIOUS
<1>2. IsFiniteSet(1..n) /\ Cardinality(1..n) = n /\ IsFiniteSet(Units)
  <2>1. 1 \in Int /\ n \in Int
    BY <1>1
  <2>2. IsFiniteSet(1..n) /\ Cardinality(1..n) = IF 1 > n THEN 0 ELSE n - 1 + 1
    BY <2>1, FS_Interval
  <2>3. QED
    BY <1>1, <2>2, CurriculumConstants
<1>3. ~ (Cardinality(Units) < n)
  <2>1. SUFFICES ASSUME Cardinality(Units) < n PROVE FALSE
    OBVIOUS
  <2>2. \E i, j \in 1..n : i # j /\ seq[i] = seq[j]
    BY <1>1, <1>2, <2>1, FS_PigeonHole
  <2>3. QED
    BY <1>1, <2>2 DEF OneEach
<1>4. n <= Cardinality(Units)
  BY <1>1, <1>3, UnitsCounted
<1>5. seq \in UNION {[1..k -> Units] : k \in 0..Cardinality(Units)}
  BY <1>1, <1>4, UnitsCounted
<1>6. QED
  BY <1>4, <1>5 DEF Lists

LEMMA NoUnitsListed == <<>> \in Lists(Units)
BY NoUnits, ListsBounded

LEMMA CurriculumInvTypes == ASSUME CurriculumInv, EditorTypes, PositionTypes PROVE CurriculumTypeOK
<1>1. unitsShown \in Lists(Units)
  BY ListsBounded DEF CurriculumInv, CurriculumTypes
<1>2. {unitsDue, createOpen} \subseteq BOOLEAN
  BY Zenon DEF EditorTypes
<1>3. QED
  BY <1>1, <1>2 DEF CurriculumInv, CurriculumTypes, EditorTypes, PositionTypes, AskSet, CurriculumTypeOK

LEMMA AsksFit ==
    /\ NoAsk \in AskSet /\ NoAsk.place = 0 /\ NoAsk.stage = "idle"
    /\ \A u \in Units \cup {0} : Sent(u) \in AskSet /\ Sent(u).place = 0
<1>1. 0 \in 0..Cardinality(Units) /\ 0 \in 0..(Cardinality(Units) + 1)
  BY UnitsCounted
<1>2. \A g \in {"idle", "sent"}, u \in Units \cup {0}, s \in Lists(Units), t \in SUBSET Units :
          [stage |-> g, of |-> u, place |-> 0, ids |-> s, taken |-> t] \in AskSet
  BY <1>1 DEF AskSet
<1>3. NoAsk \in AskSet
  BY <1>2, NoUnitsListed, Zenon DEF NoAsk
<1>4. \A u \in Units \cup {0} : Sent(u) \in AskSet
  BY <1>2, NoUnitsListed, Zenon DEF Sent
<1>5. NoAsk.place = 0 /\ NoAsk.stage = "idle" /\ \A u : Sent(u).place = 0
  BY DEF NoAsk, Sent
<1>6. QED
  BY <1>3, <1>4, <1>5

LEMMA EditorTypesInit == ASSUME CurriculumInit PROVE EditorTypes /\ PositionTypes
<1>1. EditorTypes
  <2>1. 0 \in 0..CurriculumWrites
    BY CurriculumConstants
  <2>2. QED
    BY <2>1 DEF CurriculumInit, EditorTypes
<1>2. PositionTypes
  <2>1. PICK n \in 0..Cardinality(Units) : position = [u \in 1..n |-> u - 1]
    BY DEF CurriculumInit
  <2>2. \A u \in 1..n : u - 1 \in 0..Cardinality(Units)
    BY <2>1, UnitsCounted
  <2>3. \A u \in There : position[u] \in 0..Cardinality(Units)
    BY <2>1, <2>2 DEF There
  <2>4. asked = [k \in Kinds |-> NoAsk] /\ "add" \in Kinds /\ "reorder" \in Kinds
    BY DEF CurriculumInit, Kinds
  <2>5. asked \in [Kinds -> AskSet] /\ asked["add"] = NoAsk /\ asked["reorder"] = NoAsk
    BY <2>4, AsksFit
  <2>6. asked["add"].place \in 0..Cardinality(Units)
    BY <2>5, AsksFit, UnitsCounted
  <2>7. ~ (asked["reorder"].stage = "sent")
    BY <2>5, AsksFit
  <2>8. QED
    BY <2>3, <2>5, <2>6, <2>7 DEF PositionTypes
<1>3. QED
  BY <1>1, <1>2

LEMMA EditorTypesStep ==
    ASSUME CurriculumInv, EditorTypes, [CurriculumNext]_curriculumVars PROVE EditorTypes'
<1> USE DEF EditorTypes
<1>1. ASSUME Counted PROVE curriculumWrites' \in 0..CurriculumWrites
  BY <1>1, CurriculumConstants DEF Counted
<1>2. CASE UNCHANGED curriculumVars
  BY <1>2 DEF curriculumVars
<1>3. ASSUME NEW u \in Units, EditUnit(u) PROVE EditorTypes'
  BY <1>3 DEF EditUnit
<1>4. ASSUME NEW u \in Units, Delete(u) PROVE EditorTypes'
  BY <1>1, <1>4 DEF Delete, AskFor
<1>5. CASE StopEdit
  BY <1>5 DEF StopEdit
<1>6. CASE OpenCreate \/ CloseCreate
  BY <1>6 DEF OpenCreate, CloseCreate
<1>7. CASE Rename \/ Add
  BY <1>1, <1>7 DEF Rename, Add, AskFor
<1>8. ASSUME NEW i \in 1..Cardinality(Units), Move(i) PROVE EditorTypes'
  BY <1>1, <1>8 DEF Move, AskFor
<1>9. ASSUME NEW kind \in Kinds, AskedDone(kind) PROVE EditorTypes'
  BY <1>9 DEF AskedDone
<1>10. ASSUME NEW kind \in Kinds, AskedFails(kind) PROVE EditorTypes'
  BY <1>10 DEF AskedFails
<1>11. CASE UnitsArrive
  BY <1>11 DEF UnitsArrive
<1>12. CASE CountUnits \/ InsertUnit \/ RenameUnit \/ DeleteUnit \/ MoveUnit
  BY <1>12 DEF CountUnits, InsertUnit, RenameUnit, DeleteUnit, MoveUnit
<1>13. CASE OtherAuthor \/ OtherMoves
  BY <1>1, <1>13 DEF OtherAuthor, OtherMoves
<1>14. QED
  BY <1>2, <1>3, <1>4, <1>5, <1>6, <1>7, <1>8, <1>9, <1>10, <1>11, <1>12, <1>13 DEF CurriculumNext

\* A request replaced by another, with the positions as they are.
LEMMA AskReplaced ==
    ASSUME PositionTypes, NEW kind \in Kinds, NEW r \in AskSet, UNCHANGED position,
           asked' = [asked EXCEPT ![kind] = r],
           kind = "add" => r.place \in 0..Cardinality(Units),
           kind = "reorder" => (r.stage = "sent" => r.place >= 1)
    PROVE  PositionTypes'
<1>1. asked' \in [Kinds -> AskSet]
  BY DEF PositionTypes
<1>2. /\ asked'["add"] = IF kind = "add" THEN r ELSE asked["add"]
      /\ asked'["reorder"] = IF kind = "reorder" THEN r ELSE asked["reorder"]
  BY DEF PositionTypes, Kinds
<1>3. QED
  BY <1>1, <1>2 DEF PositionTypes, There

\* The positions are written, and a request is at another stage.
LEMMA PositionsWritten ==
    ASSUME PositionTypes, \A u \in There' : position'[u] \in 0..Cardinality(Units),
           \/ UNCHANGED asked
           \/ \E kind \in Kinds : Stage(kind, "done")
    PROVE  PositionTypes'
<1>1. CASE UNCHANGED asked
  BY <1>1 DEF PositionTypes
<1>2. ASSUME NEW kind \in Kinds, Stage(kind, "done") PROVE PositionTypes'
  <2> DEFINE r == [asked[kind] EXCEPT !.stage = "done"]
  <2>1. asked' = [asked EXCEPT ![kind] = r] /\ r \in AskSet /\ r.place = asked[kind].place
    BY <1>2 DEF Stage, PositionTypes, AskSet
  <2>2. r.stage # "sent"
    BY DEF PositionTypes, AskSet
  <2> HIDE DEF r
  <2>3. asked' \in [Kinds -> AskSet]
    BY <2>1 DEF PositionTypes
  <2>4. /\ asked'["add"] = IF kind = "add" THEN r ELSE asked["add"]
        /\ asked'["reorder"] = IF kind = "reorder" THEN r ELSE asked["reorder"]
    BY <2>1 DEF PositionTypes, Kinds
  <2>5. QED
    BY <2>1, <2>2, <2>3, <2>4 DEF PositionTypes
<1>3. QED
  BY <1>1, <1>2

LEMMA PlacedFits ==
    ASSUME PositionTypes, NEW u, NEW p \in 0..Cardinality(Units),
           position' = Placed(u, p) \/ position' = Without(u) \/ position' = position
    PROVE  \A v \in There' : position'[v] \in 0..Cardinality(Units)
BY DEF PositionTypes, Placed, Without, There

LEMMA PositionsStep ==
    ASSUME CurriculumInv, EditorTypes, PositionTypes, [CurriculumNext]_curriculumVars
    PROVE  PositionTypes'
<1>0. /\ "add" \in Kinds /\ "reorder" \in Kinds /\ "rename" \in Kinds /\ "delete" \in Kinds
      /\ There \in SUBSET Units /\ Cardinality(There) \in 0..Cardinality(Units)
      /\ asked \in [Kinds -> AskSet]
  BY UnitsCounted DEF Kinds, CurriculumInv, CurriculumTypes, PositionTypes
<1>1. CASE UNCHANGED <<position, asked>>
  BY <1>1, <1>0, PositionsWritten DEF PositionTypes, There
<1>2. CASE StopEdit \/ OpenCreate \/ CloseCreate \/ UnitsArrive \/ UNCHANGED curriculumVars
           \/ \E u \in Units : EditUnit(u)
  BY <1>1, <1>2 DEF StopEdit, OpenCreate, CloseCreate, UnitsArrive, EditUnit, curriculumVars
<1>3. ASSUME NEW u \in Units, Delete(u) PROVE PositionTypes'
  <2>1. Sent(u) \in AskSet
    BY AsksFit
  <2>2. QED
    BY <1>0, <1>3, <2>1, AskReplaced DEF Delete, AskFor
<1>4. CASE Rename
  <2>1. Sent(unitEdit) \in AskSet
    BY AsksFit DEF EditorTypes
  <2>2. QED
    BY <1>0, <1>4, <2>1, AskReplaced DEF Rename, AskFor
<1>5. CASE Add
  <2>1. Sent(0) \in AskSet /\ Sent(0).place \in 0..Cardinality(Units)
    BY AsksFit, UnitsCounted
  <2>2. QED
    BY <1>0, <1>5, <2>1, AskReplaced DEF Add, AskFor
<1>6. ASSUME NEW i \in 1..Cardinality(Units), Move(i) PROVE PositionTypes'
  <2> DEFINE moved == [unitsShown EXCEPT ![i] = unitsShown[i + 1], ![i + 1] = unitsShown[i]]
             r == [stage |-> "sent", of |-> i, place |-> 1, ids |-> moved, taken |-> {}]
  <2>1. /\ i \in 1..(Len(unitsShown) - 1) /\ UNCHANGED position
        /\ asked' = [asked EXCEPT !["reorder"] = r]
    BY <1>6 DEF Move, AskFor
  <2>2. moved \in Seq(Units) /\ OneEach(moved)
    BY <2>1, RowsExchanged DEF CurriculumInv
  <2>3. moved \in Lists(Units)
    BY <2>2, ListsBounded
  <2>4. i \in 0..Cardinality(Units) /\ 1 \in 0..(Cardinality(Units) + 1)
    BY UnitsCounted
  <2> HIDE DEF moved
  <2>5. r \in AskSet /\ r.place >= 1
    BY <2>3, <2>4 DEF AskSet
  <2>6. asked' = [asked EXCEPT !["reorder"] = r] /\ UNCHANGED position
    BY <2>1
  <2> HIDE DEF r
  <2>7. QED
    BY <1>0, <2>5, <2>6, AskReplaced
<1>7. ASSUME NEW kind \in Kinds, AskedDone(kind) \/ AskedFails(kind) PROVE PositionTypes'
  <2>1. NoAsk \in AskSet /\ NoAsk.place \in 0..Cardinality(Units) /\ NoAsk.stage # "sent"
    BY AsksFit, UnitsCounted
  <2>2. QED
    BY <1>0, <1>7, <2>1, AskReplaced DEF AskedDone, AskedFails
<1>8. CASE CountUnits
  <2> DEFINE r == [asked["add"] EXCEPT !.stage = "counted", !.place = Cardinality(There)]
  <2>1. Cardinality(There) \in 0..(Cardinality(Units) + 1)
    BY <1>0, UnitsCounted
  <2>2. r \in AskSet /\ r.place = Cardinality(There)
    BY <1>0, <2>1 DEF AskSet
  <2>3. asked' = [asked EXCEPT !["add"] = r] /\ UNCHANGED position
    BY <1>0, <1>8 DEF CountUnits
  <2> HIDE DEF r
  <2>4. QED
    BY <1>0, <2>2, <2>3, AskReplaced
<1>9. CASE InsertUnit
  <2>1. /\ Stage("add", "done") /\ asked["add"].place \in 0..Cardinality(Units)
        /\ \E u : position' = Placed(u, asked["add"].place)
    BY <1>9 DEF InsertUnit, PositionTypes
  <2>2. QED
    BY <1>0, <2>1, PlacedFits, PositionsWritten
<1>10. CASE RenameUnit
  <2>1. Stage("rename", "done") /\ UNCHANGED position
    BY <1>10 DEF RenameUnit
  <2>2. QED
    BY <1>0, <2>1, PositionsWritten DEF PositionTypes, There
<1>11. CASE DeleteUnit
  <2>1. Stage("delete", "done") /\ position' = Without(asked["delete"].of)
    BY <1>11 DEF DeleteUnit
  <2>2. \A v \in There' : position'[v] \in 0..Cardinality(Units)
    BY <2>1 DEF PositionTypes, Without, There
  <2>3. QED
    BY <1>0, <2>1, <2>2, PositionsWritten
<1>12. CASE MoveUnit
  <2> DEFINE r == asked["reorder"]
             s == [r EXCEPT !.place = r.place + 1,
                            !.stage = IF r.place = Len(r.ids) THEN "done" ELSE "sent"]
             u == r.ids[r.place]
  <2>1. /\ r.stage = "sent" /\ r.place <= Len(r.ids)
        /\ position' = IF u \in There THEN Placed(u, r.place - 1) ELSE position
    BY <1>12 DEF MoveUnit
  <2>2. asked' = [asked EXCEPT !["reorder"] = s]
    BY <1>0, <1>12 DEF MoveUnit
  <2>3. r.ids \in Seq(Units) /\ OneEach(r.ids) /\ r.place \in 0..(Cardinality(Units) + 1) /\ r.place >= 1
    BY <1>0, <2>1 DEF CurriculumInv, CurriculumTypes, PositionTypes, AskSet, MoveSet
  <2>4. Len(r.ids) <= Cardinality(Units) /\ Len(r.ids) \in Nat
    BY <2>3, ListsBounded
  <2>5. r.place - 1 \in 0..Cardinality(Units) /\ r.place + 1 \in 0..(Cardinality(Units) + 1)
    <3>1. \A n, l, c \in Nat : 1 <= n /\ n <= l /\ l <= c => n - 1 \in 0..c /\ n + 1 \in 0..(c + 1)
      OBVIOUS
    <3>2. r.place \in Nat
      BY <2>3, UnitsCounted
    <3>3. QED
      BY <2>1, <2>3, <2>4, <3>1, <3>2, UnitsCounted
  <2>6. s \in AskSet /\ s.place >= 1
    <3>1. r \in AskSet
      BY <1>0
    <3>2. s \in AskSet /\ s.place = r.place + 1
      BY <2>5, <3>1 DEF AskSet
    <3>3. r.place + 1 >= 1
      BY <2>3, UnitsCounted
    <3>4. QED
      BY <3>2, <3>3
  <2>7. \A v \in There' : position'[v] \in 0..Cardinality(Units)
    BY <2>1, <2>5, PlacedFits
  <2> HIDE DEF s
  <2>8. asked' \in [Kinds -> AskSet] /\ asked'["add"] = asked["add"] /\ asked'["reorder"] = s
    BY <1>0, <2>2, <2>6
  <2>9. QED
    BY <2>6, <2>7, <2>8 DEF PositionTypes
<1>13. CASE OtherAuthor
  <2>1. /\ UNCHANGED asked
        /\ \/ \E u : position' = Placed(u, Cardinality(There))
           \/ \E u : position' = Without(u)
    BY <1>13 DEF OtherAuthor
  <2>2. \A v \in There' : position'[v] \in 0..Cardinality(Units)
    BY <1>0, <2>1, PlacedFits, UnitsCounted
  <2>3. QED
    BY <2>1, <2>2, PositionsWritten
<1>14. CASE OtherMoves
  <2> DEFINE r == asked["reorder"]
  <2>1. PICK u \in There, p \in 0..(Cardinality(Units) - 1) :
            /\ position' = Placed(u, p)
            /\ asked' = [asked EXCEPT !["reorder"].taken = @ \cup ({u} \cap Written(r))]
    BY <1>14 DEF OtherMoves
  <2>2. p \in 0..Cardinality(Units)
    BY UnitsCounted
  <2>3. \A v \in There' : position'[v] \in 0..Cardinality(Units)
    BY <2>1, <2>2, PlacedFits
  <2> DEFINE after == [r EXCEPT !.taken = @ \cup ({u} \cap Written(r))]
  <2>4. after \in AskSet /\ after.stage = r.stage /\ after.place = r.place
    BY <1>0 DEF AskSet
  <2>5. asked' = [asked EXCEPT !["reorder"] = after]
    BY <1>0, <2>1
  <2> HIDE DEF after
  <2>6. asked' \in [Kinds -> AskSet] /\ asked'["add"] = asked["add"] /\ asked'["reorder"] = after
    BY <1>0, <2>4, <2>5
  <2>7. QED
    BY <2>3, <2>4, <2>6 DEF PositionTypes
<1>15. QED
  BY <1>2, <1>3, <1>4, <1>5, <1>6, <1>7, <1>8, <1>9, <1>10, <1>11, <1>12, <1>13, <1>14 DEF CurriculumNext

\* Whatever the units, every step of the editor, of the server and of the other
\* author keeps lists, positions and requests well typed: no list is longer than
\* there are units, and no position lies beyond their number.
THEOREM CurriculumTypesHold == CurriculumSpec => []CurriculumTypeOK
<1> DEFINE Inv == CurriculumInv /\ EditorTypes /\ PositionTypes
<1>1. CurriculumInit => Inv
  BY CurriculumInitInv, EditorTypesInit
<1>2. Inv /\ [CurriculumNext]_curriculumVars => Inv'
  BY CurriculumStep, EditorTypesStep, PositionsStep
<1>3. Inv => CurriculumTypeOK
  BY CurriculumInvTypes
<1> HIDE DEF Inv
<1>4. QED
  BY <1>1, <1>2, <1>3, PTL DEF CurriculumSpec

-------------------------------------------------------------------------------
(***************************************************************************)
(* The list of products                                                    *)
(***************************************************************************)

FormFields == {"name", "stock", "status", "image"}

ProductInv ==
    /\ DOMAIN productForm = FormFields
    /\ DOMAIN productDialog = {"open", "of", "row"}
    /\ AbandonedEditsStayOut

LEMMA FormsAreWhole ==
    ASSUME NEW row
    PROVE  DOMAIN FormOf(row) = FormFields
BY DEF FormOf, EmptyForm, FormFields

LEMMA ProductInitInv == ASSUME ProductInit PROVE ProductInv
BY DEF ProductInit, ProductInv, EmptyForm, FormFields, AbandonedEditsStayOut

\* A dialog that stays as it is, its form kept but for fields that are counted as
\* changed and its image.
LEMMA FormKept ==
    ASSUME ProductInv, UNCHANGED productDialog,
           changedFields \subseteq changedFields',
           DOMAIN productForm' = FormFields,
           \A f \in {"name", "stock", "status"} \ changedFields' : productForm'[f] = productForm[f]
    PROVE  ProductInv'
BY DEF ProductInv, AbandonedEditsStayOut

LEMMA FormUntouched ==
    ASSUME ProductInv, UNCHANGED <<productDialog, productForm, changedFields>>
    PROVE  ProductInv'
BY DEF ProductInv, AbandonedEditsStayOut, FormOf

LEMMA DialogShut ==
    ASSUME ProductInv, productDialog'.open = FALSE, UNCHANGED productForm,
           DOMAIN productDialog' = {"open", "of", "row"}
    PROVE  ProductInv'
BY DEF ProductInv, AbandonedEditsStayOut

LEMMA DialogOpened ==
    ASSUME ProductInv, NEW of, NEW row, OpenProduct(of, row)
    PROVE  ProductInv'
<1>1. /\ productDialog' = [open |-> TRUE, of |-> of, row |-> row]
      /\ productForm' = FormOf(row)
  BY DEF OpenProduct, FilledFrom
<1>2. DOMAIN productForm' = FormFields
  BY <1>1, FormsAreWhole
<1>3. QED
  BY <1>1, <1>2 DEF ProductInv, AbandonedEditsStayOut

LEMMA ProductStep == ASSUME ProductInv, [ProductNext]_productVars PROVE ProductInv'
<1>0. DOMAIN productForm = FormFields /\ DOMAIN productDialog = {"open", "of", "row"}
  BY DEF ProductInv
<1>1. CASE OpenCreateProduct
  BY <1>1, DialogOpened DEF OpenCreateProduct
<1>2. ASSUME NEW g \in Goods, OpenEditProduct(g) PROVE ProductInv'
  BY <1>2, DialogOpened DEF OpenEditProduct
<1>3. CASE CloseProduct
  BY <1>0, <1>3, DialogShut DEF CloseProduct
<1>4. CASE ChangeField
  <2>1. PICK f \in {"name", "stock", "status"} : \E v :
            /\ productForm' = [productForm EXCEPT ![f] = v]
            /\ changedFields' = changedFields \cup {f}
    BY <1>4 DEF ChangeField
  <2>2. UNCHANGED productDialog
    BY <1>4 DEF ChangeField
  <2>3. QED
    BY <1>0, <2>1, <2>2, FormKept
<1>5. CASE ImageStored
  <2>1. /\ UNCHANGED <<productDialog, changedFields>>
        /\ productForm' \in {productForm, [productForm EXCEPT !.image = productImage]}
    BY <1>5 DEF ImageStored
  <2>2. /\ DOMAIN productForm' = FormFields
        /\ \A f \in {"name", "stock", "status"} : productForm'[f] = productForm[f]
    BY <1>0, <2>1 DEF FormFields
  <2>3. QED
    BY <2>1, <2>2, FormKept
<1>6. ASSUME NEW kind \in CallKinds, CallDone(kind) PROVE ProductInv'
  <2>1. CASE kind \in {"create", "update"}
    <3>1. productDialog' \in {[productDialog EXCEPT !.open = FALSE], [open |-> FALSE, of |-> 0, row |-> Unused]}
      BY <1>6, <2>1 DEF CallDone
    <3>2. productDialog'.open = FALSE /\ DOMAIN productDialog' = {"open", "of", "row"}
      BY <1>0, <3>1
    <3>3. QED
      BY <1>6, <3>2, DialogShut DEF CallDone
  <2>2. CASE kind \notin {"create", "update"}
    BY <1>6, <2>2, FormUntouched DEF CallDone
  <2>3. QED
    BY <2>1, <2>2
<1>7. CASE ChooseProductImage \/ SaveProduct \/ GoodsArrive \/ CreateProduct \/ UpdateProduct
           \/ PublishProduct \/ DeleteProduct \/ (\E g \in Goods : PressPublish(g) \/ PressDelete(g) \/ Sale(g))
           \/ (\E kind \in CallKinds : CallFails(kind)) \/ UNCHANGED productVars
  <2>1. UNCHANGED <<productDialog, productForm, changedFields>>
    BY <1>7 DEF ChooseProductImage, SaveProduct, GoodsArrive, CreateProduct, UpdateProduct, pageStays,
                PublishProduct, DeleteProduct, PressPublish, PressDelete, Call, Sale, CallFails, productVars
  <2>2. QED
    BY <2>1, FormUntouched
<1>8. QED
  BY <1>1, <1>2, <1>3, <1>4, <1>5, <1>6, <1>7 DEF ProductNext

\* Whatever products there are, and in whatever order dialogs, saves and images
\* end, what was typed and given up stays out of every later form.
THEOREM AbandonedEditsAreGone == ProductSpec => []AbandonedEditsStayOut
<1>1. ProductInit => ProductInv
  BY ProductInitInv
<1>2. ProductInv /\ [ProductNext]_productVars => ProductInv'
  BY ProductStep
<1>3. ProductInv => AbandonedEditsStayOut
  BY DEF ProductInv
<1>4. QED
  BY <1>1, <1>2, <1>3, PTL DEF ProductSpec

\* The types, with what a request is about: a product, unless it creates one.
CallSet == [stage : {"idle", "sent", "done"}, of : Goods \cup {0}, input : Form]

ShelfTypes ==
    /\ goods \in [Goods -> Good] /\ goodsSeen \in [Goods -> Good] /\ goodsDue \in BOOLEAN
    /\ goodsWrites \in 0..GoodsWrites

FormTypes ==
    /\ productDialog \in [open : BOOLEAN, of : Goods \cup {0}, row : Good]
    /\ productForm \in Form /\ changedFields \in SUBSET {"name", "stock", "status"}
    /\ productImage \in ImageOf

CallTypes ==
    /\ productCalls \in [CallKinds -> CallSet]
    /\ \A k \in CallKinds \ {"create"} : productCalls[k].stage = "sent" => productCalls[k].of \in Goods

ProductTypes == ShelfTypes /\ FormTypes /\ CallTypes

LEMMA ProductBounds ==
    /\ MaxStock \in Nat /\ GoodsWrites \in Nat /\ 0 \in 0..MaxStock /\ MaxStock \in 0..MaxStock
    /\ Unused \in Good /\ EmptyForm \in Form /\ NoCall \in CallSet
<1>1. MaxStock \in Nat /\ GoodsWrites \in Nat
  BY ProductConstants
<1>2. 0 \in 0..MaxStock /\ MaxStock \in 0..MaxStock
  BY <1>1
<1>3. Unused \in Good
  BY <1>2 DEF Unused, Good, GoodNames, GoodStatuses, ImageOf
<1>4. EmptyForm \in Form
  BY DEF EmptyForm, Form, GoodNames, GoodStatuses, ImageOf
<1>5. NoCall \in CallSet
  BY <1>4 DEF NoCall, CallSet
<1>6. QED
  BY <1>1, <1>2, <1>3, <1>4, <1>5

LEMMA ProductTypesInit == ASSUME ProductInit PROVE ProductTypes
<1>1. PICK there \in SUBSET Goods, status \in {"draft", "published"} :
          goods = [g \in Goods |-> IF g \in there
                       THEN [Unused EXCEPT !.state = "listed", !.name = "a", !.status = status,
                                           !.stock = IF g \in Physical THEN MaxStock ELSE 0]
                       ELSE Unused]
  BY DEF ProductInit
<1>2. ASSUME NEW g \in Goods
      PROVE  [Unused EXCEPT !.state = "listed", !.name = "a", !.status = status,
                            !.stock = IF g \in Physical THEN MaxStock ELSE 0] \in Good
  BY ProductBounds DEF Good, GoodNames, GoodStatuses
<1>3. goods \in [Goods -> Good]
  BY <1>1, <1>2, ProductBounds
<1>4. ShelfTypes
  <2>1. goodsSeen = goods /\ goodsDue = FALSE /\ goodsWrites = 0
    BY DEF ProductInit
  <2>2. 0 \in 0..GoodsWrites
    BY ProductBounds
  <2>3. QED
    BY <1>3, <2>1, <2>2 DEF ShelfTypes
<1>5. FormTypes
  BY ProductBounds DEF ProductInit, FormTypes, ImageOf
<1>6. CallTypes
  BY ProductBounds DEF ProductInit, CallTypes, NoCall
<1>7. QED
  BY <1>4, <1>5, <1>6 DEF ProductTypes

\* A row, as the form it fills.
LEMMA FormOfFits == ASSUME NEW row \in Good PROVE FormOf(row) \in Form
BY ProductBounds DEF FormOf, Form, Good

\* A form, as the row that is written from it.
LEMMA RowWritten ==
    ASSUME NEW input \in Form, NEW g, NEW status \in GoodStatuses, NEW image \in ImageOf
    PROVE  [state |-> "listed", name |-> input.name, stock |-> StockSent(g, input),
            status |-> status, image |-> image] \in Good
<1>1. StockSent(g, input) \in 0..MaxStock
  BY ProductBounds DEF StockSent, Form
<1>2. QED
  BY <1>1 DEF Good, Form

LEMMA OpenFits ==
    ASSUME ProductTypes, NEW of \in Goods \cup {0}, NEW row \in Good, OpenProduct(of, row)
    PROVE  ProductTypes'
<1>1. FormTypes'
  BY FormOfFits DEF OpenProduct, FilledFrom, ProductTypes, FormTypes
<1>2. ShelfTypes' /\ CallTypes'
  BY DEF OpenProduct, ProductTypes, ShelfTypes, CallTypes
<1>3. QED
  BY <1>1, <1>2 DEF ProductTypes

LEMMA CountFits == ASSUME ProductTypes, GoodsCounted PROVE goodsWrites' \in 0..GoodsWrites
<1>1. \A m, n \in Nat : n < m => n + 1 \in 0..m
  OBVIOUS
<1>2. goodsWrites \in Nat /\ GoodsWrites \in Nat
  BY ProductBounds DEF ProductTypes, ShelfTypes
<1>3. QED
  BY <1>1, <1>2 DEF GoodsCounted

\* One request is made, ends or goes a stage further, whatever the shelf.
LEMMA CallReplaced ==
    ASSUME CallTypes, NEW kind \in CallKinds, NEW r \in CallSet,
           productCalls' = [productCalls EXCEPT ![kind] = r],
           kind # "create" => (r.stage = "sent" => r.of \in Goods)
    PROVE  CallTypes'
<1>1. productCalls' \in [CallKinds -> CallSet]
  BY DEF CallTypes
<1>2. \A k \in CallKinds : productCalls'[k] = IF k = kind THEN r ELSE productCalls[k]
  BY DEF CallTypes
<1>3. QED
  BY <1>1, <1>2 DEF CallTypes

LEMMA CallFits ==
    ASSUME ProductTypes, NEW kind \in CallKinds, NEW of \in Goods \cup {0}, NEW input \in Form,
           kind # "create" => of \in Goods, Call(kind, of, input)
    PROVE  ProductTypes'
<1>1. CallTypes'
  <2>1. [stage |-> "sent", of |-> of, input |-> input] \in CallSet
    BY DEF CallSet
  <2>2. QED
    BY <2>1, CallReplaced DEF Call, ProductTypes
<1>2. ShelfTypes' /\ FormTypes'
  BY CountFits DEF Call, ProductTypes, ShelfTypes, FormTypes
<1>3. QED
  BY <1>1, <1>2 DEF ProductTypes

\* The server answers a request: the shelf may change, the page does not.
LEMMA ServedFits ==
    ASSUME ProductTypes, NEW kind \in CallKinds, CallServed(kind), pageStays, goods' \in [Goods -> Good]
    PROVE  ProductTypes'
<1> DEFINE r == [productCalls[kind] EXCEPT !.stage = "done"]
<1>1. r \in CallSet /\ r.stage # "sent" /\ productCalls' = [productCalls EXCEPT ![kind] = r]
  BY DEF ProductTypes, CallTypes, CallSet, CallServed
<1> HIDE DEF r
<1>2. CallTypes'
  BY <1>1, CallReplaced DEF ProductTypes
<1>3. ShelfTypes' /\ FormTypes'
  BY DEF ProductTypes, ShelfTypes, FormTypes, pageStays
<1>4. QED
  BY <1>2, <1>3 DEF ProductTypes

LEMMA ProductTypesStep == ASSUME ProductTypes, [ProductNext]_productVars PROVE ProductTypes'
<1>0. /\ ShelfTypes /\ FormTypes /\ CallTypes
      /\ "create" \in CallKinds /\ "update" \in CallKinds /\ "publish" \in CallKinds /\ "remove" \in CallKinds
  BY DEF ProductTypes, CallKinds
<1>1. CASE OpenCreateProduct
  BY <1>1, OpenFits, ProductBounds DEF OpenCreateProduct
<1>2. ASSUME NEW g \in Goods, OpenEditProduct(g) PROVE ProductTypes'
  <2>1. goodsSeen[g] \in Good
    BY <1>0 DEF ShelfTypes
  <2>2. QED
    BY <1>2, <2>1, OpenFits DEF OpenEditProduct
<1>3. CASE CloseProduct
  BY <1>0, <1>3 DEF CloseProduct, ProductTypes, ShelfTypes, FormTypes, CallTypes
<1>4. CASE ChangeField
  <2>1. productForm' \in Form /\ changedFields' \in SUBSET {"name", "stock", "status"}
    BY <1>0, <1>4, ProductBounds DEF ChangeField, FormTypes, Form
  <2>2. ShelfTypes' /\ CallTypes'
    BY <1>0, <1>4, CountFits DEF ChangeField, ShelfTypes, CallTypes
  <2>3. FormTypes'
    BY <1>0, <1>4, <2>1 DEF ChangeField, FormTypes
  <2>4. QED
    BY <2>2, <2>3 DEF ProductTypes
<1>5. CASE ChooseProductImage
  <2>1. productDialog.of \in ImageOf
    BY <1>0 DEF FormTypes, ImageOf
  <2>2. FormTypes' /\ ShelfTypes' /\ CallTypes'
    BY <1>0, <1>5, <2>1, CountFits DEF ChooseProductImage, FormTypes, ShelfTypes, CallTypes
  <2>3. QED
    BY <2>2 DEF ProductTypes
<1>6. CASE ImageStored
  <2>1. productForm' \in Form
    BY <1>0, <1>6 DEF ImageStored, FormTypes, Form
  <2>2. FormTypes' /\ ShelfTypes' /\ CallTypes'
    BY <1>0, <1>6, <2>1 DEF ImageStored, FormTypes, ShelfTypes, CallTypes, ImageOf
  <2>3. QED
    BY <2>2 DEF ProductTypes
<1>7. CASE SaveProduct
  <2>1. productDialog.of \in Goods \cup {0} /\ productForm \in Form
    BY <1>0 DEF FormTypes
  <2>2. CASE productDialog.of = 0
    BY <1>0, <1>7, <2>1, <2>2, CallFits DEF SaveProduct
  <2>3. CASE productDialog.of # 0
    BY <1>0, <1>7, <2>1, <2>3, CallFits DEF SaveProduct
  <2>4. QED
    BY <2>2, <2>3
<1>8. ASSUME NEW g \in Goods, PressPublish(g) \/ PressDelete(g) PROVE ProductTypes'
  BY <1>0, <1>8, CallFits, ProductBounds DEF PressPublish, PressDelete
<1>9. ASSUME NEW g \in Goods, Sale(g) PROVE ProductTypes'
  <2>1. [goods[g] EXCEPT !.stock = @ - 1] \in Good
    <3>1. goods[g] \in Good /\ goods[g].stock \in 0..MaxStock /\ goods[g].stock > 0
      BY <1>0, <1>9 DEF Sale, ShelfTypes, Good
    <3>2. goods[g].stock - 1 \in 0..MaxStock
      BY <3>1, ProductBounds
    <3>3. QED
      BY <3>1, <3>2 DEF Good
  <2>2. goods' \in [Goods -> Good]
    BY <1>0, <1>9, <2>1 DEF Sale, ShelfTypes
  <2>3. ShelfTypes' /\ FormTypes' /\ CallTypes'
    BY <1>0, <1>9, <2>2, CountFits DEF Sale, ShelfTypes, FormTypes, CallTypes
  <2>4. QED
    BY <2>3 DEF ProductTypes
<1>10. ASSUME NEW kind \in CallKinds, CallDone(kind) PROVE ProductTypes'
  <2>1. CallTypes'
    BY <1>0, <1>10, CallReplaced, ProductBounds DEF CallDone, NoCall
  <2>2. productDialog' \in [open : BOOLEAN, of : Goods \cup {0}, row : Good]
    <3>1. \/ productDialog' = [productDialog EXCEPT !.open = FALSE]
          \/ productDialog' = [open |-> FALSE, of |-> 0, row |-> Unused]
          \/ productDialog' = productDialog
      BY <1>10, Zenon DEF CallDone
    <3>2. [open |-> FALSE, of |-> 0, row |-> Unused] \in [open : BOOLEAN, of : Goods \cup {0}, row : Good]
      BY ProductBounds
    <3>3. [productDialog EXCEPT !.open = FALSE] \in [open : BOOLEAN, of : Goods \cup {0}, row : Good]
      BY <1>0 DEF FormTypes
    <3>4. QED
      BY <1>0, <3>1, <3>2, <3>3, Zenon DEF FormTypes
  <2>3. FormTypes' /\ ShelfTypes'
    BY <1>0, <1>10, <2>2 DEF CallDone, FormTypes, ShelfTypes
  <2>4. QED
    BY <2>1, <2>3 DEF ProductTypes
<1>11. ASSUME NEW kind \in CallKinds, CallFails(kind) PROVE ProductTypes'
  <2>1. CallTypes'
    BY <1>0, <1>11, CallReplaced, ProductBounds DEF CallFails, NoCall
  <2>2. FormTypes' /\ ShelfTypes'
    BY <1>0, <1>11 DEF CallFails, FormTypes, ShelfTypes
  <2>3. QED
    BY <2>1, <2>2 DEF ProductTypes
<1>12. CASE GoodsArrive
  BY <1>0, <1>12 DEF GoodsArrive, ProductTypes, ShelfTypes, FormTypes, CallTypes
<1>13. CASE CreateProduct
  <2>1. PICK g \in Goods :
            goods' = [goods EXCEPT ![g] = LET input == productCalls["create"].input IN
                  [state |-> "listed", name |-> input.name, stock |-> StockSent(g, input),
                   status |-> "draft", image |-> input.image]]
    BY <1>13 DEF CreateProduct
  <2>2. productCalls["create"].input \in Form
    BY <1>0 DEF CallTypes, CallSet
  <2>3. productCalls["create"].input.image \in ImageOf /\ "draft" \in GoodStatuses
    BY <2>2 DEF Form, GoodStatuses
  <2>4. goods' \in [Goods -> Good]
    BY <1>0, <2>1, <2>2, <2>3, RowWritten DEF ShelfTypes
  <2>5. QED
    BY <1>0, <1>13, <2>4, ServedFits DEF CreateProduct
<1>14. CASE UpdateProduct
  <2> DEFINE call  == productCalls["update"]
             g     == call.of
             image == IF call.input.image = NoImage THEN goods[g].image ELSE call.input.image
  <2>1. call \in CallSet /\ call.input \in Form /\ call.stage = "sent" /\ g \in Goods
    BY <1>0, <1>14 DEF UpdateProduct, CallServed, CallTypes, CallSet
  <2>2. image \in ImageOf /\ call.input.status \in GoodStatuses
    BY <1>0, <2>1 DEF ShelfTypes, Form, Good
  <2>3. goods' = goods \/ goods' = [goods EXCEPT ![g] = [state |-> "listed", name |-> call.input.name,
                             stock |-> StockSent(g, call.input), status |-> call.input.status,
                             image |-> image]]
    BY <1>14, Zenon DEF UpdateProduct
  <2> HIDE DEF image
  <2>4. goods' \in [Goods -> Good]
    BY <1>0, <2>1, <2>2, <2>3, RowWritten DEF ShelfTypes
  <2>5. QED
    BY <1>0, <1>14, <2>4, ServedFits DEF UpdateProduct
<1>15. CASE PublishProduct
  <2> DEFINE g == productCalls["publish"].of
  <2>1. g \in Goods
    BY <1>0, <1>15 DEF PublishProduct, CallServed, CallTypes
  <2>2. goods' = goods \/ goods' = [goods EXCEPT ![g].status = "published"]
    BY <1>15, Zenon DEF PublishProduct
  <2>3. goods' \in [Goods -> Good]
    <3>1. [goods[g] EXCEPT !.status = "published"] \in Good
      BY <1>0, <2>1 DEF ShelfTypes, Good, GoodStatuses
    <3>2. QED
      BY <1>0, <2>1, <2>2, <3>1 DEF ShelfTypes
  <2>4. QED
    BY <1>0, <1>15, <2>3, ServedFits DEF PublishProduct
<1>16. CASE DeleteProduct
  <2> DEFINE g == productCalls["remove"].of
  <2>1. g \in Goods
    BY <1>0, <1>16 DEF DeleteProduct, CallServed, CallTypes
  <2>2. \/ goods' = [goods EXCEPT ![g] = [Unused EXCEPT !.state = "deleted"]]
        \/ goods' = [goods EXCEPT ![g].status = "archived"]
    BY <1>16, Zenon DEF DeleteProduct
  <2>3. goods' \in [Goods -> Good]
    <3>1. [goods[g] EXCEPT !.status = "archived"] \in Good
      BY <1>0, <2>1 DEF ShelfTypes, Good, GoodStatuses
    <3>2. [Unused EXCEPT !.state = "deleted"] \in Good
      BY ProductBounds DEF Good
    <3>3. QED
      BY <1>0, <2>1, <2>2, <3>1, <3>2 DEF ShelfTypes
  <2>4. QED
    BY <1>0, <1>16, <2>3, ServedFits DEF DeleteProduct
<1>17. CASE UNCHANGED productVars
  BY <1>0, <1>17 DEF productVars, ProductTypes, ShelfTypes, FormTypes, CallTypes
<1>18. QED
  BY <1>1, <1>2, <1>3, <1>4, <1>5, <1>6, <1>7, <1>8, <1>9, <1>10, <1>11, <1>12, <1>13, <1>14, <1>15,
     <1>16, <1>17 DEF ProductNext

\* Whatever the products and the shelf, every step of the list, of its dialog and
\* of the server keeps them well typed: no sale takes a stock below zero.
THEOREM ProductTypesHold == ProductSpec => []ProductTypeOK
<1>1. ProductInit => ProductTypes
  BY ProductTypesInit
<1>2. ProductTypes /\ [ProductNext]_productVars => ProductTypes'
  BY ProductTypesStep
<1>3. ProductTypes => ProductTypeOK
  BY DEF ProductTypes, ShelfTypes, FormTypes, CallTypes, CallSet, ProductTypeOK
<1>4. QED
  BY <1>1, <1>2, <1>3, PTL DEF ProductSpec

-------------------------------------------------------------------------------
(***************************************************************************)
(* The list of orders                                                      *)
(***************************************************************************)

OrderFields  == {"row", "confirmed", "refunded"}
DialogFields == {"kind", "order", "row", "receipt", "error"}
UploadFields == {"kind", "of", "live", "chosen"}
ActionFields == {"kind", "order", "receipt", "answer"}

OrdersShape ==
    /\ DOMAIN placed = ShopOrders /\ \A o \in ShopOrders : DOMAIN placed[o] = OrderFields
    /\ DOMAIN orderDialog = DialogFields
    /\ DOMAIN uploads = Files /\ \A f \in Files : DOMAIN uploads[f] = UploadFields
    /\ \A a \in actions : DOMAIN a = ActionFields /\ a.order \in ShopOrders

\* The receipt in a dialog or in a request is its order's, and so is the one a
\* dialog still waits for; a dialog is about an order.
ReceiptsKnown ==
    /\ orderDialog.kind = "none" => orderDialog.receipt = "none"
    /\ orderDialog.kind # "none" => orderDialog.order \in ShopOrders
    /\ orderDialog.receipt \in {"none", orderDialog.order}
    /\ \A f \in Files : uploads[f].live => /\ orderDialog.kind \in NeedsReceipt
                                           /\ uploads[f].of = orderDialog.order
    /\ \A a \in actions : a.receipt \in {"none", a.order}

OrdersInv == OrdersShape /\ ReceiptsKnown /\ ReceiptIsOfItsOrder

LEMMA DialogAnew ==
    ASSUME OrdersInv, UNCHANGED <<placed, uploads, actions>>,
           orderDialog.kind \in {"none", "detail"},
           NEW kind, NEW o \in ShopOrders, NEW r,
           orderDialog' = [kind |-> kind, order |-> o, row |-> r, receipt |-> "none", error |-> FALSE]
    PROVE  OrdersInv'
<1>1. \A f \in Files : ~uploads[f].live
  BY DEF OrdersInv, ReceiptsKnown, NeedsReceipt
<1>2. /\ DOMAIN orderDialog' = DialogFields /\ orderDialog'.order \in ShopOrders
      /\ orderDialog'.receipt = "none"
  BY DEF DialogFields
<1>3. QED
  BY <1>1, <1>2 DEF OrdersInv, OrdersShape, ReceiptsKnown, ReceiptIsOfItsOrder

LEMMA DialogGone ==
    ASSUME OrdersInv, UNCHANGED placed, actions' \subseteq actions,
           orderDialog' = NoDialog, uploads' = Unmounted
    PROVE  OrdersInv'
<1>1. /\ DOMAIN uploads' = Files
      /\ \A f \in Files : DOMAIN uploads'[f] = UploadFields /\ ~uploads'[f].live
  BY DEF OrdersInv, OrdersShape, Unmounted, UploadFields
<1>2. DOMAIN orderDialog' = DialogFields /\ orderDialog'.kind = "none" /\ orderDialog'.receipt = "none"
  BY DEF NoDialog, Opened, DialogFields
<1>3. QED
  BY <1>1, <1>2 DEF OrdersInv, OrdersShape, ReceiptsKnown, ReceiptIsOfItsOrder

\* A request takes its receipt from the dialog.
LEMMA DialogKept ==
    ASSUME OrdersInv, UNCHANGED <<placed, uploads>>,
           \A a \in actions' : DOMAIN a = ActionFields /\ a.order \in ShopOrders
                               /\ a.receipt \in {"none", a.order},
           NEW e, orderDialog' \in {orderDialog, [orderDialog EXCEPT !.error = e]}
    PROVE  OrdersInv'
<1>1. /\ DOMAIN orderDialog' = DialogFields /\ orderDialog'.kind = orderDialog.kind
      /\ orderDialog'.order = orderDialog.order /\ orderDialog'.receipt = orderDialog.receipt
  BY DEF OrdersInv, OrdersShape, DialogFields
<1>2. QED
  BY <1>1 DEF OrdersInv, OrdersShape, ReceiptsKnown, ReceiptIsOfItsOrder

LEMMA ReceiptArrives ==
    ASSUME OrdersInv, UNCHANGED <<placed, actions>>, NEW f \in Files, NEW d, NEW u,
           uploads' = [uploads EXCEPT ![f] = u], DOMAIN u = UploadFields,
           u.live => orderDialog.kind \in NeedsReceipt /\ u.of = orderDialog.order,
           \/ UNCHANGED orderDialog
           \/ /\ orderDialog' = [orderDialog EXCEPT !.receipt = d]
              /\ d = orderDialog.order /\ orderDialog.kind # "none"
    PROVE  OrdersInv'
<1>1. /\ DOMAIN orderDialog' = DialogFields /\ orderDialog'.kind = orderDialog.kind
      /\ orderDialog'.order = orderDialog.order
      /\ orderDialog'.receipt \in {orderDialog.receipt, orderDialog.order}
  BY DEF OrdersInv, OrdersShape, DialogFields
<1>2. /\ DOMAIN uploads' = Files /\ \A g \in Files : DOMAIN uploads'[g] = UploadFields
      /\ \A g \in Files : uploads'[g].live => /\ orderDialog.kind \in NeedsReceipt
                                              /\ uploads'[g].of = orderDialog.order
  BY DEF OrdersInv, OrdersShape, ReceiptsKnown
<1>3. (orderDialog'.kind = "none" => orderDialog'.receipt = "none")
      /\ orderDialog'.receipt \in {"none", orderDialog'.order}
  BY <1>1 DEF OrdersInv, ReceiptsKnown
<1>4. QED
  BY <1>1, <1>2, <1>3 DEF OrdersInv, OrdersShape, ReceiptsKnown, ReceiptIsOfItsOrder

\* What becomes of a row is nothing to the receipts.
LEMMA RowOnly ==
    ASSUME NEW was, DOMAIN was = OrderFields, NEW s
    PROVE  LET new == [was EXCEPT !.row.status = s]
           IN  DOMAIN new = OrderFields /\ new.confirmed = was.confirmed /\ new.refunded = was.refunded
<1>1. [was EXCEPT !.row.status = s] = [was EXCEPT !.row = [was.row EXCEPT !.status = s]]
  BY Zenon
<1>2. \A v : LET new == [was EXCEPT !.row = v]
             IN  DOMAIN new = OrderFields /\ new.confirmed = was.confirmed /\ new.refunded = was.refunded
  BY DEF OrderFields
<1>3. QED
  BY <1>1, <1>2, Zenon

LEMMA FailureOnly ==
    ASSUME NEW was, DOMAIN was = OrderFields, NEW x
    PROVE  LET new == [was EXCEPT !.row.failed = x]
           IN  DOMAIN new = OrderFields /\ new.confirmed = was.confirmed /\ new.refunded = was.refunded
<1>1. [was EXCEPT !.row.failed = x] = [was EXCEPT !.row = [was.row EXCEPT !.failed = x]]
  BY Zenon
<1>2. \A v : LET new == [was EXCEPT !.row = v]
             IN  DOMAIN new = OrderFields /\ new.confirmed = was.confirmed /\ new.refunded = was.refunded
  BY DEF OrderFields
<1>3. QED
  BY <1>1, <1>2, Zenon

LEMMA BookingOnly ==
    ASSUME NEW was, DOMAIN was = OrderFields, NEW x, NEW y
    PROVE  LET new == [was EXCEPT !.row.booked = y, !.row.failed = x]
           IN  DOMAIN new = OrderFields /\ new.confirmed = was.confirmed /\ new.refunded = was.refunded
<1>1. [was EXCEPT !.row.booked = y, !.row.failed = x]
          = [[was EXCEPT !.row = [was.row EXCEPT !.booked = y]] EXCEPT !.row.failed = x]
  BY Zenon
<1>2. \A o : [o EXCEPT !.row.failed = x] = [o EXCEPT !.row = [o.row EXCEPT !.failed = x]]
  BY Zenon
<1>3. \A v, w : LET new == [[was EXCEPT !.row = v] EXCEPT !.row = w]
                IN  DOMAIN new = OrderFields /\ new.confirmed = was.confirmed /\ new.refunded = was.refunded
  BY DEF OrderFields
<1>4. QED
  BY <1>1, <1>2, <1>3, Zenon

LEMMA AfterKeeps ==
    ASSUME NEW a, NEW was, DOMAIN was = OrderFields, NEW new \in After(a, was)
    PROVE  /\ DOMAIN new = OrderFields
           /\ new.confirmed \in {was.confirmed, a.receipt}
           /\ new.refunded \in {was.refunded, a.receipt}
<1> DEFINE becomes(s) == [was EXCEPT !.row.status = s]
           sound(n) == /\ DOMAIN n = OrderFields /\ n.confirmed \in {was.confirmed, a.receipt}
                       /\ n.refunded \in {was.refunded, a.receipt}
<1>1. \A s : DOMAIN becomes(s) = OrderFields /\ becomes(s).confirmed = was.confirmed
             /\ becomes(s).refunded = was.refunded
  BY RowOnly
<1> HIDE DEF becomes
<1>2. \A s : sound(becomes(s))
  BY <1>1
<1>3. \A s : sound([becomes(s) EXCEPT !.confirmed = a.receipt]) /\ sound([becomes(s) EXCEPT !.refunded = a.receipt])
  BY <1>1 DEF OrderFields
<1>4. \A s, x, y : sound([becomes(s) EXCEPT !.row.booked = y, !.row.failed = x])
  <2> TAKE s, x, y
  <2>1. LET n == [becomes(s) EXCEPT !.row.booked = y, !.row.failed = x]
        IN  DOMAIN n = OrderFields /\ n.confirmed = becomes(s).confirmed /\ n.refunded = becomes(s).refunded
    BY <1>1, BookingOnly
  <2>2. QED
    BY <1>1, <2>1
<1>5. \A x : sound([was EXCEPT !.row.failed = x])
  BY FailureOnly
<1>6. sound(was)
  OBVIOUS
<1> HIDE DEF sound
<1>7. sound(new)
  <2>1. CASE a.kind = "confirm"
    <3>1. new = [becomes("paid") EXCEPT !.confirmed = a.receipt]
      BY <2>1, Zenon DEF After, becomes
    <3>2. QED
      BY <1>3, <3>1, Zenon
  <2>2. CASE a.kind = "reconcile"
    <3>1. new = becomes("paid") \/ new = was
      BY <2>2, Zenon DEF After, becomes
    <3>2. QED
      BY <1>2, <1>6, <3>1, Zenon
  <2>3. CASE a.kind \in {"ship", "manual"}
    <3>1. CASE a.kind = "ship"
      <4>1. new = [becomes("shipped") EXCEPT !.row.booked = TRUE, !.row.failed = FALSE]
        BY <3>1, Zenon DEF After, becomes
      <4>2. QED
        BY <1>4, <4>1, Zenon
    <3>2. CASE a.kind = "manual"
      <4>1. new = [becomes("shipped") EXCEPT !.row.booked = FALSE, !.row.failed = FALSE]
        BY <3>2, Zenon DEF After, becomes
      <4>2. QED
        BY <1>4, <4>1, Zenon
    <3>3. QED
      BY <2>3, <3>1, <3>2
  <2>4. CASE a.kind = "complete"
    <3>1. new = becomes("completed")
      BY <2>4, Zenon DEF After, becomes
    <3>2. QED
      BY <1>2, <3>1, Zenon
  <2>5. CASE a.kind = "refund"
    <3>1. new = [becomes("cancelled") EXCEPT !.refunded = a.receipt]
      BY <2>5, Zenon DEF After, becomes
    <3>2. QED
      BY <1>3, <3>1, Zenon
  <2>6. CASE a.kind \notin {"confirm", "reconcile", "ship", "manual", "complete", "refund"}
    <3>1. \E x \in BOOLEAN : new = [was EXCEPT !.row.failed = x]
      BY <2>6, Zenon DEF After
    <3>2. QED
      BY <1>5, <3>1, Zenon
  <2>7. QED
    BY <2>1, <2>2, <2>3, <2>4, <2>5, <2>6
<1>8. QED
  BY <1>7 DEF sound

\* The server writes one order, from a request that is about it or from nothing.
LEMMA OrderWritten ==
    ASSUME OrdersInv, UNCHANGED <<orderDialog, uploads>>, NEW o \in ShopOrders, NEW new,
           \A a \in actions' : DOMAIN a = ActionFields /\ a.order \in ShopOrders
                               /\ a.receipt \in {"none", a.order},
           placed' = [placed EXCEPT ![o] = new], DOMAIN new = OrderFields,
           new.confirmed \in {"none", o}, new.refunded \in {"none", o}
    PROVE  OrdersInv'
<1>1. /\ DOMAIN placed' = ShopOrders /\ placed'[o] = new
      /\ \A p \in ShopOrders : p # o => placed'[p] = placed[p]
  BY DEF OrdersInv, OrdersShape
<1>2. OrdersShape'
  BY <1>1 DEF OrdersInv, OrdersShape
<1>3. ReceiptIsOfItsOrder'
  BY <1>1 DEF OrdersInv, ReceiptIsOfItsOrder
<1>4. QED
  BY <1>2, <1>3 DEF OrdersInv, ReceiptsKnown

LEMMA OrdersInitInv == ASSUME OrdersInit PROVE OrdersInv
<1>1. OrdersShape
  BY DEF OrdersInit, OrdersShape, NoDialog, Opened, NotUploading, OrderFields, DialogFields,
         UploadFields, ActionFields
<1>2. ReceiptsKnown
  BY DEF OrdersInit, ReceiptsKnown, NoDialog, Opened, NotUploading
<1>3. ReceiptIsOfItsOrder
  BY DEF OrdersInit, ReceiptIsOfItsOrder
<1>4. QED
  BY <1>1, <1>2, <1>3 DEF OrdersInv

LEMMA OrdersStep == ASSUME OrdersInv, [OrdersNext]_ordersVars PROVE OrdersInv'
<1>0. /\ OrdersShape /\ ReceiptsKnown /\ ReceiptIsOfItsOrder
      /\ \A a \in actions : DOMAIN a = ActionFields /\ a.order \in ShopOrders
                            /\ a.receipt \in {"none", a.order}
  BY DEF OrdersInv, OrdersShape, ReceiptsKnown
<1>1. ASSUME NEW o \in ShopOrders, OpenDialog(o) \/ OpenFromMenu(o) PROVE OrdersInv'
  <2>1. orderDialog.kind = "none" /\ UNCHANGED <<placed, uploads, actions>>
        /\ \E kind : orderDialog' = Opened(kind, o)
    BY <1>1 DEF OpenDialog, OpenFromMenu, NoDialog, Opened
  <2>2. QED
    BY <2>1, DialogAnew DEF Opened
<1>2. ASSUME NEW o \in ShopOrders, OpenDetail(o) PROVE OrdersInv'
  <2>1. orderDialog.kind = "none" /\ UNCHANGED <<placed, uploads, actions>>
        /\ orderDialog' = [kind |-> "detail", order |-> o, row |-> rows[o], receipt |-> "none", error |-> FALSE]
    BY <1>2 DEF OpenDetail, NoDialog, Opened
  <2>2. QED
    BY <2>1, DialogAnew
<1>3. CASE HandOver
  <2>1. orderDialog.kind = "detail" /\ UNCHANGED <<placed, uploads, actions>>
        /\ \E kind : orderDialog' = Opened(kind, orderDialog.order)
    BY <1>3 DEF HandOver
  <2>2. orderDialog.order \in ShopOrders
    BY <1>0, <2>1 DEF ReceiptsKnown
  <2>3. QED
    BY <2>1, <2>2, DialogAnew DEF Opened
<1>4. CASE CloseDialog
  BY <1>4, DialogGone DEF CloseDialog
<1>5. ASSUME NEW f \in Files, ChooseReceipt(f) PROVE OrdersInv'
  <2>1. /\ orderDialog.kind \in NeedsReceipt /\ UNCHANGED <<placed, orderDialog, actions>>
        /\ uploads' = [uploads EXCEPT ![f] = [kind |-> orderDialog.kind, of |-> orderDialog.order,
                                              live |-> TRUE, chosen |-> TRUE]]
    BY <1>5 DEF ChooseReceipt
  <2>2. orderDialog.kind # "none"
    BY <2>1 DEF NeedsReceipt
  <2>3. QED
    BY <2>1, <2>2, ReceiptArrives DEF UploadFields
<1>6. ASSUME NEW f \in Files, ReceiptStored(f) PROVE OrdersInv'
  <2>1. /\ UNCHANGED <<placed, actions>>
        /\ uploads' = [uploads EXCEPT ![f] = [NotUploading EXCEPT !.chosen = TRUE]]
        /\ \/ uploads[f].live /\ orderDialog' = [orderDialog EXCEPT !.receipt = uploads[f].of]
           \/ UNCHANGED orderDialog
    BY <1>6 DEF ReceiptStored
  <2>3. LET u == [NotUploading EXCEPT !.chosen = TRUE] IN DOMAIN u = UploadFields /\ ~u.live
    BY DEF NotUploading, UploadFields
  <2>2. uploads[f].live => uploads[f].of = orderDialog.order /\ orderDialog.kind # "none"
    BY <1>0 DEF ReceiptsKnown, NeedsReceipt
  <2>4. QED
    BY <2>1, <2>2, <2>3, ReceiptArrives
<1>7. ASSUME NEW kind, SubmitDialog(kind), kind \in Dialogs \cup {"manual"} PROVE OrdersInv'
  <2>1. /\ UNCHANGED <<placed, uploads>> /\ orderDialog.kind = DialogOf(kind)
        /\ orderDialog' = [orderDialog EXCEPT !.error = FALSE]
        /\ actions' = actions \cup {[kind |-> kind, order |-> orderDialog.order,
                                     receipt |-> orderDialog.receipt, answer |-> "none"]}
    BY <1>7 DEF SubmitDialog, Sends
  <2>2. orderDialog.order \in ShopOrders /\ orderDialog.receipt \in {"none", orderDialog.order}
    BY <1>0, <1>7, <2>1 DEF ReceiptsKnown, Dialogs, DialogOf
  <2>3. \A a \in actions' : DOMAIN a = ActionFields /\ a.order \in ShopOrders
                            /\ a.receipt \in {"none", a.order}
    BY <1>0, <2>1, <2>2 DEF ActionFields
  <2>4. QED
    BY <2>1, <2>3, DialogKept
<1>8. ASSUME NEW o \in ShopOrders, NEW kind \in Direct, SendDirect(kind, o) PROVE OrdersInv'
  <2>1. /\ UNCHANGED <<placed, uploads, orderDialog>>
        /\ actions' = actions \cup {[kind |-> kind, order |-> o, receipt |-> "none", answer |-> "none"]}
    BY <1>8 DEF SendDirect, Sends
  <2>2. \A a \in actions' : DOMAIN a = ActionFields /\ a.order \in ShopOrders
                            /\ a.receipt \in {"none", a.order}
    BY <1>0, <2>1 DEF ActionFields
  <2>3. QED
    BY <2>1, <2>2, DialogKept
<1>9. ASSUME NEW a \in actions, ServerActs(a) PROVE OrdersInv'
  <2>1. PICK new \in After(a, placed[a.order]) : placed' = [placed EXCEPT ![a.order] = new]
    BY <1>9 DEF ServerActs
  <2>2. /\ UNCHANGED <<orderDialog, uploads>>
        /\ actions' = (actions \ {a}) \cup {[a EXCEPT !.answer = "done"]}
    BY <1>9 DEF ServerActs
  <2>3. a.order \in ShopOrders /\ DOMAIN placed[a.order] = OrderFields
        /\ placed[a.order].confirmed \in {"none", a.order} /\ placed[a.order].refunded \in {"none", a.order}
    BY <1>0, <1>9 DEF OrdersShape, ReceiptIsOfItsOrder
  <2>4. /\ DOMAIN new = OrderFields /\ new.confirmed \in {placed[a.order].confirmed, a.receipt}
        /\ new.refunded \in {placed[a.order].refunded, a.receipt}
    BY <2>3, AfterKeeps
  <2>5. \A b \in actions' : DOMAIN b = ActionFields /\ b.order \in ShopOrders
                            /\ b.receipt \in {"none", b.order}
    BY <1>0, <1>9, <2>2 DEF ActionFields
  <2>6. QED
    BY <1>0, <1>9, <2>1, <2>2, <2>3, <2>4, <2>5, OrderWritten
<1>10. ASSUME NEW a \in actions, ServerRefuses(a) \/ ActionFails(a) PROVE OrdersInv'
  <2>1. /\ actions' \subseteq actions \cup {[a EXCEPT !.answer = "refused"]}
        /\ UNCHANGED <<placed, uploads>>
        /\ orderDialog' \in {orderDialog, [orderDialog EXCEPT !.error = TRUE]}
    BY <1>10 DEF ServerRefuses, ActionFails
  <2>2. \A b \in actions' : DOMAIN b = ActionFields /\ b.order \in ShopOrders
                            /\ b.receipt \in {"none", b.order}
    BY <1>0, <1>10, <2>1 DEF ActionFields
  <2>3. QED
    BY <2>1, <2>2, DialogKept
<1>11. ASSUME NEW a \in actions, ActionDone(a) PROVE OrdersInv'
  <2>1. /\ actions' \subseteq actions /\ UNCHANGED placed
        /\ \/ orderDialog' = NoDialog /\ uploads' = Unmounted
           \/ UNCHANGED <<orderDialog, uploads>>
    BY <1>11 DEF ActionDone
  <2>2. QED
    BY <1>0, <2>1, DialogGone, DialogKept
<1>12. ASSUME NEW o \in ShopOrders, OrderMovesOn(o) PROVE OrdersInv'
  <2>1. UNCHANGED <<orderDialog, uploads, actions>>
    BY <1>12 DEF OrderMovesOn
  <2>2. DOMAIN placed = ShopOrders /\ DOMAIN placed[o] = OrderFields
        /\ placed[o].confirmed \in {"none", o} /\ placed[o].refunded \in {"none", o}
    BY <1>0 DEF OrdersShape, ReceiptIsOfItsOrder
  <2>3. \/ \E s : placed' = [placed EXCEPT ![o] = [placed[o] EXCEPT !.row.status = s]]
        \/ \E x : placed' = [placed EXCEPT ![o] = [placed[o] EXCEPT !.row.failed = x]]
    BY <1>12, Zenon DEF OrderMovesOn
  <2>4. \E new : placed' = [placed EXCEPT ![o] = new] /\ DOMAIN new = OrderFields
                 /\ new.confirmed = placed[o].confirmed /\ new.refunded = placed[o].refunded
    <3>1. CASE \E s : placed' = [placed EXCEPT ![o] = [placed[o] EXCEPT !.row.status = s]]
      <4>1. PICK s : placed' = [placed EXCEPT ![o] = [placed[o] EXCEPT !.row.status = s]]
        BY <3>1
      <4>2. QED
        BY <2>2, <4>1, RowOnly
    <3>2. CASE \E x : placed' = [placed EXCEPT ![o] = [placed[o] EXCEPT !.row.failed = x]]
      <4>1. PICK x : placed' = [placed EXCEPT ![o] = [placed[o] EXCEPT !.row.failed = x]]
        BY <3>2
      <4>2. QED
        BY <2>2, <4>1, FailureOnly
    <3>3. QED
      BY <2>3, <3>1, <3>2
  <2>5. QED
    BY <1>0, <2>1, <2>2, <2>4, OrderWritten
<1>13. CASE RowsArrive \/ SearchFires \/ UNCHANGED ordersVars
            \/ (\E text \in {"", "a", "b"} : TypeSearch(text))
            \/ (\E option \in {"all", "paid", "ready_to_ship"} : SelectFilter(option))
            \/ (\E day \in Days : SetSingleDate(day) \/ \E end \in {"from", "to"} : SetRange(end, day))
            \/ (\E mode \in {"single", "range"} : SwitchMode(mode))
  <2>1. UNCHANGED <<placed, orderDialog, uploads, actions>>
    BY <1>13 DEF RowsArrive, SearchFires, TypeSearch, SelectFilter, SetSingleDate, SetRange, SwitchMode,
                 toolbarShown, ordersVars, orderActionVars
  <2>2. QED
    BY <1>0, <2>1, DialogKept
<1>14. QED
  BY <1>1, <1>2, <1>3, <1>4, <1>5, <1>6, <1>7, <1>8, <1>9, <1>10, <1>11, <1>12, <1>13 DEF OrdersNext

\* Whatever orders, files and requests there are, an order is confirmed or refunded
\* with no other order's receipt.
THEOREM ReceiptsAreKept == OrdersSpec => []ReceiptIsOfItsOrder
<1>1. OrdersInit => OrdersInv
  BY OrdersInitInv
<1>2. OrdersInv /\ [OrdersNext]_ordersVars => OrdersInv'
  BY OrdersStep
<1>3. OrdersInv => ReceiptIsOfItsOrder
  BY DEF OrdersInv
<1>4. QED
  BY <1>1, <1>2, <1>3, PTL DEF OrdersSpec

\* The types of the toolbar, which keeps showing the query it asks.
ToolbarTypes ==
    /\ ordersQuery \in ToolbarQueries /\ searchTyped \in {"", "a", "b"} /\ searchTimer \in BOOLEAN
    /\ dateMode \in {"single", "range"} /\ ToolbarShowsTheQuery

\* The types of the list and its dialogs: of the orders, of the page's copy, of the
\* dialog that is open, of the files on their way and of the requests.
PlacedSet  == [row : Rows, confirmed : Receipt, refunded : Receipt]
DialogSet  == [kind : Dialogs \cup {"none", "detail"}, order : Receipt, row : Rows,
               receipt : Receipt, error : BOOLEAN]
UploadSet  == [kind : NeedsReceipt \cup {"none"}, of : Receipt, live : BOOLEAN, chosen : BOOLEAN]

ListTypesOK ==
    /\ placed \in [ShopOrders -> PlacedSet] /\ rows \in [ShopOrders -> Rows] /\ rowsDue \in BOOLEAN
    /\ orderDialog \in DialogSet /\ uploads \in [Files -> UploadSet]
    /\ actions \in SUBSET ActionRecords /\ orderMoves \in 0..OrderMoves

OrdersTypes == ordersPart \in {"dialogs", "toolbar"} /\ ToolbarTypes /\ ListTypesOK

LEMMA OrdersBounds == OrderMoves \in Nat /\ 0 \in 0..OrderMoves /\ "none" \notin ShopOrders
<1>1. OrderMoves \in Nat /\ "none" \notin ShopOrders
  BY OrdersConstants
<1>2. QED
  BY <1>1

LEMMA MovesCounted ==
    ASSUME orderMoves \in 0..OrderMoves, orderMoves < OrderMoves PROVE orderMoves + 1 \in 0..OrderMoves
<1>1. \A m, n \in Nat : n < m => n + 1 \in 0..m
  OBVIOUS
<1>2. QED
  BY <1>1, OrdersBounds

LEMMA OrderRowsFit ==
    /\ NoRow \in Rows /\ [status |-> "shipped", booked |-> TRUE, failed |-> FALSE] \in Rows
    /\ NotUploading \in UploadSet /\ [NotUploading EXCEPT !.chosen = TRUE] \in UploadSet
<1>1. NoRow \in Rows /\ [status |-> "shipped", booked |-> TRUE, failed |-> FALSE] \in Rows
  BY DEF NoRow, Rows, OrderStatuses
<1>2. NotUploading \in UploadSet /\ [NotUploading EXCEPT !.chosen = TRUE] \in UploadSet
  BY DEF NotUploading, UploadSet, Receipt
<1>3. QED
  BY <1>1, <1>2

LEMMA OpenedFits ==
    /\ \A kind \in Dialogs \cup {"none", "detail"}, o \in Receipt :
           /\ Opened(kind, o) \in DialogSet
           /\ \A r \in Rows : [Opened(kind, o) EXCEPT !.row = r] \in DialogSet
    /\ NoDialog \in DialogSet
BY OrderRowsFit DEF Opened, NoDialog, DialogSet, Receipt

LEMMA PrimaryIsADialog == ASSUME NEW o, Primary(o) # "none" PROVE Primary(o) \in Dialogs
<1>1. Primary(o) \in {"confirm", "ship", "complete", "none"}
  BY DEF Primary
<1>2. QED
  BY <1>1 DEF Dialogs

LEMMA OrdersTypesInit == ASSUME OrdersInit PROVE OrdersTypes
<1>1. placed \in [ShopOrders -> PlacedSet]
  BY OrderRowsFit DEF OrdersInit, PlacedSet, Receipt
<1>2. rows \in [ShopOrders -> Rows]
  BY <1>1 DEF OrdersInit, PlacedSet
<1>3. orderDialog \in DialogSet
  BY OpenedFits DEF OrdersInit
<1>4. uploads \in [Files -> UploadSet]
  BY OrderRowsFit DEF OrdersInit
<1>5. ListTypesOK
  BY <1>1, <1>2, <1>3, <1>4, OrdersBounds DEF OrdersInit, ListTypesOK
<1>6. ToolbarTypes
  BY DEF OrdersInit, ToolbarTypes, ToolbarShowsTheQuery
<1>7. QED
  BY <1>5, <1>6 DEF OrdersInit, OrdersTypes

LEMMA ToolbarStep ==
    ASSUME ToolbarTypes, [OrdersNext]_ordersVars PROVE ToolbarTypes'
<1> USE DEF ToolbarTypes
<1>1. CASE UNCHANGED toolbarVars
  BY <1>1 DEF toolbarVars, ToolbarShowsTheQuery
<1>2. ASSUME NEW text \in {"", "a", "b"}, TypeSearch(text) PROVE ToolbarTypes'
  BY <1>2 DEF TypeSearch, ToolbarShowsTheQuery
<1>3. CASE SearchFires
  <2>1. ordersQuery' = [ordersQuery EXCEPT !.q = searchTyped] /\ UNCHANGED <<searchTyped, dateMode>>
        /\ searchTimer' = FALSE
    BY <1>3 DEF SearchFires
  <2>2. ordersQuery' \in ToolbarQueries
    BY <2>1 DEF ToolbarQueries
  <2>3. QED
    BY <2>1, <2>2 DEF ToolbarShowsTheQuery, ToolbarQueries
<1>4. ASSUME NEW option \in {"all", "paid", "ready_to_ship"}, SelectFilter(option) PROVE ToolbarTypes'
  <2>1. /\ ordersQuery' = IF option = "ready_to_ship"
                          THEN [ordersQuery EXCEPT !.status = "all", !.queue = option]
                          ELSE [ordersQuery EXCEPT !.status = option, !.queue = ""]
        /\ UNCHANGED <<searchTyped, searchTimer, dateMode>>
    BY <1>4 DEF SelectFilter
  <2>2. ordersQuery' \in ToolbarQueries
    BY <2>1 DEF ToolbarQueries
  <2>3. /\ ordersQuery'.q = ordersQuery.q /\ ordersQuery'.from = ordersQuery.from
        /\ ordersQuery'.to = ordersQuery.to
        /\ ordersQuery'.queue # "" => ordersQuery'.status = "all"
    BY <2>1 DEF ToolbarQueries
  <2>4. QED
    BY <2>1, <2>2, <2>3 DEF ToolbarShowsTheQuery
<1>5. ASSUME NEW day \in Days, SetSingleDate(day) PROVE ToolbarTypes'
  BY <1>5 DEF SetSingleDate, ToolbarShowsTheQuery, ToolbarQueries
<1>6. ASSUME NEW day \in Days, NEW end \in {"from", "to"}, SetRange(end, day) PROVE ToolbarTypes'
  BY <1>6 DEF SetRange, ToolbarShowsTheQuery, ToolbarQueries
<1>7. ASSUME NEW mode \in {"single", "range"}, SwitchMode(mode) PROVE ToolbarTypes'
  BY <1>7 DEF SwitchMode, ToolbarShowsTheQuery, ToolbarQueries
<1>8. CASE dialogsShown
  BY <1>1, <1>8 DEF dialogsShown
<1>9. CASE \/ \E o \in ShopOrders :
                \/ OpenDialog(o) \/ OpenFromMenu(o) \/ OpenDetail(o) \/ OrderMovesOn(o)
                \/ \E kind \in Direct : SendDirect(kind, o)
           \/ HandOver \/ CloseDialog \/ RowsArrive
           \/ \E f \in Files : ChooseReceipt(f) \/ ReceiptStored(f)
           \/ \E kind \in Dialogs \cup {"manual"} : SubmitDialog(kind)
           \/ \E a \in actions : ServerActs(a) \/ ServerRefuses(a) \/ ActionDone(a) \/ ActionFails(a)
  <2>1. dialogsShown
    BY <1>9, Zenon
       DEF OpenDialog, OpenFromMenu, OpenDetail, OrderMovesOn, SendDirect, HandOver, CloseDialog,
           RowsArrive, ChooseReceipt, ReceiptStored, SubmitDialog, ServerActs, ServerRefuses,
           ActionDone, ActionFails
  <2>2. QED
    BY <1>8, <2>1
<1>10. CASE UNCHANGED ordersVars
  BY <1>1, <1>10 DEF ordersVars
<1>11. QED
  BY <1>2, <1>3, <1>4, <1>5, <1>6, <1>7, <1>9, <1>10 DEF OrdersNext

\* What a handler makes of an order is an order.
LEMMA AfterFits ==
    ASSUME NEW a \in ActionRecords, NEW was \in PlacedSet, NEW made \in After(a, was)
    PROVE  made \in PlacedSet
<1>1. was.row \in Rows /\ a.receipt \in Receipt
  BY DEF PlacedSet, ActionRecords
<1>2. ASSUME NEW s \in OrderStatuses
      PROVE  [was EXCEPT !.row.status = s] \in PlacedSet
  <2>1. [was.row EXCEPT !.status = s] \in Rows
    BY <1>1 DEF Rows
  <2>2. QED
    BY <2>1 DEF PlacedSet
<1>3. ASSUME NEW x \in BOOLEAN PROVE [was EXCEPT !.row.failed = x] \in PlacedSet
  <2>1. [was.row EXCEPT !.failed = x] \in Rows
    BY <1>1 DEF Rows
  <2>2. QED
    BY <2>1 DEF PlacedSet
<1>4. ASSUME NEW b \in BOOLEAN
      PROVE  [[was EXCEPT !.row.status = "shipped"] EXCEPT !.row.booked = b, !.row.failed = FALSE]
                 \in PlacedSet
  <2> DEFINE o == [was EXCEPT !.row.status = "shipped"]
  <2>1. o \in PlacedSet /\ o.row \in Rows
    BY <1>2 DEF OrderStatuses, PlacedSet
  <2> HIDE DEF o
  <2>2. [[o.row EXCEPT !.booked = b] EXCEPT !.failed = FALSE] \in Rows
    BY <2>1 DEF Rows
  <2>3. [o EXCEPT !.row.booked = b, !.row.failed = FALSE] \in PlacedSet
    BY <2>1, <2>2 DEF PlacedSet
  <2>4. QED
    BY <2>3 DEF o
<1>5. /\ "paid" \in OrderStatuses /\ "shipped" \in OrderStatuses /\ "completed" \in OrderStatuses
      /\ "cancelled" \in OrderStatuses
  BY DEF OrderStatuses
<1>6. CASE a.kind = "confirm"
  <2>1. made = [[was EXCEPT !.row.status = "paid"] EXCEPT !.confirmed = a.receipt]
    BY <1>6 DEF After
  <2>2. QED
    BY <1>1, <1>2, <1>5, <2>1 DEF PlacedSet
<1>7. CASE a.kind = "reconcile"
  <2>1. made \in {[was EXCEPT !.row.status = "paid"], was}
    BY <1>7 DEF After
  <2>2. QED
    BY <1>2, <1>5, <2>1
<1>8. CASE a.kind \in {"ship", "manual"}
  <2>1. \E b \in BOOLEAN :
            made = [[was EXCEPT !.row.status = "shipped"] EXCEPT !.row.booked = b, !.row.failed = FALSE]
    BY <1>8 DEF After
  <2>2. QED
    BY <1>4, <2>1
<1>9. CASE a.kind = "complete"
  <2>1. made = [was EXCEPT !.row.status = "completed"]
    BY <1>9 DEF After
  <2>2. QED
    BY <1>2, <1>5, <2>1
<1>10. CASE a.kind = "refund"
  <2>1. made = [[was EXCEPT !.row.status = "cancelled"] EXCEPT !.refunded = a.receipt]
    BY <1>10 DEF After
  <2>2. QED
    BY <1>1, <1>2, <1>5, <2>1 DEF PlacedSet
<1>11. CASE a.kind \notin {"confirm", "reconcile", "ship", "manual", "complete", "refund"}
  <2>1. \E x \in BOOLEAN : made = [was EXCEPT !.row.failed = x]
    BY <1>11 DEF After
  <2>2. QED
    BY <1>3, <2>1
<1>12. QED
  BY <1>6, <1>7, <1>8, <1>9, <1>10, <1>11

\* A step of the page: it leaves the orders and the list of rows alone.
LEMMA DialogStepFits ==
    ASSUME ListTypesOK, UNCHANGED <<placed, rows, orderMoves>>, rowsDue' \in BOOLEAN,
           orderDialog' \in DialogSet, uploads' \in [Files -> UploadSet],
           actions' \in SUBSET ActionRecords
    PROVE  ListTypesOK'
BY DEF ListTypesOK

LEMMA UnmountedFits == ASSUME ListTypesOK PROVE Unmounted \in [Files -> UploadSet]
BY DEF ListTypesOK, UploadSet, Unmounted

LEMMA ActionSent ==
    ASSUME ListTypesOK, NEW kind \in Dialogs \cup Direct \cup {"manual"}, NEW o \in ShopOrders,
           NEW receipt \in Receipt, Sends(kind, o, receipt)
    PROVE  actions' \in SUBSET ActionRecords
<1>1. [kind |-> kind, order |-> o, receipt |-> receipt, answer |-> "none"] \in ActionRecords
  BY DEF ActionRecords
<1>2. QED
  BY <1>1 DEF Sends, ListTypesOK

LEMMA ActionAnswered ==
    ASSUME ListTypesOK, NEW a \in actions, NEW answer \in {"done", "refused"},
           actions' = (actions \ {a}) \cup {[a EXCEPT !.answer = answer]}
    PROVE  actions' \in SUBSET ActionRecords
<1>1. [a EXCEPT !.answer = answer] \in ActionRecords
  BY DEF ActionRecords, ListTypesOK
<1>2. QED
  BY <1>1 DEF ListTypesOK

LEMMA ListStep ==
    ASSUME OrdersInv, ListTypesOK, [OrdersNext]_ordersVars PROVE ListTypesOK'
<1>0. /\ placed \in [ShopOrders -> PlacedSet] /\ rows \in [ShopOrders -> Rows] /\ rowsDue \in BOOLEAN
      /\ orderDialog \in DialogSet /\ uploads \in [Files -> UploadSet]
      /\ actions \in SUBSET ActionRecords /\ orderMoves \in 0..OrderMoves
      /\ ShopOrders \subseteq Receipt /\ "none" \in Receipt /\ OrdersShape /\ ReceiptsKnown
  BY DEF ListTypesOK, Receipt, OrdersInv
<1>1. CASE UNCHANGED orderActionVars
  BY <1>1 DEF orderActionVars, ListTypesOK
<1>2. ASSUME NEW o \in ShopOrders, OpenDialog(o) PROVE ListTypesOK'
  <2>1. orderDialog' = Opened(Primary(o), o) /\ Primary(o) \in Dialogs
    BY <1>2, PrimaryIsADialog DEF OpenDialog
  <2>2. orderDialog' \in DialogSet
    BY <1>0, <2>1, OpenedFits
  <2>3. QED
    BY <1>0, <1>2, <2>2, DialogStepFits DEF OpenDialog
<1>3. ASSUME NEW o \in ShopOrders, OpenFromMenu(o) PROVE ListTypesOK'
  <2>1. \E kind \in {"refund", "cancel"} : orderDialog' = Opened(kind, o)
    BY <1>3 DEF OpenFromMenu
  <2>2. orderDialog' \in DialogSet
    BY <1>0, <2>1, OpenedFits DEF Dialogs
  <2>3. QED
    BY <1>0, <1>3, <2>2, DialogStepFits DEF OpenFromMenu
<1>4. ASSUME NEW o \in ShopOrders, OpenDetail(o) PROVE ListTypesOK'
  <2>1. orderDialog' \in DialogSet
    BY <1>0, <1>4, OpenedFits DEF OpenDetail
  <2>2. QED
    BY <1>0, <1>4, <2>1, DialogStepFits DEF OpenDetail
<1>5. CASE HandOver
  <2>1. \E kind \in {"ship", "refund", "cancel"} : orderDialog' = Opened(kind, orderDialog.order)
    BY <1>5 DEF HandOver
  <2>2. orderDialog.order \in Receipt
    BY <1>0 DEF DialogSet
  <2>3. orderDialog' \in DialogSet
    BY <2>1, <2>2, OpenedFits DEF Dialogs
  <2>4. QED
    BY <1>0, <1>5, <2>3, DialogStepFits DEF HandOver
<1>6. CASE CloseDialog
  BY <1>0, <1>6, OpenedFits, UnmountedFits, DialogStepFits DEF CloseDialog
<1>7. ASSUME NEW f \in Files, ChooseReceipt(f) PROVE ListTypesOK'
  <2>1. orderDialog.order \in Receipt /\ orderDialog.kind \in NeedsReceipt
    BY <1>0, <1>7 DEF ChooseReceipt, DialogSet
  <2>2. [kind |-> orderDialog.kind, of |-> orderDialog.order, live |-> TRUE, chosen |-> TRUE] \in UploadSet
    BY <2>1 DEF UploadSet
  <2>3. uploads' \in [Files -> UploadSet]
    BY <1>0, <1>7, <2>2 DEF ChooseReceipt
  <2>4. QED
    BY <1>0, <1>7, <2>3, DialogStepFits DEF ChooseReceipt
<1>8. ASSUME NEW f \in Files, ReceiptStored(f) PROVE ListTypesOK'
  <2>1. uploads' \in [Files -> UploadSet]
    BY <1>0, <1>8, OrderRowsFit DEF ReceiptStored
  <2>2. orderDialog' \in DialogSet
    <3>1. uploads[f].of \in Receipt
      BY <1>0 DEF UploadSet
    <3>2. orderDialog' \in {orderDialog, [orderDialog EXCEPT !.receipt = uploads[f].of]}
      BY <1>8 DEF ReceiptStored
    <3>3. QED
      BY <1>0, <3>1, <3>2 DEF DialogSet
  <2>3. QED
    BY <1>0, <1>8, <2>1, <2>2, DialogStepFits DEF ReceiptStored
<1>9. ASSUME NEW kind \in Dialogs \cup {"manual"}, SubmitDialog(kind) PROVE ListTypesOK'
  <2>1. orderDialog.kind # "none"
    BY <1>9 DEF SubmitDialog, DialogOf, Dialogs
  <2>2. orderDialog.order \in ShopOrders /\ orderDialog.receipt \in Receipt
    BY <1>0, <2>1 DEF ReceiptsKnown, DialogSet
  <2>3. actions' \in SUBSET ActionRecords
    BY <1>9, <2>2, ActionSent DEF SubmitDialog
  <2>4. orderDialog' \in DialogSet
    BY <1>0, <1>9 DEF SubmitDialog, DialogSet
  <2>5. QED
    BY <1>0, <1>9, <2>3, <2>4, DialogStepFits DEF SubmitDialog
<1>10. ASSUME NEW o \in ShopOrders, NEW kind \in Direct, SendDirect(kind, o) PROVE ListTypesOK'
  <2>1. actions' \in SUBSET ActionRecords
    BY <1>0, <1>10, ActionSent DEF SendDirect
  <2>2. QED
    BY <1>0, <1>10, <2>1, DialogStepFits DEF SendDirect
<1>11. ASSUME NEW a \in actions, ServerActs(a) PROVE ListTypesOK'
  <2>1. a \in ActionRecords /\ a.order \in ShopOrders
    BY <1>0 DEF ActionRecords
  <2>2. PICK made \in After(a, placed[a.order]) : placed' = [placed EXCEPT ![a.order] = made]
    BY <1>11 DEF ServerActs
  <2>3. made \in PlacedSet
    BY <1>0, <2>1, <2>2, AfterFits
  <2>4. placed' \in [ShopOrders -> PlacedSet]
    BY <1>0, <2>2, <2>3
  <2>5. actions' \in SUBSET ActionRecords
    BY <1>11, ActionAnswered DEF ServerActs
  <2>6. orderMoves' \in 0..OrderMoves
    BY <1>0, <1>11, MovesCounted DEF ServerActs
  <2>7. QED
    BY <1>0, <1>11, <2>4, <2>5, <2>6 DEF ServerActs, ListTypesOK
<1>12. ASSUME NEW a \in actions, ServerRefuses(a) PROVE ListTypesOK'
  <2>1. actions' \in SUBSET ActionRecords
    BY <1>12, ActionAnswered DEF ServerRefuses
  <2>2. QED
    BY <1>0, <1>12, <2>1, DialogStepFits DEF ServerRefuses
<1>13. ASSUME NEW a \in actions, ActionDone(a) PROVE ListTypesOK'
  <2>1. orderDialog' \in DialogSet /\ uploads' \in [Files -> UploadSet]
    BY <1>0, <1>13, OpenedFits, UnmountedFits DEF ActionDone
  <2>2. QED
    BY <1>0, <1>13, <2>1, DialogStepFits DEF ActionDone
<1>14. ASSUME NEW a \in actions, ActionFails(a) PROVE ListTypesOK'
  <2>1. orderDialog' \in DialogSet
    BY <1>0, <1>14 DEF ActionFails, DialogSet
  <2>2. QED
    BY <1>0, <1>14, <2>1, DialogStepFits DEF ActionFails
<1>15. CASE RowsArrive
  <2>1. rows' \in [ShopOrders -> Rows]
    BY <1>0, <1>15 DEF RowsArrive, PlacedSet
  <2>2. QED
    BY <1>0, <1>15, <2>1 DEF RowsArrive, ListTypesOK
<1>16. ASSUME NEW o \in ShopOrders, OrderMovesOn(o) PROVE ListTypesOK'
  <2>1. /\ orderMoves' \in 0..OrderMoves /\ UNCHANGED <<rows, rowsDue, orderDialog, uploads, actions>>
        /\ \/ \E s \in OrderStatuses : placed' = [placed EXCEPT ![o].row.status = s]
           \/ placed' = [placed EXCEPT ![o].row.failed = TRUE]
    BY <1>0, <1>16, MovesCounted DEF OrderMovesOn, OrderStatuses
  <2>2. placed[o] \in PlacedSet /\ placed[o].row \in Rows
    BY <1>0 DEF PlacedSet
  <2>3. ASSUME NEW s \in OrderStatuses PROVE [placed[o] EXCEPT !.row.status = s] \in PlacedSet
    <3>1. [placed[o].row EXCEPT !.status = s] \in Rows
      BY <2>2 DEF Rows
    <3>2. QED
      BY <2>2, <3>1 DEF PlacedSet
  <2>4. [placed[o] EXCEPT !.row.failed = TRUE] \in PlacedSet
    <3>1. [placed[o].row EXCEPT !.failed = TRUE] \in Rows
      BY <2>2 DEF Rows
    <3>2. QED
      BY <2>2, <3>1 DEF PlacedSet
  <2>5. placed' \in [ShopOrders -> PlacedSet]
    BY <1>0, <2>1, <2>3, <2>4
  <2>6. QED
    BY <1>0, <2>1, <2>5 DEF ListTypesOK
<1>17. CASE \/ \E text \in {"", "a", "b"} : TypeSearch(text)
            \/ SearchFires
            \/ \E option \in {"all", "paid", "ready_to_ship"} : SelectFilter(option)
            \/ \E day \in Days : SetSingleDate(day) \/ \E end \in {"from", "to"} : SetRange(end, day)
            \/ \E mode \in {"single", "range"} : SwitchMode(mode)
  <2>1. toolbarShown
    BY <1>17, Zenon DEF TypeSearch, SearchFires, SelectFilter, SetSingleDate, SetRange, SwitchMode
  <2>2. QED
    BY <1>1, <2>1 DEF toolbarShown
<1>18. CASE UNCHANGED ordersVars
  BY <1>1, <1>18 DEF ordersVars
<1>19. QED
  BY <1>2, <1>3, <1>4, <1>5, <1>6, <1>7, <1>8, <1>9, <1>10, <1>11, <1>12, <1>13, <1>14, <1>15, <1>16,
     <1>17, <1>18 DEF OrdersNext

LEMMA OrdersTypesStep ==
    ASSUME OrdersInv, OrdersTypes, [OrdersNext]_ordersVars PROVE OrdersTypes'
<1>1. ordersPart' = ordersPart
  BY Zenon
     DEF OrdersNext, OpenDialog, OpenFromMenu, OpenDetail, OrderMovesOn, SendDirect, HandOver,
         CloseDialog, RowsArrive, ChooseReceipt, ReceiptStored, SubmitDialog, ServerActs,
         ServerRefuses, ActionDone, ActionFails, TypeSearch, SearchFires, SelectFilter,
         SetSingleDate, SetRange, SwitchMode, dialogsShown, toolbarShown, ordersVars
<1>2. ToolbarTypes' /\ ListTypesOK'
  BY ToolbarStep, ListStep DEF OrdersTypes
<1>3. QED
  BY <1>1, <1>2 DEF OrdersTypes

\* Whatever the orders, every step of the list, its dialogs, its toolbar and the
\* server keeps them well typed, and the toolbar shows the query that is asked.
THEOREM OrdersTypesHold == OrdersSpec => []OrdersTypeOK
<1> DEFINE Inv == OrdersInv /\ OrdersTypes
<1>1. OrdersInit => Inv
  BY OrdersInitInv, OrdersTypesInit
<1>2. Inv /\ [OrdersNext]_ordersVars => Inv'
  BY OrdersStep, OrdersTypesStep
<1>3. Inv => OrdersTypeOK
  BY DEF OrdersTypes, ToolbarTypes, ListTypesOK, PlacedSet, DialogSet, UploadSet, OrdersTypeOK
<1> HIDE DEF Inv
<1>4. QED
  BY <1>1, <1>2, <1>3, PTL DEF OrdersSpec
===============================================================================
