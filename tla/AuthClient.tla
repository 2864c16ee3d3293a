------------------------------ MODULE AuthClient ------------------------------
(***************************************************************************)
(* Who the browser is signed in as: the persisted session (stores/auth),   *)
(* requests that refresh an expired access token and try again             *)
(* (lib/api), the sign-in, registration and sign-out pages, and the guards *)
(* of the page groups, which redirect on what the store says.              *)
(*                                                                         *)
(* A token is a number; owner says for whom the server issued it.  Access  *)
(* and refresh token of one session are issued together and share it.      *)
(***************************************************************************)
EXTENDS Naturals, Sequences

CONSTANTS
    Users, RoleOf,     \* RoleOf: "student" or "admin"
    Incomplete,        \* the Google students who have no school or grade yet
    Requests,          \* requests that may be under way together
    TokenBound         \* bound: sessions the server issues

ASSUME AuthConstants ==
    /\ RoleOf \in [Users -> {"student", "admin"}]
    /\ Incomplete \subseteq {u \in Users : RoleOf[u] = "student"}
    /\ TokenBound \in Nat \ {0} /\ "nobody" \notin Users

VARIABLES
    authStore,   \* localStorage "abak-auth": the token and the user
    owner,       \* server: whose session each issued token is
    fresh,       \* server: tokens that still open the API
    renewable,   \* server: tokens that can still be refreshed
    request,     \* the requests under way
    pending,     \* sessionStorage "abak-pending-token": who has to enter a code
    incomplete,  \* server: students whose profile is incomplete
    route        \* the page group shown

authVars == <<authStore, owner, fresh, renewable, request, pending, incomplete, route>>

Nobody  == "nobody"
Tokens  == 1..TokenBound
Issued  == DOMAIN owner
NoStore == [token |-> 0, user |-> Nobody]
Idle    == [state |-> "idle", token |-> 0, user |-> Nobody]

Routes == {"login", "otp", "student", "admin", "onboarding", "exam"}

AuthTypeOK ==
    /\ authStore \in [token : Tokens \cup {0}, user : Users \cup {Nobody}]
    /\ owner \in Seq(Users) /\ Len(owner) <= TokenBound
    /\ fresh \subseteq Issued /\ renewable \subseteq Issued
    /\ request \in [Requests -> [state : {"idle", "sent", "refreshing", "renewed"},
                                 token : Tokens \cup {0}, user : Users \cup {Nobody}]]
    /\ pending \in Users \cup {Nobody} /\ incomplete \subseteq Users
    /\ route \in Routes

-----------------------------------------------------------------------------
(* Sessions *)

\* The server issues a session to u.
Issue(u) ==
    /\ Len(owner) < TokenBound /\ owner' = Append(owner, u)

New == Len(owner) + 1

\* redirectForRole, and GoogleSignInButton's detour for an incomplete profile.
HomeOf(u) ==
    IF RoleOf[u] = "admin" THEN "admin"
    ELSE IF u \in incomplete THEN "onboarding" ELSE "student"

\* setSession after a sign-in, and the page's redirect.
SignedIn(u) ==
    /\ Issue(u)
    /\ fresh' = fresh \cup {New} /\ renewable' = renewable \cup {New}
    /\ authStore' = [token |-> New, user |-> u]

\* useLogin from either sign-in page (a rate-limited attempt is repeated), and
\* useGoogleLogin.
Login(u) ==
    /\ route = "login" /\ authStore.token = 0
    /\ SignedIn(u) /\ route' = HomeOf(u)
    /\ UNCHANGED <<request, pending, incomplete>>

\* Registration, or signing in before the code was entered: the pending token
\* is kept and the code page opens.
AskForCode(u) ==
    /\ route = "login" /\ authStore.token = 0 /\ RoleOf[u] = "student"
    /\ pending' = u /\ route' = "otp"
    /\ UNCHANGED <<authStore, owner, fresh, renewable, request, incomplete>>

\* OtpForm: the right code with its pending token signs in.
VerifyOtp ==
    /\ route = "otp" /\ pending # Nobody /\ authStore.token = 0
    /\ SignedIn(pending) /\ pending' = Nobody /\ route' = "student"
    /\ UNCHANGED <<request, incomplete>>

\* useLogout, once its call has ended either way: the store and the query cache
\* are cleared.  Other requests go on.
Logout ==
    /\ authStore.token # 0 /\ route \in {"student", "admin"}
    /\ authStore' = NoStore /\ route' = "login"
    /\ \E served \in BOOLEAN :
          fresh' = IF served THEN fresh \ {authStore.token} ELSE fresh
    /\ UNCHANGED <<owner, renewable, request, pending, incomplete>>

\* The access token's fifteen minutes end.
Expire ==
    /\ fresh # {}
    /\ \E k \in fresh : fresh' = fresh \ {k}
    /\ UNCHANGED <<authStore, owner, renewable, request, pending, incomplete, route>>

-----------------------------------------------------------------------------
(* A request *)

\* The store is cleared and the browser loads the sign-in page anew, which ends
\* every other request.
Evict ==
    /\ authStore' = NoStore /\ route' = "login"
    /\ request' = [r \in Requests |-> Idle]

\* authFetch reads the token when it starts.
Send(r) ==
    /\ request[r].state = "idle" /\ authStore.token # 0
    /\ request' = [request EXCEPT ![r] = [state |-> "sent", token |-> authStore.token, user |-> Nobody]]
    /\ UNCHANGED <<authStore, owner, fresh, renewable, pending, incomplete, route>>

\* Any answer but a 401.
Served(r) ==
    /\ request[r].state = "sent" /\ request[r].token \in fresh
    /\ request' = [request EXCEPT ![r] = Idle]
    /\ UNCHANGED <<authStore, owner, fresh, renewable, pending, incomplete, route>>

\* A 401.  tryRefresh takes the refresh token and the user the store holds now;
\* a session without a user is not renewed.
Unauthorized(r) ==
    /\ request[r].state = "sent" /\ request[r].token \notin fresh
    /\ \/ /\ authStore.token # 0 /\ authStore.user # Nobody
          /\ request' = [request EXCEPT ![r] = [state |-> "refreshing", token |-> authStore.token,
                                                user |-> authStore.user]]
          /\ UNCHANGED <<authStore, route>>
       \/ (authStore.token = 0 \/ authStore.user = Nobody) /\ Evict
    /\ UNCHANGED <<owner, fresh, renewable, pending, incomplete>>

\* POST /auth/refresh rotates the token it is given ...
RefreshServed(r) ==
    /\ request[r].state = "refreshing" /\ request[r].token \in renewable
    /\ Issue(owner[request[r].token])
    /\ renewable' = (renewable \ {request[r].token}) \cup {New}
    /\ fresh' = fresh \cup {New}
    /\ request' = [request EXCEPT ![r] = [state |-> "renewed", token |-> New, user |-> request[r].user]]
    /\ UNCHANGED <<authStore, pending, incomplete, route>>

\* RefreshStored, with the user read after the answer.
RefreshStored_UserReadLate(r) ==
    /\ request[r].state = "renewed"
    /\ authStore' = [token |-> request[r].token, user |-> authStore.user]
    /\ request' = [request EXCEPT ![r] = [state |-> "sent", token |-> request[r].token, user |-> Nobody]]
    /\ UNCHANGED <<owner, fresh, renewable, pending, incomplete, route>>

\* ... its answer is stored with the user tryRefresh had read, and the request
\* goes out again.
RefreshStored(r) ==
    /\ request[r].state = "renewed"
    /\ authStore' = [token |-> request[r].token, user |-> request[r].user]
    /\ request' = [request EXCEPT ![r] = [state |-> "sent", token |-> request[r].token, user |-> Nobody]]
    /\ UNCHANGED <<owner, fresh, renewable, pending, incomplete, route>>

\* A refresh that is refused, or lost on its way there or back, ends the session.
RefreshFails(r) ==
    /\ request[r].state \in {"refreshing", "renewed"}
    /\ Evict
    /\ UNCHANGED <<owner, fresh, renewable, pending, incomplete>>

-----------------------------------------------------------------------------
(* Pages and their guards *)

\* useResolvedRole: the stored user's role, else that of /auth/me.
Resolved ==
    IF authStore.user # Nobody THEN authStore.user
    ELSE IF authStore.token \in fresh THEN owner[authStore.token] ELSE Nobody

\* The student types an address, or follows a link.
GoTo(to) ==
    /\ to # route /\ to # "otp"
    /\ route' = to
    /\ UNCHANGED <<authStore, owner, fresh, renewable, request, pending, incomplete>>

\* StudentLayout and AdminLayout, when the session's role is not theirs, and
\* the sign-in layouts, which nobody signed in stays on.
Guard ==
    /\ route' = IF authStore.token = 0 THEN "login"
                ELSE IF route \in {"login", "otp"} THEN "student"
                ELSE IF Resolved = Nobody THEN route
                ELSE IF route \in {"student", "admin"} THEN HomeOf(Resolved)
                ELSE IF route = "onboarding" /\ Resolved \notin incomplete THEN "student"
                ELSE route
    /\ route' # route /\ ~(authStore.token = 0 /\ route = "otp")
    /\ UNCHANGED <<authStore, owner, fresh, renewable, request, pending, incomplete>>

\* CompleteProfilePage saves school and grade; the refetched profile lets the
\* student in.
CompleteProfile ==
    /\ route = "onboarding" /\ Resolved \in incomplete
    /\ incomplete' = incomplete \ {Resolved} /\ route' = "student"
    /\ UNCHANGED <<authStore, owner, fresh, renewable, request, pending>>

\* What the layouts put on the screen: a shell, or the waiting line.
StudentShell ==
    /\ route = "student" /\ authStore.token # 0 /\ Resolved # Nobody
    /\ RoleOf[Resolved] = "student" /\ Resolved \notin incomplete

AdminShell ==
    /\ route = "admin" /\ authStore.token # 0 /\ Resolved # Nobody
    /\ RoleOf[Resolved] = "admin"

-----------------------------------------------------------------------------
AuthInit ==
    /\ owner = <<>> /\ fresh = {} /\ renewable = {}
    /\ authStore = NoStore /\ request = [r \in Requests |-> Idle]
    /\ pending = Nobody /\ incomplete = Incomplete /\ route = "login"

\* The browser still holds a session stored without its user.
AuthInitLegacy ==
    \E u \in Users :
        /\ owner = <<u>> /\ fresh = {1} /\ renewable = {1}
        /\ authStore = [token |-> 1, user |-> Nobody] /\ request = [r \in Requests |-> Idle]
        /\ pending = Nobody /\ incomplete = Incomplete /\ route = "student"

AuthNext ==
    \/ \E u \in Users : Login(u) \/ AskForCode(u)
    \/ VerifyOtp \/ Logout \/ Expire \/ Guard \/ CompleteProfile
    \/ \E r \in Requests : \/ Send(r) \/ Served(r) \/ Unauthorized(r) \/ RefreshServed(r)
                           \/ RefreshStored(r) \/ RefreshFails(r)
    \/ \E to \in Routes : GoTo(to)

AuthSpec == (AuthInit \/ AuthInitLegacy) /\ [][AuthNext]_authVars

-----------------------------------------------------------------------------
\* A shell is only ever drawn for the person whose session the requests of its
\* pages carry, whatever refreshes, sign-outs and sign-ins overlapped.
ShellIsTheOwners ==
    StudentShell \/ AdminShell =>
        /\ owner[authStore.token] = Resolved
        /\ AdminShell <=> RoleOf[owner[authStore.token]] = "admin"

=============================================================================
