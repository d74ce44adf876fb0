---------------------------- MODULE AdminConsole ----------------------------
(***************************************************************************)
(* admin-ui in one browser tab: App.js and Login.js, the Dashboard, and the *)
(* form that sends notifications; with the registration of the users they   *)
(* are sent to (Accounts), and restarts of the backend.  What the server    *)
(* does with an event is one step here: NotificationPipeline has its        *)
(* details.                                                                 *)
(***************************************************************************)
EXTENDS Accounts

CONSTANTS
    MaxPosts,       \* bound: how often Send is pressed
    Selections,     \* bound: the lists of users that are selected
    All             \* the target list of a broadcast

Posts == 1..MaxPosts

Tokens == {"none", "admin", "user", "expired"}

PostType == [to : {All} \cup Selections, known : SUBSET Names, got : SUBSET Names,
             at : {"server", "accepted", "refused", "told", "gone"},
             mine : BOOLEAN]

SheetType == [lists : {"types", "users", "ready", "no types", "no users"}, admin : BOOLEAN,
              users : SUBSET Names, sending : BOOLEAN, success : BOOLEAN]

ASSUME ConsoleAssumption ==
    /\ MaxPosts \in Nat
    /\ Selections \subseteq SUBSET Names
    /\ \A names \in SUBSET Names : All # names
    /\ None \notin PostType /\ None \notin SheetType

VARIABLES
    token,          \* in localStorage: none, or whose it is
    auth,           \* App's isAuthenticated
    route,          \* the page of the address bar: login, dashboard or form
    check,          \* the token App is validating (its loading), or None
    signing,        \* whom Login is signing in (its loading), or None
    dash,           \* the Dashboard and the token of its calls, or None
    late,           \* a Dashboard that was left waits with an expired token
    sheet,          \* the NotificationForm, or None
    posts           \* what Send has sent, in this order, or None

pageVars == <<route, dash, late, sheet, posts>>
vars == <<accountVars, token, auth, check, signing, pageVars>>

-----------------------------------------------------------------------------
(* App.js, authService.js, Login.js and Layout.js                           *)

\* getAuthHeader reads the token when a page is mounted and calls.
NewDashboard(t) == [shows |-> "loading", sent |-> t]

NewForm(t) == [lists |-> "types", admin |-> t = "admin", users |-> {},
               sending |-> FALSE, success |-> FALSE]

\* What a form has sent goes on when the form is gone.
Left == [i \in Posts |-> IF posts[i] = None THEN None ELSE [posts[i] EXCEPT !.mine = FALSE]]

\* A Dashboard whose calls will be answered with 401, mounted or not.
Doomed == dash # None /\ dash.shows = "loading" /\ dash.sent = "expired"

\* The routes: one page is mounted in place of what was there, when the token
\* is t; the calls of a Dashboard are not cancelled with it.
Mount(page, t) ==
    /\ token' = t
    /\ route' = page
    /\ dash' = IF page = "dashboard" THEN NewDashboard(t) ELSE None
    /\ sheet' = IF page = "form" THEN NewForm(t) ELSE None
    /\ late' = (late \/ Doomed)
    /\ posts' = Left

\* Slip: a token that is missing is validated as well.
AnyToken(t) == t

\* Without a token there is nothing to validate.
TokenToCheck(t) == IF t = "none" THEN None ELSE t

\* The tab is loaded: checkAuthStatus drops an expired token, and asks the
\* server about another one; without a token every path leads to /login.
Reload ==
    /\ token' = IF token = "expired" THEN "none" ELSE token
    /\ check' = TokenToCheck(token')
    /\ auth' = FALSE
    /\ signing' = None
    /\ route' = IF token' = "none" THEN "login" ELSE route
    /\ dash' = None /\ late' = FALSE /\ sheet' = None
    /\ posts' = Left
    /\ UNCHANGED accountVars

CheckAnswered ==
    /\ check # None
    /\ check' = None
    /\ auth' = TRUE
    /\ Mount(route, token)
    /\ UNCHANGED <<accountVars, signing>>

\* Any failure drops the token.
CheckFails ==
    /\ check # None
    /\ check' = None
    /\ token' = "none"
    /\ route' = "login"
    /\ UNCHANGED <<accountVars, auth, signing, dash, late, sheet, posts>>

LoginShown == ~auth /\ check = None

LoginSubmit(p) ==
    /\ LoginShown
    /\ signing = None
    /\ signing' = p
    /\ UNCHANGED <<accountVars, token, auth, check, pageVars>>

\* The server ignores the role the page asks for: a user is let in as well.
LoginAnswered ==
    /\ signing # None
    /\ signing' = None
    /\ auth' = TRUE
    /\ \/ signing = Seed /\ \E t \in {"admin", "user"} : Mount("dashboard", t)
       \/ signing \in Registrants /\ CanSignIn(signing) /\ Mount("dashboard", "user")
    /\ UNCHANGED <<accountVars, check>>

LoginFails ==
    /\ signing # None
    /\ signing' = None
    /\ UNCHANGED <<accountVars, token, auth, check, pageVars>>

SignOut ==
    /\ dash # None \/ sheet # None
    /\ auth' = FALSE
    /\ Mount("login", "none")
    /\ UNCHANGED <<accountVars, check, signing>>

\* A signed-in tab has no route /login: "*" leads to the Dashboard.
Bounce ==
    /\ auth
    /\ route = "login"
    /\ Mount("dashboard", token)
    /\ UNCHANGED <<accountVars, auth, check, signing>>

\* Time passes.
Expire ==
    /\ token \in {"admin", "user"}
    /\ token' = "expired"
    /\ UNCHANGED <<accountVars, auth, check, signing, pageVars>>

OpenDashboard ==
    /\ sheet # None
    /\ Mount("dashboard", token)
    /\ UNCHANGED <<accountVars, auth, check, signing>>

OpenForm ==
    /\ dash # None
    /\ Mount("form", token)
    /\ UNCHANGED <<accountVars, auth, check, signing>>

-----------------------------------------------------------------------------
(* Dashboard.js and the calls of notificationService.js                     *)

DashWaits == dash # None /\ dash.shows = "loading"

\* Both calls have answered.
DashLoaded ==
    /\ DashWaits
    /\ dash.sent = "admin"
    /\ dash' = [dash EXCEPT !.shows = "data"]
    /\ UNCHANGED <<accountVars, token, auth, check, signing, route, late, sheet, posts>>

\* One of them failed, with 403 for a user, or on the way.
DashFails ==
    /\ DashWaits
    /\ dash.sent # "none"
    /\ dash' = [dash EXCEPT !.shows = "error"]
    /\ UNCHANGED <<accountVars, token, auth, check, signing, route, late, sheet, posts>>

\* "Authentication required": 401, or no token to call with.
DashUnauthorized ==
    /\ DashWaits
    /\ dash.sent \in {"none", "expired"}
    /\ token' = "none"
    /\ route' = "login" /\ dash' = None
    /\ UNCHANGED <<accountVars, auth, check, signing, late, sheet, posts>>

\* The same, to a Dashboard that is gone: whatever token and page there are now.
LateUnauthorized ==
    /\ late
    /\ late' = Doomed
    /\ token' = "none"
    /\ route' = "login" /\ dash' = None /\ sheet' = None
    /\ posts' = Left
    /\ UNCHANGED <<accountVars, auth, check, signing>>

-----------------------------------------------------------------------------
(* NotificationForm.js                                                      *)

Registered == {n \in Names : users[n] # None}

TypesAnswered ==
    /\ sheet # None
    /\ sheet.lists = "types" /\ sheet.admin
    /\ sheet' = [sheet EXCEPT !.lists = "users", !.admin = token = "admin"]
    /\ UNCHANGED <<accountVars, token, auth, check, signing, route, dash, late, posts>>

UsersAnswered ==
    /\ sheet # None
    /\ sheet.lists = "users" /\ sheet.admin
    /\ sheet' = [sheet EXCEPT !.lists = "ready", !.users = Registered]
    /\ UNCHANGED <<accountVars, token, auth, check, signing, route, dash, late, posts>>

FormDataFails ==
    /\ sheet # None
    /\ sheet.lists \in {"types", "users"}
    /\ sheet' = [sheet EXCEPT !.lists = IF @ = "types" THEN "no types" ELSE "no users"]
    /\ UNCHANGED <<accountVars, token, auth, check, signing, route, dash, late, posts>>

\* Whom the form can be sent to: everyone, or some of those it lists.
Choices == {All} \cup {names \in Selections : names # {} /\ names \subseteq sheet.users}

\* Who has an account, as far as the people outside can know.
Confirmed == Seeds \cup {NameOf[r] : r \in {q \in Registrants : form[q] = "success"}}

Refused(post) == [post EXCEPT !.at = "refused", !.known = {}, !.got = {}]

NewPost(to) ==
    LET post == [to |-> to, known |-> IF to = All THEN Confirmed ELSE to,
                 got |-> {}, at |-> "server", mine |-> TRUE]
    IN IF token = "admin" THEN post ELSE Refused(post)

\* A type must be chosen, so the types are there; each press is a new event.  Only
\* an admin's is let in; from one who is refused nobody has a notification to expect.
Send(to) ==
    /\ sheet # None
    /\ sheet.lists \in {"users", "ready", "no users"}
    /\ ~sheet.sending
    /\ to \in Choices
    /\ \E i \in Posts :
        /\ posts[i] = None /\ \A j \in 1..(i - 1) : posts[j] # None
        /\ posts' = [posts EXCEPT ![i] = NewPost(to)]
    /\ sheet' = [sheet EXCEPT !.sending = TRUE]
    /\ UNCHANGED <<accountVars, token, auth, check, signing, route, dash, late>>

\* Slip: a broadcast goes to those the form has listed.
ListedTargets(to) == IF to = All THEN IF sheet = None THEN Seeds ELSE sheet.users ELSE to

\* A broadcast goes to whoever has a row when the event is processed.
Targets(to) == IF to = All THEN Registered ELSE to

StoreSend(i) ==
    /\ posts[i] # None
    /\ posts[i].at = "server"
    /\ posts' = [posts EXCEPT ![i].at = "accepted", ![i].got = Targets(posts[i].to)]
    /\ UNCHANGED <<accountVars, token, auth, check, signing, route, dash, late, sheet>>

RefuseSend(i) ==
    /\ posts[i] # None
    /\ posts[i].at = "server"
    /\ posts' = [posts EXCEPT ![i] = Refused(@)]
    /\ UNCHANGED <<accountVars, token, auth, check, signing, route, dash, late, sheet>>

\* The answer, when the form still waits for it.
SendAnswered(i) ==
    /\ posts[i] # None
    /\ posts[i].mine
    /\ \/ /\ posts[i].at = "accepted"
          /\ posts' = [posts EXCEPT ![i].at = "told", ![i].mine = FALSE]
          /\ sheet' = [sheet EXCEPT !.sending = FALSE, !.success = TRUE]
       \/ /\ posts[i].at = "refused"
          /\ posts' = [posts EXCEPT ![i].mine = FALSE]
          /\ sheet' = [sheet EXCEPT !.sending = FALSE]
    /\ UNCHANGED <<accountVars, token, auth, check, signing, route, dash, late>>

\* Slip: the button is not given back when the call fails.
StuckSendLost(i) ==
    /\ posts[i] # None
    /\ posts[i].mine
    /\ posts' = [posts EXCEPT ![i].mine = FALSE]
    /\ UNCHANGED <<accountVars, token, auth, check, signing, route, dash, late, sheet>>

\* The connection breaks; the server goes on.
SendLost(i) ==
    /\ posts[i] # None
    /\ posts[i].mine
    /\ posts' = [posts EXCEPT ![i].mine = FALSE]
    /\ sheet' = [sheet EXCEPT !.sending = FALSE]
    /\ UNCHANGED <<accountVars, token, auth, check, signing, route, dash, late>>

CloseSnackbar ==
    /\ sheet # None
    /\ sheet.success
    /\ sheet' = [sheet EXCEPT !.success = FALSE]
    /\ UNCHANGED <<accountVars, token, auth, check, signing, route, dash, late, posts>>

-----------------------------------------------------------------------------
Init ==
    /\ AccountsInit
    /\ token = "none" /\ auth = FALSE /\ route = "login"
    /\ check = None /\ signing = None
    /\ dash = None /\ late = FALSE /\ sheet = None
    /\ posts = [i \in Posts |-> None]

Gone(post) == [post EXCEPT !.at = "gone", !.known = {}, !.got = {}]

\* The backend is restarted: the notifications go with the users, and the calls
\* that are under way fail.  What the tab holds stays, its token included: the
\* secret that signs it is configured, and the role is read from it.
Restart ==
    /\ WipeAccounts
    /\ posts' = [i \in Posts |->
                    IF posts[i] = None THEN None
                    ELSE IF posts[i].at \in {"told", "gone"} THEN Gone(posts[i])
                    ELSE Refused(posts[i])]
    /\ UNCHANGED <<token, auth, check, signing, route, dash, late, sheet>>

Registration == AccountsNext /\ UNCHANGED <<token, auth, check, signing, pageVars>>

Session ==
    \/ Reload \/ CheckAnswered \/ CheckFails
    \/ \E p \in Registrants \cup {Seed} : LoginSubmit(p)
    \/ LoginAnswered \/ LoginFails \/ SignOut \/ Bounce \/ Expire
    \/ OpenDashboard \/ OpenForm
    \/ DashLoaded \/ DashFails \/ DashUnauthorized \/ LateUnauthorized

Sending ==
    \/ TypesAnswered \/ UsersAnswered \/ FormDataFails
    \/ \E to \in {All} \cup Selections : Send(to)
    \/ \E i \in Posts : StoreSend(i) \/ RefuseSend(i) \/ SendAnswered(i) \/ SendLost(i)
    \/ CloseSnackbar

Next == Registration \/ Session \/ Sending \/ Restart

Spec == Init /\ [][Next]_vars

\* React renders a route it was led to, and a promise that was rejected without
\* a call is handled; nothing is assumed of people and servers.
FairSpec ==
    /\ Spec
    /\ WF_vars(Bounce)
    /\ WF_vars(dash = NewDashboard("none") /\ DashUnauthorized)

-----------------------------------------------------------------------------
(* Properties.                                                              *)

\* The types of the console's variables.
TypeOK ==
    /\ AccountsTypeOK
    /\ token \in Tokens
    /\ auth \in BOOLEAN /\ late \in BOOLEAN
    /\ route \in {"login", "dashboard", "form"}
    /\ check \in {"admin", "user", "expired", None}
    /\ signing \in Registrants \cup {Seed, None}
    /\ dash = None \/ dash \in [shows : {"loading", "data", "error"}, sent : Tokens]
    /\ sheet = None \/ sheet \in SheetType
    /\ posts \in [Posts -> PostType \cup {None}]

\* "Notification sent successfully!" is true: each of the users who were chosen
\* has the notification, and a broadcast has reached everyone who was told of
\* an account before Send was pressed, whoever registers meanwhile and however
\* old the list of users on the page is.  A restart of the backend takes the
\* notifications again, and the snackbar may be of one that is gone.
SuccessMeansStored ==
    /\ \A i \in Posts : posts[i] # None /\ posts[i].at = "told" =>
        /\ posts[i].known \subseteq posts[i].got
        /\ posts[i].to # All => posts[i].got = posts[i].to
    /\ sheet # None /\ sheet.success =>
        \E i \in Posts : posts[i] # None /\ posts[i].at \in {"told", "gone"}

\* The Send button is held exactly while one event of this form is unanswered:
\* nothing is sent twice by two clicks, and no failure disables it for good.
ButtonHasCall ==
    /\ \A i, j \in Posts :
        posts[i] # None /\ posts[j] # None /\ posts[i].mine /\ posts[j].mine => i = j
    /\ (sheet # None /\ sheet.sending) <=> \E i \in Posts : posts[i] # None /\ posts[i].mine

\* Dashboard.js:43, "Clear token and redirect to login": a tab that is led to
\* /login for want of a token comes to show the Login page.
LoginComesBack == (auth /\ route = "login" /\ token = "none") ~> LoginShown

=============================================================================
