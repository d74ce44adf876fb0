------------------------- MODULE AdminConsoleProofs -------------------------
(***************************************************************************)
(* Proofs about AdminConsole and the Accounts it extends, for any people,   *)
(* any names they want and any number of events that are sent.              *)
(***************************************************************************)
EXTENDS AdminConsole, TLAPS

\* A step between two restarts of the backend.
Step == Registration \/ Session \/ Sending

-----------------------------------------------------------------------------
(* Accounts.                                                                *)

\* What the server has done when it comes to a statement, or to its answer.
JobDone ==
    \A r \in Registrants :
        /\ job[r] \in {"insert authority", "created"} => users[NameOf[r]] = r
        /\ job[r] = "created" => NameOf[r] \in authorities

\* The users of data.sql are there.
SeedsStay == \A n \in Seeds : users[n] # None

AccountsInv == AccountsTypeOK /\ JobDone /\ SeedsStay /\ ConfirmedCanSignIn

LEMMA AccountsInitially == AccountsInit => AccountsInv
BY AccountsAssumption
   DEF AccountsInit, SeedUsers, Forms, AccountsInv, AccountsTypeOK, JobDone, SeedsStay,
       ConfirmedCanSignIn, CanSignIn, Names, Jobs

\* A step of the registration keeps its invariant, and nobody loses a name.
LEMMA AccountsStep ==
    ASSUME AccountsInv, AccountsNext
    PROVE  /\ AccountsInv'
           /\ \A n \in Names : users[n] # None => users'[n] # None
<1> USE AccountsAssumption DEF AccountsInv
<1>0. PICK r \in Registrants :
        \/ ReopenForm(r) \/ SubmitInvalid(r) \/ Submit(r) \/ RegisterAnswered(r)
        \/ RegisterLost(r) \/ CountUsers(r) \/ InsertUser(r) \/ InsertAuthority(r) \/ RegisterFails(r)
  BY DEF AccountsNext
<1>n. NameOf[r] \in Names
  OBVIOUS
<1>1. CASE ReopenForm(r) \/ SubmitInvalid(r)
  BY <1>1 DEF ReopenForm, SubmitInvalid, AccountsTypeOK, Forms, JobDone, SeedsStay, ConfirmedCanSignIn,
     CanSignIn, CanSubmit
<1>2. CASE Submit(r)
  BY <1>2 DEF Submit, AccountsTypeOK, Jobs, Forms, JobDone, SeedsStay, ConfirmedCanSignIn,
     CanSignIn, CanSubmit
<1>3. CASE RegisterAnswered(r)
  BY <1>3 DEF RegisterAnswered, AccountsTypeOK, Jobs, Forms, JobDone, SeedsStay,
     ConfirmedCanSignIn, CanSignIn
<1>4. CASE RegisterLost(r)
  BY <1>4 DEF RegisterLost, AccountsTypeOK, Forms, JobDone, SeedsStay, ConfirmedCanSignIn, CanSignIn
<1>5. CASE CountUsers(r)
  BY <1>5 DEF CountUsers, AccountsTypeOK, Jobs, JobDone, SeedsStay, ConfirmedCanSignIn, CanSignIn
<1>6. CASE InsertUser(r)
  <2>1. CASE users[NameOf[r]] = None
    <3>1. /\ users' = [users EXCEPT ![NameOf[r]] = r]
          /\ job' = [job EXCEPT ![r] = "insert authority"]
          /\ UNCHANGED <<authorities, form>>
      BY <1>6, <2>1 DEF InsertUser
    <3>2. \A q \in Registrants : users[NameOf[q]] = q => users'[NameOf[q]] = q
      BY <3>1, <2>1, <1>n DEF AccountsTypeOK
    <3>3. AccountsTypeOK'
      BY <3>1, <1>n DEF AccountsTypeOK, Jobs
    <3>4. users'[NameOf[r]] = r /\ r # None
      BY <3>1, <1>n DEF AccountsTypeOK
    <3>5. JobDone'
      BY <3>1, <3>2, <3>4 DEF AccountsTypeOK, JobDone
    <3>6. \A n \in Names : users[n] # None => users'[n] # None
      BY <3>1, <3>4 DEF AccountsTypeOK
    <3>7. SeedsStay' /\ ConfirmedCanSignIn'
      BY <3>1, <3>2, <3>6 DEF SeedsStay, ConfirmedCanSignIn, CanSignIn, Names
    <3> QED BY <3>3, <3>5, <3>6, <3>7
  <2>2. CASE users[NameOf[r]] # None
    BY <1>6, <2>2 DEF InsertUser, AccountsTypeOK, Jobs, JobDone, SeedsStay,
       ConfirmedCanSignIn, CanSignIn
  <2> QED BY <2>1, <2>2
<1>7. CASE InsertAuthority(r)
  BY <1>7, <1>n DEF InsertAuthority, AccountsTypeOK, Jobs, JobDone, SeedsStay,
     ConfirmedCanSignIn, CanSignIn
<1>8. CASE RegisterFails(r)
  BY <1>8 DEF RegisterFails, AccountsTypeOK, Jobs, JobDone, SeedsStay,
     ConfirmedCanSignIn, CanSignIn
<1> QED BY <1>0, <1>1, <1>2, <1>3, <1>4, <1>5, <1>6, <1>7, <1>8

\* So does a restart, which leaves nobody told of an account.
LEMMA AccountsWiped ==
    ASSUME AccountsInv, WipeAccounts
    PROVE  AccountsInv'
<1>1. users' \in [Names -> Registrants \cup {None, Seed}]
  BY DEF WipeAccounts, SeedUsers
<1>2. form' \in [Registrants -> Forms] /\ \A r \in Registrants : form'[r] # "success"
  BY DEF WipeAccounts, AccountsInv, AccountsTypeOK, Forms
<1>3. AccountsTypeOK' /\ JobDone'
  BY <1>1, <1>2 DEF WipeAccounts, AccountsTypeOK, Jobs, JobDone, Names
<1>4. SeedsStay'
  BY AccountsAssumption DEF WipeAccounts, SeedUsers, SeedsStay, Names
<1> QED BY <1>2, <1>3, <1>4 DEF AccountsInv, ConfirmedCanSignIn

LEMMA AccountsStutter ==
    ASSUME AccountsInv, UNCHANGED accountVars
    PROVE  AccountsInv'
BY DEF AccountsInv, accountVars, AccountsTypeOK, JobDone, SeedsStay, ConfirmedCanSignIn, CanSignIn

\* Between restarts, every step of the console is one of the registration, or
\* leaves it alone.
LEMMA AccountsAlone ==
    ASSUME [Step]_vars
    PROVE  Registration \/ UNCHANGED accountVars
<1>1. CASE Session \/ Sending
  BY <1>1 DEF Session, Sending, Reload, CheckAnswered, CheckFails, LoginSubmit, LoginAnswered,
     LoginFails, SignOut, Bounce, Expire, OpenDashboard, OpenForm, DashLoaded, DashFails,
     DashUnauthorized, LateUnauthorized, TypesAnswered, UsersAnswered, FormDataFails, Send,
     StoreSend, RefuseSend, SendAnswered, SendLost, CloseSnackbar
<1>2. CASE UNCHANGED vars
  BY <1>2 DEF vars
<1> QED BY <1>1, <1>2 DEF Step

LEMMA AccountsByStep ==
    ASSUME AccountsInv, [Step]_vars
    PROVE  /\ AccountsInv'
           /\ \A n \in Names : users[n] # None => users'[n] # None
<1>1. CASE Registration
  BY <1>1, AccountsStep DEF Registration
<1>2. CASE UNCHANGED accountVars
  BY <1>2, AccountsStutter DEF accountVars
<1> QED BY <1>1, <1>2, AccountsAlone

LEMMA AccountsInConsole ==
    ASSUME AccountsInv, [Next]_vars
    PROVE  AccountsInv'
<1>1. CASE Restart
  BY <1>1, AccountsWiped DEF Restart
<1>2. CASE [Step]_vars
  BY <1>2, AccountsByStep
<1> QED BY <1>1, <1>2 DEF Next, Step

\* Whoever was told "Registration successful" by this backend can sign in.
THEOREM ConsoleConfirmed == Spec => []ConfirmedCanSignIn
<1>1. Init => AccountsInv
  BY AccountsInitially DEF Init
<1>2. AccountsInv /\ [Next]_vars => AccountsInv'
  BY AccountsInConsole
<1>3. AccountsInv => ConfirmedCanSignIn
  BY DEF AccountsInv
<1> QED BY <1>1, <1>2, <1>3, PTL DEF Spec

-----------------------------------------------------------------------------
(* Registration implements the registry of names.                           *)

LEMMA RegistryInitially == AccountsInit => Registry!Init
<1> SUFFICES ASSUME AccountsInit PROVE Registry!Init
  OBVIOUS
<1>1. authorities = {n \in Names : SeedUsers[n] # None}
  BY AccountsAssumption DEF AccountsInit, SeedUsers, Names
<1>2. Told = {}
  BY DEF AccountsInit, Told
<1>3. users = SeedUsers
  BY DEF AccountsInit
<1> QED BY <1>1, <1>2, <1>3 DEF Registry!Init, Registry!GivenNames

\* The set of those who were told changes only with a form that becomes
\* "success", and that one is added to it: only a restart takes a success back.
LEMMA ToldStep ==
    ASSUME NEW r \in Registrants, NEW v,
           form \in [Registrants -> Forms],
           form[r] # "success", form' = [form EXCEPT ![r] = v]
    PROVE  Told' = IF v = "success" THEN Told \cup {r} ELSE Told
BY DEF Told

LEMMA ToldSame == ASSUME form' = form PROVE Told' = Told
BY DEF Told

\* Each statement and each answer is a step of the registry, or none.
LEMMA RegistryStep ==
    ASSUME AccountsInv, AccountsNext
    PROVE  [Registry!Next]_(Registry!vars)
<1> USE AccountsAssumption DEF AccountsInv
<1>f. form \in [Registrants -> Forms]
  BY DEF AccountsTypeOK
<1>0. PICK r \in Registrants :
        \/ ReopenForm(r) \/ SubmitInvalid(r) \/ Submit(r) \/ RegisterAnswered(r)
        \/ RegisterLost(r) \/ CountUsers(r) \/ InsertUser(r) \/ InsertAuthority(r) \/ RegisterFails(r)
  BY DEF AccountsNext
<1>1. CASE ReopenForm(r) \/ SubmitInvalid(r) \/ Submit(r) \/ RegisterLost(r)
  <2>1. form[r] # "success" /\ UNCHANGED <<users, authorities>>
    BY <1>1 DEF ReopenForm, SubmitInvalid, Submit, RegisterLost, CanSubmit
  <2>2. PICK v \in {"open", "loading", "error"} : form' = [form EXCEPT ![r] = v]
    BY <1>1 DEF ReopenForm, SubmitInvalid, Submit, RegisterLost
  <2>3. Told' = Told
    BY <2>1, <2>2, <1>f, ToldStep
  <2> QED BY <2>1, <2>3 DEF Registry!vars
<1>2. CASE RegisterAnswered(r)
  <2>1. UNCHANGED <<users, authorities>>
    BY <1>2 DEF RegisterAnswered
  <2>2. CASE form[r] = "loading" /\ job[r] = "created"
    <3>1. form' = [form EXCEPT ![r] = "success"]
      BY <1>2, <2>2 DEF RegisterAnswered
    <3>2. Told' = Told \cup {r}
      BY <3>1, <2>2, <1>f, ToldStep
    <3>3. users[NameOf[r]] = r /\ NameOf[r] \in authorities
      BY <2>2 DEF JobDone
    <3>4. Registry!Tell(r)
      BY <2>1, <3>2, <3>3 DEF Registry!Tell
    <3> QED BY <3>4 DEF Registry!Next
  <2>3. CASE form[r] = "loading" /\ job[r] # "created"
    <3>1. PICK v \in {"error"} : form' = [form EXCEPT ![r] = v]
      BY <1>2, <2>3 DEF RegisterAnswered
    <3>2. form[r] # "success" /\ v # "success"
      BY <2>3
    <3>3. Told' = Told
      BY <3>1, <3>2, <1>f, ToldStep
    <3> QED BY <2>1, <3>3 DEF Registry!vars
  <2>4. CASE form[r] # "loading"
    <3>1. Told' = Told
      BY <1>2, <2>4, ToldSame DEF RegisterAnswered
    <3> QED BY <2>1, <3>1 DEF Registry!vars
  <2> QED BY <2>2, <2>3, <2>4
<1>3. CASE CountUsers(r) \/ RegisterFails(r)
  BY <1>3, ToldSame DEF CountUsers, RegisterFails, Registry!vars
<1>4. CASE InsertUser(r)
  <2>1. Told' = Told /\ authorities' = authorities
    BY <1>4, ToldSame DEF InsertUser
  <2>2. CASE users[NameOf[r]] = None
    <3>1. Registry!Take(r)
      BY <1>4, <2>1, <2>2 DEF InsertUser, Registry!Take
    <3> QED BY <3>1 DEF Registry!Next
  <2>3. CASE users[NameOf[r]] # None
    BY <1>4, <2>1, <2>3 DEF InsertUser, Registry!vars
  <2> QED BY <2>2, <2>3
<1>5. CASE InsertAuthority(r)
  <2>1. users[NameOf[r]] = r
    BY <1>5 DEF InsertAuthority, JobDone
  <2>2. Registry!MakeUsable(r)
    BY <1>5, <2>1, ToldSame DEF InsertAuthority, Registry!MakeUsable
  <2> QED BY <2>2 DEF Registry!Next
<1> QED BY <1>0, <1>1, <1>2, <1>3, <1>4, <1>5

\* A restart wipes the registry: what it started with, and nobody told.
LEMMA RegistryWiped ==
    ASSUME WipeAccounts
    PROVE  Registry!Wipe
<1>1. Seeds = {n \in Names : SeedUsers[n] # None}
  BY AccountsAssumption DEF SeedUsers, Names
<1>2. Told' = {}
  BY DEF WipeAccounts, Told
<1> QED BY <1>1, <1>2 DEF WipeAccounts, Registry!Wipe, Registry!GivenNames

\* The console has no other way into the tables, so the whole system implements
\* the registry: from one restart to the next names are given away once and
\* confirmations stay true, and a restart takes back all of them together.
THEOREM ConsoleImplementsRegistry == Spec => ImplementsRegistry
<1>1. Init => Registry!Init /\ AccountsInv
  BY RegistryInitially, AccountsInitially DEF Init
<1>2. AccountsInv /\ [Next]_vars => AccountsInv'
  BY AccountsInConsole
<1>3. AccountsInv /\ [Next]_vars => [Registry!Next]_(Registry!vars)
  <2> SUFFICES ASSUME AccountsInv, [Next]_vars PROVE [Registry!Next]_(Registry!vars)
    OBVIOUS
  <2>1. CASE Registration
    BY <2>1, RegistryStep DEF Registration
  <2>2. CASE UNCHANGED accountVars
    BY <2>2, ToldSame DEF accountVars, Registry!vars
  <2>3. CASE Restart
    BY <2>3, RegistryWiped DEF Restart, Registry!Next
  <2>4. Restart \/ Registration \/ UNCHANGED accountVars
    BY AccountsAlone DEF Next, Step
  <2> QED BY <2>1, <2>2, <2>3, <2>4
<1> QED BY <1>1, <1>2, <1>3, PTL DEF Spec, ImplementsRegistry, Registry!Spec

-----------------------------------------------------------------------------
(* The console.                                                             *)

\* What is true of a post whatever becomes of the tab: until it is stored, whoever
\* its sender is entitled to expect among its targets has a row in users, or was
\* selected; and once it is stored each of its targets has it.
PostOK(p, registered) ==
    /\ p.at = "server" => p.known \subseteq IF p.to = All THEN registered ELSE p.to
    /\ p.at \in {"accepted", "told"} =>
        /\ p.known \subseteq p.got
        /\ p.to # All => p.got = p.to

PostsOK == \A i \in Posts : posts[i] # None => PostOK(posts[i], Registered)

\* The types of what the two properties of the form are about.
FormTypeOK ==
    /\ posts \in [Posts -> PostType \cup {None}]
    /\ sheet \in SheetType \cup {None}

\* The snackbar is that of an event that was stored.
ReportHasPost ==
    sheet # None /\ sheet.success =>
        \E i \in Posts : posts[i] # None /\ posts[i].at \in {"told", "gone"}

ConsoleInv ==
    /\ AccountsInv
    /\ FormTypeOK
    /\ PostsOK
    /\ ButtonHasCall
    /\ ReportHasPost

\* Everybody who was told of an account has a row in users.
LEMMA ConfirmedHaveRows ==
    ASSUME AccountsInv
    PROVE  Confirmed \subseteq Registered
BY AccountsAssumption DEF AccountsInv, AccountsTypeOK, SeedsStay, ConfirmedCanSignIn, CanSignIn,
   Confirmed, Registered, Names

\* Whoever has a row keeps it until a restart, so nobody drops out of the targets
\* of a post that is under way.
LEMMA RegisteredGrow ==
    ASSUME AccountsInv, [Step]_vars
    PROVE  Registered \subseteq Registered'
BY AccountsByStep DEF Registered

\* The posts of a page that is left: the same, and nobody waits for them.
LEMMA LeavingAPage ==
    ASSUME FormTypeOK, posts' = Left, NEW i \in Posts
    PROVE  /\ posts'[i] \in PostType \cup {None}
           /\ posts'[i] = None <=> posts[i] = None
           /\ posts[i] # None =>
                /\ ~posts'[i].mine
                /\ posts'[i].at = posts[i].at /\ posts'[i].to = posts[i].to
                /\ posts'[i].known = posts[i].known /\ posts'[i].got = posts[i].got
<1>1. CASE posts[i] = None
  BY <1>1 DEF Left
<1>2. CASE posts[i] # None
  <2>1. posts[i] \in PostType
    BY <1>2 DEF FormTypeOK
  <2>2. posts'[i] = [posts[i] EXCEPT !.mine = FALSE]
    BY <1>2 DEF Left
  <2>3. posts'[i] \in PostType /\ ~posts'[i].mine
    BY <2>1, <2>2 DEF PostType
  <2>4. posts'[i] # None
    BY <2>3, ConsoleAssumption
  <2> QED BY <1>2, <2>1, <2>2, <2>3, <2>4 DEF PostType
<1> QED BY <1>1, <1>2

\* A new page, or none: nobody waits there, and nothing is reported there.
LEMMA NewPage ==
    ASSUME ConsoleInv, [Step]_vars, posts' = Left,
           \/ sheet' = None
           \/ \E t : sheet' = NewForm(t)
    PROVE  ConsoleInv'
<1>1. sheet' \in SheetType \cup {None} /\ (sheet' # None => ~sheet'.sending /\ ~sheet'.success)
  <2>1. CASE sheet' = None
    BY <2>1
  <2>2. ASSUME NEW t, sheet' = NewForm(t)
        PROVE  sheet' \in SheetType /\ ~sheet'.sending /\ ~sheet'.success
    <3> DEFINE a == t = "admin"
    <3>1. a \in BOOLEAN
      OBVIOUS
    <3>2. sheet' = [lists |-> "types", admin |-> a, users |-> {},
                    sending |-> FALSE, success |-> FALSE]
      BY <2>2 DEF NewForm
    <3> HIDE DEF a
    <3> QED BY <3>1, <3>2 DEF SheetType
  <2> QED BY <2>1, <2>2
<1>2. \A i \in Posts : posts'[i] # None => ~posts'[i].mine
  BY LeavingAPage DEF ConsoleInv
<1>3. AccountsInv'
  BY AccountsByStep DEF ConsoleInv
<1>4. FormTypeOK'
  <2>1. posts' = [i \in Posts |-> posts'[i]]
    BY DEF Left
  <2>2. \A i \in Posts : posts'[i] \in PostType \cup {None}
    BY LeavingAPage DEF ConsoleInv
  <2>3. posts' \in [Posts -> PostType \cup {None}]
    BY <2>1, <2>2
  <2> QED BY <1>1, <2>3 DEF FormTypeOK
<1>5. PostsOK'
  <2> SUFFICES ASSUME NEW i \in Posts, posts'[i] # None
               PROVE  PostOK(posts'[i], Registered')
    BY DEF PostsOK
  <2>1. /\ posts[i] # None
        /\ posts'[i].at = posts[i].at /\ posts'[i].to = posts[i].to
        /\ posts'[i].known = posts[i].known /\ posts'[i].got = posts[i].got
    BY LeavingAPage DEF ConsoleInv
  <2>2. PostOK(posts[i], Registered)
    BY <2>1 DEF ConsoleInv, PostsOK
  <2>3. Registered \subseteq Registered'
    BY RegisteredGrow DEF ConsoleInv
  <2> QED BY <2>1, <2>2, <2>3 DEF PostOK
<1>6. ButtonHasCall'
  BY <1>1, <1>2 DEF ButtonHasCall
<1> QED BY <1>1, <1>3, <1>4, <1>5, <1>6 DEF ConsoleInv, ReportHasPost

\* A step that leaves the form and what it has sent alone.
LEMMA OtherStep ==
    ASSUME ConsoleInv, [Step]_vars, UNCHANGED <<sheet, posts>>
    PROVE  ConsoleInv'
<1>1. AccountsInv' /\ FormTypeOK' /\ ButtonHasCall'
  BY AccountsByStep DEF ConsoleInv, FormTypeOK, ButtonHasCall
<1>2. PostsOK'
  <2>1. Registered \subseteq Registered'
    BY RegisteredGrow DEF ConsoleInv
  <2> QED BY <2>1 DEF ConsoleInv, PostsOK, PostOK
<1> QED BY <1>1, <1>2 DEF ConsoleInv, ReportHasPost

\* A step of the form's lists or of its snackbar.
LEMMA SheetStep ==
    ASSUME ConsoleInv, [Step]_vars, posts' = posts, sheet # None,
           sheet' \in SheetType, sheet'.sending = sheet.sending,
           sheet'.success => sheet.success
    PROVE  ConsoleInv'
<1>1. sheet' # None
  BY ConsoleAssumption
<1>2. AccountsInv' /\ FormTypeOK'
  BY AccountsByStep DEF ConsoleInv, FormTypeOK
<1>3. PostsOK'
  <2>1. Registered \subseteq Registered'
    BY RegisteredGrow DEF ConsoleInv
  <2> QED BY <2>1 DEF ConsoleInv, PostsOK, PostOK
<1>4. ButtonHasCall'
  BY <1>1 DEF ConsoleInv, ButtonHasCall
<1> QED BY <1>1, <1>2, <1>3, <1>4 DEF ConsoleInv, ReportHasPost

\* A post that is refused.
LEMMA RefusedPost ==
    ASSUME NEW p \in PostType, NEW registered
    PROVE  /\ Refused(p) \in PostType /\ Refused(p).mine = p.mine
           /\ PostOK(Refused(p), registered)
BY DEF Refused, PostType, PostOK

\* A step of one post; the callers say what becomes of the button.
LEMMA PostStep ==
    ASSUME ConsoleInv, [Step]_vars, NEW i \in Posts, NEW p \in PostType,
           posts' = [posts EXCEPT ![i] = p],
           PostOK(p, Registered),
           posts[i] # None /\ posts[i].at \in {"told", "gone"} => p.at \in {"told", "gone"},
           sheet' \in SheetType \cup {None}, ButtonHasCall',
           sheet' # None /\ sheet'.success => p.at = "told" \/ (sheet # None /\ sheet.success)
    PROVE  ConsoleInv'
<1>1. posts \in [Posts -> PostType \cup {None}] /\ p # None
  BY ConsoleAssumption DEF ConsoleInv, FormTypeOK
<1>2. AccountsInv' /\ FormTypeOK'
  BY <1>1, AccountsByStep DEF ConsoleInv, FormTypeOK
<1>3. PostsOK'
  <2>1. Registered \subseteq Registered'
    BY RegisteredGrow DEF ConsoleInv
  <2>2. PostOK(p, Registered')
    BY <2>1 DEF PostOK
  <2>3. ASSUME NEW j \in Posts, posts'[j] # None
        PROVE  PostOK(posts'[j], Registered')
    <3>1. CASE j = i
      BY <3>1, <1>1, <2>2
    <3>2. CASE j # i
      BY <3>2, <1>1, <2>1, <2>3 DEF ConsoleInv, PostsOK, PostOK
    <3> QED BY <3>1, <3>2
  <2> QED BY <2>3 DEF PostsOK
<1>4. ASSUME sheet' # None, sheet'.success
      PROVE  \E j \in Posts : posts'[j] # None /\ posts'[j].at \in {"told", "gone"}
  <2>1. CASE p.at = "told"
    BY <1>1, <2>1
  <2>2. CASE sheet # None /\ sheet.success
    <3>1. PICK j \in Posts : posts[j] # None /\ posts[j].at \in {"told", "gone"}
      BY <2>2 DEF ConsoleInv, ReportHasPost
    <3> QED BY <1>1, <3>1
  <2> QED BY <1>4, <2>1, <2>2
<1> QED BY <1>2, <1>3, <1>4 DEF ConsoleInv, ReportHasPost

\* Nobody waits for a post when the button is free; and the one the form waits
\* for is the only one.
LEMMA OneCall ==
    ASSUME ConsoleInv, NEW i \in Posts, posts[i] # None, posts[i].mine
    PROVE  /\ sheet # None /\ sheet \in SheetType
           /\ \A j \in Posts \ {i} : posts[j] = None \/ ~posts[j].mine
BY DEF ConsoleInv, FormTypeOK, ButtonHasCall

LEMMA SendKeepsInv ==
    ASSUME ConsoleInv, NEW to, Send(to)
    PROVE  ConsoleInv'
<1>1. PICK i \in Posts :
        /\ posts[i] = None
        /\ posts' = [posts EXCEPT ![i] = NewPost(to)]
  BY DEF Send
<1> DEFINE p == NewPost(to)
<1>2. /\ sheet # None /\ ~sheet.sending
      /\ to \in Choices
      /\ sheet' = [sheet EXCEPT !.sending = TRUE]
  BY DEF Send
<1>3. sheet \in SheetType /\ posts \in [Posts -> PostType \cup {None}]
  BY <1>2 DEF ConsoleInv, FormTypeOK
<1>4. /\ sheet' \in SheetType /\ sheet' # None
      /\ sheet'.sending /\ sheet'.success = sheet.success
  <2>1. sheet' \in SheetType
    BY <1>2, <1>3 DEF SheetType
  <2>2. sheet'.sending = TRUE /\ sheet'.success = sheet.success
    BY <1>2, <1>3 DEF SheetType
  <2> QED BY <2>1, <2>2, ConsoleAssumption
<1>5. p \in PostType /\ p.mine /\ PostOK(p, Registered)
  <2>1. to \in {All} \cup Selections /\ (to # All => to \in SUBSET Names)
    BY <1>2, ConsoleAssumption DEF Choices
  <2>2. Confirmed \subseteq Registered /\ Registered \subseteq Names
    BY ConfirmedHaveRows DEF ConsoleInv, Registered
  <2> DEFINE sent == [to |-> to, known |-> IF to = All THEN Confirmed ELSE to,
                      got |-> {}, at |-> "server", mine |-> TRUE]
  <2>3. sent \in PostType /\ sent.mine /\ PostOK(sent, Registered)
    BY <2>1, <2>2 DEF PostType, PostOK
  <2>4. p = sent \/ p = Refused(sent)
    BY DEF NewPost
  <2> HIDE DEF sent
  <2> QED BY <2>3, <2>4, RefusedPost
<1>6. posts' = [posts EXCEPT ![i] = p]
  BY <1>1
<1> HIDE DEF p
<1>7. p # None
  BY <1>5, ConsoleAssumption
<1>8. ButtonHasCall'
  <2>1. \A j \in Posts : posts[j] = None \/ ~posts[j].mine
    BY <1>2 DEF ConsoleInv, ButtonHasCall
  <2>2. posts'[i] = p /\ \A j \in Posts \ {i} : posts'[j] = posts[j]
    BY <1>3, <1>6
  <2> QED BY <1>4, <1>5, <1>7, <2>1, <2>2 DEF ButtonHasCall
<1>9. [Step]_vars
  <2>1. to \in {All} \cup Selections
    BY <1>2 DEF Choices
  <2> QED BY <2>1 DEF Step, Sending
<1>10. sheet' # None /\ sheet'.success => sheet # None /\ sheet.success
  BY <1>2, <1>4
<1>11. posts[i] = None
  BY <1>1
<1> QED BY <1>4, <1>5, <1>6, <1>8, <1>9, <1>10, <1>11, PostStep

LEMMA StoreKeepsInv ==
    ASSUME ConsoleInv, NEW i \in Posts, StoreSend(i) \/ RefuseSend(i)
    PROVE  ConsoleInv'
<1>1. /\ posts[i] # None /\ posts[i].at = "server" /\ sheet' = sheet
      /\ posts[i] \in PostType /\ posts \in [Posts -> PostType \cup {None}]
      /\ sheet \in SheetType \cup {None}
  BY DEF StoreSend, RefuseSend, ConsoleInv, FormTypeOK
<1>2. [Step]_vars
  BY DEF Step, Sending
<1>3. PICK p \in PostType :
        /\ posts' = [posts EXCEPT ![i] = p]
        /\ p.mine = posts[i].mine
        /\ PostOK(p, Registered)
  <2>1. PostOK(posts[i], Registered)
    BY <1>1 DEF ConsoleInv, PostsOK
  <2>2. CASE StoreSend(i)
    <3> DEFINE p == [posts[i] EXCEPT !.at = "accepted", !.got = Targets(posts[i].to)]
    <3>1. posts' = [posts EXCEPT ![i] = p]
      BY <1>1, <2>2 DEF StoreSend
    <3>2. Targets(posts[i].to) \in SUBSET Names
      BY <1>1, ConsoleAssumption DEF Targets, Registered, PostType
    <3>3. p \in PostType /\ p.mine = posts[i].mine
      BY <1>1, <3>2 DEF PostType
    <3>4. PostOK(p, Registered)
      BY <1>1, <2>1 DEF PostOK, PostType, Targets
    <3> QED BY <3>1, <3>3, <3>4
  <2>3. CASE RefuseSend(i)
    <3>1. posts' = [posts EXCEPT ![i] = Refused(posts[i])]
      BY <1>1, <2>3 DEF RefuseSend
    <3> QED BY <1>1, <3>1, RefusedPost
  <2> QED BY <2>2, <2>3
<1>4. p # None
  BY ConsoleAssumption
<1>5. ButtonHasCall'
  <2>1. posts'[i] = p /\ \A j \in Posts \ {i} : posts'[j] = posts[j]
    BY <1>1, <1>3
  <2> QED BY <1>1, <1>3, <1>4, <2>1 DEF ConsoleInv, ButtonHasCall
<1> QED BY <1>1, <1>2, <1>3, <1>5, PostStep

LEMMA AnswerKeepsInv ==
    ASSUME ConsoleInv, NEW i \in Posts, SendAnswered(i) \/ SendLost(i)
    PROVE  ConsoleInv'
<1>1. /\ posts[i] # None /\ posts[i].mine
      /\ posts[i] \in PostType /\ posts \in [Posts -> PostType \cup {None}]
  BY DEF SendAnswered, SendLost, ConsoleInv, FormTypeOK
<1>2. sheet # None /\ sheet \in SheetType
  BY <1>1, OneCall
<1>3. [Step]_vars
  BY DEF Step, Sending
<1>4. PostOK(posts[i], Registered)
  BY <1>1 DEF ConsoleInv, PostsOK
<1>5. PICK p \in PostType :
        /\ posts' = [posts EXCEPT ![i] = p]
        /\ ~p.mine
        /\ PostOK(p, Registered)
        /\ posts[i].at \in {"told", "gone"} => p.at \in {"told", "gone"}
        /\ sheet' \in SheetType /\ ~sheet'.sending
        /\ sheet'.success => p.at = "told" \/ sheet.success
  <2>1. CASE SendAnswered(i) /\ posts[i].at = "accepted"
    <3> DEFINE p == [posts[i] EXCEPT !.at = "told", !.mine = FALSE]
    <3>1. /\ posts' = [posts EXCEPT ![i] = p]
          /\ sheet' = [sheet EXCEPT !.sending = FALSE, !.success = TRUE]
      BY <1>1, <2>1 DEF SendAnswered
    <3>2. p \in PostType /\ ~p.mine /\ p.at = "told"
      BY <1>1 DEF PostType
    <3>3. PostOK(p, Registered)
      BY <1>1, <1>4, <2>1 DEF PostOK, PostType
    <3>4. sheet' \in SheetType /\ ~sheet'.sending
      BY <1>2, <3>1 DEF SheetType
    <3> QED BY <3>1, <3>2, <3>3, <3>4
  <2>2. CASE SendLost(i) \/ (SendAnswered(i) /\ posts[i].at # "accepted")
    <3> DEFINE p == [posts[i] EXCEPT !.mine = FALSE]
    <3>1. /\ posts' = [posts EXCEPT ![i] = p]
          /\ sheet' = [sheet EXCEPT !.sending = FALSE]
      BY <1>1, <2>2 DEF SendAnswered, SendLost
    <3>2. p \in PostType /\ ~p.mine /\ p.at = posts[i].at
      BY <1>1 DEF PostType
    <3>3. PostOK(p, Registered)
      BY <1>1, <1>4 DEF PostOK, PostType
    <3>4. sheet' \in SheetType /\ ~sheet'.sending /\ sheet'.success = sheet.success
      BY <1>2, <3>1 DEF SheetType
    <3> QED BY <3>1, <3>2, <3>3, <3>4
  <2> QED BY <2>1, <2>2
<1>6. ButtonHasCall'
  <2>1. posts'[i] = p /\ \A j \in Posts \ {i} : posts'[j] = posts[j]
    BY <1>1, <1>5
  <2>2. \A j \in Posts : posts'[j] = None \/ ~posts'[j].mine
    BY <1>1, <1>5, <2>1, OneCall
  <2> QED BY <1>5, <2>2 DEF ButtonHasCall
<1> QED BY <1>2, <1>3, <1>5, <1>6, PostStep

\* Any page that takes the place of another one.
LEMMA MountKeepsInv ==
    ASSUME ConsoleInv, [Step]_vars, NEW page, NEW t, Mount(page, t)
    PROVE  ConsoleInv'
<1>1. posts' = Left /\ (sheet' = None \/ \E u : sheet' = NewForm(u))
  BY DEF Mount
<1> QED BY <1>1, NewPage

LEMMA SessionKeepsInv ==
    ASSUME ConsoleInv, Session
    PROVE  ConsoleInv'
<1>0. [Step]_vars
  BY DEF Step
<1>1. CASE Reload \/ LateUnauthorized
  BY <1>0, <1>1, NewPage DEF Reload, LateUnauthorized
<1>2. CASE CheckAnswered
  BY <1>0, <1>2, MountKeepsInv DEF CheckAnswered
<1>3. CASE LoginAnswered
  <2>1. PICK t : Mount("dashboard", t)
    BY <1>3 DEF LoginAnswered
  <2> QED BY <1>0, <2>1, MountKeepsInv
<1>4. CASE SignOut
  BY <1>0, <1>4, MountKeepsInv DEF SignOut
<1>5. CASE Bounce
  BY <1>0, <1>5, MountKeepsInv DEF Bounce
<1>6. CASE OpenDashboard
  BY <1>0, <1>6, MountKeepsInv DEF OpenDashboard
<1>7. CASE OpenForm
  BY <1>0, <1>7, MountKeepsInv DEF OpenForm
<1>8. CASE \/ CheckFails \/ \E p \in Registrants \cup {Seed} : LoginSubmit(p)
           \/ LoginFails \/ Expire \/ DashLoaded \/ DashFails \/ DashUnauthorized
  <2>1. UNCHANGED <<sheet, posts>>
    BY <1>8 DEF CheckFails, LoginSubmit, LoginFails, Expire, DashLoaded, DashFails,
       DashUnauthorized, pageVars
  <2> QED BY <1>0, <2>1, OtherStep
<1> QED BY <1>1, <1>2, <1>3, <1>4, <1>5, <1>6, <1>7, <1>8 DEF Session

LEMMA SendingKeepsInv ==
    ASSUME ConsoleInv, Sending
    PROVE  ConsoleInv'
<1>0. [Step]_vars
  BY DEF Step
<1>1. CASE TypesAnswered \/ UsersAnswered \/ FormDataFails \/ CloseSnackbar
  <2>1. sheet # None /\ sheet \in SheetType /\ posts' = posts
    BY <1>1 DEF TypesAnswered, UsersAnswered, FormDataFails, CloseSnackbar, ConsoleInv, FormTypeOK
  <2>2. /\ sheet' \in SheetType /\ sheet'.sending = sheet.sending
        /\ sheet'.success => sheet.success
    <3>1. CASE TypesAnswered
      <4> DEFINE a == token = "admin"
      <4>1. a \in BOOLEAN
        OBVIOUS
      <4>2. sheet' = [sheet EXCEPT !.lists = "users", !.admin = a]
        BY <3>1 DEF TypesAnswered
      <4> HIDE DEF a
      <4> QED BY <2>1, <4>1, <4>2 DEF SheetType
    <3>2. CASE UsersAnswered
      BY <2>1, <3>2 DEF UsersAnswered, SheetType, Registered
    <3>3. CASE FormDataFails
      BY <2>1, <3>3 DEF FormDataFails, SheetType
    <3>4. CASE CloseSnackbar
      BY <2>1, <3>4 DEF CloseSnackbar, SheetType
    <3> QED BY <1>1, <3>1, <3>2, <3>3, <3>4
  <2> QED BY <1>0, <2>1, <2>2, SheetStep
<1>2. CASE \E to \in {All} \cup Selections : Send(to)
  BY <1>2, SendKeepsInv
<1>3. CASE \E i \in Posts : StoreSend(i) \/ RefuseSend(i) \/ SendAnswered(i) \/ SendLost(i)
  BY <1>3, StoreKeepsInv, AnswerKeepsInv
<1> QED BY <1>1, <1>2, <1>3 DEF Sending

\* A restart leaves no post under way, and none that anybody has.
LEMMA RestartKeepsInv ==
    ASSUME ConsoleInv, Restart
    PROVE  ConsoleInv'
<1>1. /\ posts \in [Posts -> PostType \cup {None}] /\ sheet' = sheet
      /\ posts' = [i \in Posts |-> posts'[i]]
  BY DEF Restart, ConsoleInv, FormTypeOK
<1>2. ASSUME NEW i \in Posts
      PROVE  /\ posts'[i] \in PostType \cup {None}
             /\ posts'[i] = None <=> posts[i] = None
             /\ posts[i] # None =>
                  /\ posts'[i].mine = posts[i].mine
                  /\ posts[i].at \in {"told", "gone"} => posts'[i].at = "gone"
                  /\ PostOK(posts'[i], Registered')
  <2>1. CASE posts[i] = None
    BY <2>1 DEF Restart
  <2>2. CASE posts[i] # None
    <3>1. posts[i] \in PostType
      BY <1>1, <2>2
    <3>2. CASE posts[i].at \in {"told", "gone"}
      <4>1. posts'[i] = Gone(posts[i])
        BY <2>2, <3>2 DEF Restart
      <4>2. posts'[i] \in PostType /\ posts'[i].mine = posts[i].mine /\ posts'[i].at = "gone"
        BY <3>1, <4>1 DEF Gone, PostType
      <4> QED BY <2>2, <4>2, ConsoleAssumption DEF PostOK
    <3>3. CASE posts[i].at \notin {"told", "gone"}
      <4>1. posts'[i] = Refused(posts[i])
        BY <2>2, <3>3 DEF Restart
      <4>2. /\ posts'[i] \in PostType /\ posts'[i].mine = posts[i].mine
            /\ PostOK(posts'[i], Registered')
        BY <3>1, <4>1, RefusedPost
      <4> QED BY <2>2, <3>3, <4>2, ConsoleAssumption
    <3> QED BY <3>2, <3>3
  <2> QED BY <2>1, <2>2
<1>3. AccountsInv'
  BY AccountsWiped DEF Restart, ConsoleInv
<1>4. FormTypeOK'
  <2>1. posts' \in [Posts -> PostType \cup {None}]
    BY <1>1, <1>2
  <2> QED BY <1>1, <2>1 DEF ConsoleInv, FormTypeOK
<1>5. PostsOK' /\ ReportHasPost'
  BY <1>1, <1>2 DEF ConsoleInv, PostsOK, ReportHasPost
<1>6. ButtonHasCall'
  BY <1>1, <1>2 DEF ConsoleInv, ButtonHasCall
<1> QED BY <1>3, <1>4, <1>5, <1>6 DEF ConsoleInv

LEMMA ConsoleInductive == Init /\ [][Next]_vars => []ConsoleInv
<1>1. Init => ConsoleInv
  BY AccountsInitially DEF Init, ConsoleInv, FormTypeOK, PostsOK, ButtonHasCall, ReportHasPost
<1>2. ASSUME ConsoleInv, [Next]_vars
      PROVE  ConsoleInv'
  <2>1. CASE Registration
    BY <1>2, <2>1, OtherStep DEF Step, Registration, pageVars
  <2>2. CASE UNCHANGED vars
    BY <1>2, <2>2, OtherStep DEF vars, pageVars
  <2>3. CASE Restart
    BY <1>2, <2>3, RestartKeepsInv
  <2> QED BY <1>2, <2>1, <2>2, <2>3, SessionKeepsInv, SendingKeepsInv DEF Next
<1> QED BY <1>1, <1>2, PTL

\* "Notification sent successfully!" is true of every target, for any number of
\* events, users and people who register meanwhile.
THEOREM ConsoleSuccess == Spec => []SuccessMeansStored
<1>1. ConsoleInv => SuccessMeansStored
  BY DEF ConsoleInv, PostsOK, PostOK, ReportHasPost, SuccessMeansStored
<1> QED BY <1>1, ConsoleInductive, PTL DEF Spec

\* The Send button is held exactly while one call of the form is unanswered.
THEOREM ConsoleButton == Spec => []ButtonHasCall
<1>1. ConsoleInv => ButtonHasCall
  BY DEF ConsoleInv
<1> QED BY <1>1, ConsoleInductive, PTL DEF Spec

\* The types of the tab's other variables.
SessionTypeOK ==
    /\ token \in Tokens
    /\ auth \in BOOLEAN /\ late \in BOOLEAN
    /\ route \in {"login", "dashboard", "form"}
    /\ check \in {"admin", "user", "expired", None}
    /\ signing \in Registrants \cup {Seed, None}
    /\ dash = None \/ dash \in [shows : {"loading", "data", "error"}, sent : Tokens]

LEMMA MountTypes ==
    ASSUME NEW page \in {"login", "dashboard", "form"}, NEW t \in Tokens,
           Mount(page, t)
    PROVE  /\ token' \in Tokens
           /\ late' \in BOOLEAN
           /\ route' \in {"login", "dashboard", "form"}
           /\ dash' = None \/ dash' \in [shows : {"loading", "data", "error"}, sent : Tokens]
BY DEF Mount, NewDashboard

LEMMA SessionTypesStep ==
    ASSUME SessionTypeOK, [Next]_vars
    PROVE  SessionTypeOK'
<1> USE DEF SessionTypeOK
<1>1. CASE Registration \/ Sending \/ Restart \/ UNCHANGED vars
  BY <1>1 DEF Registration, Restart, Sending, vars, pageVars, TypesAnswered, UsersAnswered, FormDataFails,
     Send, StoreSend, RefuseSend, SendAnswered, SendLost, CloseSnackbar
<1>2. CASE Reload
  BY <1>2 DEF Reload, TokenToCheck, Tokens
<1>3. CASE CheckAnswered
  BY <1>3, MountTypes DEF CheckAnswered
<1>4. CASE CheckFails \/ LoginFails \/ Expire \/ \E p \in Registrants \cup {Seed} : LoginSubmit(p)
  BY <1>4 DEF CheckFails, LoginFails, Expire, LoginSubmit, Tokens, pageVars
<1>5. CASE LoginAnswered
  <2>1. PICK t \in {"admin", "user"} : Mount("dashboard", t)
    BY <1>5 DEF LoginAnswered
  <2>2. t \in Tokens
    BY DEF Tokens
  <2>3. auth' = TRUE /\ signing' = None /\ check' = check
    BY <1>5 DEF LoginAnswered
  <2> QED BY <2>1, <2>2, <2>3, MountTypes
<1>6. CASE SignOut
  <2>1. "none" \in Tokens
    BY DEF Tokens
  <2> QED BY <1>6, <2>1, MountTypes DEF SignOut
<1>7. CASE Bounce \/ OpenDashboard \/ OpenForm
  BY <1>7, MountTypes DEF Bounce, OpenDashboard, OpenForm
<1>8. CASE DashLoaded \/ DashFails
  BY <1>8 DEF DashLoaded, DashFails, DashWaits
<1>9. CASE DashUnauthorized \/ LateUnauthorized
  BY <1>9 DEF DashUnauthorized, LateUnauthorized, Doomed, Tokens
<1> QED BY <1>1, <1>2, <1>3, <1>4, <1>5, <1>6, <1>7, <1>8, <1>9 DEF Next, Session

\* The variables have their types, whatever the constants.
THEOREM ConsoleTypes == Spec => []TypeOK
<1>1. Init => SessionTypeOK
  BY DEF Init, SessionTypeOK, Tokens
<1>2. SessionTypeOK /\ [Next]_vars => SessionTypeOK'
  BY SessionTypesStep
<1>3. ConsoleInv /\ SessionTypeOK => TypeOK
  BY DEF ConsoleInv, AccountsInv, FormTypeOK, SessionTypeOK, TypeOK
<1> QED BY <1>1, <1>2, <1>3, ConsoleInductive, PTL DEF Spec

=============================================================================
