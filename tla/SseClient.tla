------------------------------ MODULE SseClient ------------------------------
(***************************************************************************)
(* The user UI's end of the event stream, in one browser tab: SseService    *)
(* (sseService.js) with its EventSource, its attempt counter and its        *)
(* reconnect timers, and what drives it: App.js's sign-in check and         *)
(* effects, authService.js's token in localStorage.                         *)
(*                                                                          *)
(* JavaScript runs one handler at a time, so a handler is one action; what  *)
(* interleaves is when timers, EventSource events, React's effects and the  *)
(* answers of the backend come.  localStorage is shared with the browser's  *)
(* other tabs, which appear here as sign-ins and sign-outs "elsewhere".     *)
(*                                                                          *)
(* External: EventSource, modelled from its use: a closed one never fires   *)
(* again; one that fails is either closed already or about to try again.    *)
(***************************************************************************)
EXTENDS Naturals

CONSTANTS
    Users,          \* users who sign in, in this tab or another
    Sources,        \* EventSource objects; a closed one stands for a new one
    MaxAttempts,    \* maxReconnectionAttempts, 5 in the code
    MaxTimers,      \* bound: timers of one user pending when that user signs in
    None            \* JavaScript's null

ASSUME ClientAssumption ==
    /\ MaxAttempts \in Nat
    /\ MaxTimers \in Nat
    /\ None \notin Users \cup Sources

VARIABLES
    token,          \* localStorage 'token': whose it is
    page,           \* App.js: "loading", "validating", "login", "entering"
                    \* (user set, its effect not run yet), "app"
    asked,          \* whose token the backend is asked to validate
    user,           \* App's state `user`
    eventSource, currentUserId, attempts,   \* SseService's fields
    state,          \* readyState of each EventSource
    owner,          \* whose token is in each EventSource's url
    forUser,        \* connect's argument, in the closure of each onerror
    timers,         \* pending setTimeouts: how many connect(u) each user has
    told            \* the service's last word was that there will be no stream

appVars == <<page, asked, user>>
serviceVars == <<eventSource, currentUserId, attempts>>
sourceVars == <<state, owner, forUser>>
vars == <<token, appVars, serviceVars, sourceVars, timers, told>>

Init ==
    /\ token \in Users \cup {None}
    /\ page = "loading"
    /\ asked = None
    /\ user = None
    /\ eventSource = None
    /\ currentUserId = None
    /\ attempts = 0
    /\ state = [s \in Sources |-> "closed"]
    /\ owner = [s \in Sources |-> None]
    /\ forUser = [s \in Sources |-> None]
    /\ timers = [u \in Users |-> 0]
    /\ told = FALSE

-----------------------------------------------------------------------------
(* SseService                                                               *)

Live(s) == state[s] # "closed"

\* this.eventSource.close(), on the states st.
CloseCurrent(st) == [s \in Sources |-> IF s = eventSource THEN "closed" ELSE st[s]]

\* The service has an EventSource for u that is open or may still open.
Serves(u) ==
    /\ eventSource # None
    /\ currentUserId = u
    /\ state[eventSource] \in {"open", "connecting"}

\* connect: disconnect() what there is, new EventSource(url).
NewSource(u) ==
    /\ attempts' = IF eventSource # None THEN 0 ELSE attempts
    /\ \E s \in Sources \ {eventSource} :
        /\ ~Live(s)
        /\ state' = [CloseCurrent(state) EXCEPT ![s] = "connecting"]
        /\ owner' = [owner EXCEPT ![s] = token]
        /\ forUser' = [forUser EXCEPT ![s] = u]
        /\ eventSource' = s
    /\ currentUserId' = u
    /\ told' = FALSE

\* No token: the subscribers are told (SSE_AUTH_ERROR), the service stays as it is.
ConnectRefused ==
    /\ token = None
    /\ told' = TRUE
    /\ UNCHANGED <<serviceVars, sourceVars>>

\* Slip: return without a word when there is no token.
SilentConnect(u) ==
    IF token # None /\ ~Serves(u) THEN NewSource(u)
    ELSE UNCHANGED <<serviceVars, sourceVars, told>>

\* Slip: the early returns left out.
EagerConnect(u) == ConnectRefused \/ (token # None /\ NewSource(u))

\* connect(userId), whoever calls it: the token is the one stored now.
Connect(u) ==
    \/ ConnectRefused
    \/ /\ token # None
       /\ Serves(u)
       /\ UNCHANGED <<serviceVars, sourceVars, told>>
    \/ /\ token # None
       /\ ~Serves(u)
       /\ NewSource(u)

\* The service's fields after disconnect() and in the constructor.
Reset ==
    /\ eventSource' = None
    /\ currentUserId' = None
    /\ attempts' = 0

Disconnect ==
    /\ state' = CloseCurrent(state)
    /\ Reset
    /\ UNCHANGED <<owner, forUser, told>>

\* onopen.
Opens(s) ==
    /\ state[s] = "connecting"
    /\ state' = [state EXCEPT ![s] = "open"]
    /\ attempts' = 0
    /\ told' = FALSE
    /\ UNCHANGED <<token, appVars, eventSource, currentUserId, owner, forUser, timers>>

\* Slip: onerror leaves it to the browser to close its EventSource.
TrustingErrorEvent(s) ==
    /\ Live(s)
    /\ \E after \in {"closed", "connecting"} : state' = [state EXCEPT ![s] = after]

\* An error event of s, and the first thing onerror does: close the *current*
\* EventSource.
ErrorEvent(s) ==
    /\ Live(s)
    /\ \E after \in {"closed", "connecting"} :
        state' = CloseCurrent([state EXCEPT ![s] = after])

RetryUser(s) == IF currentUserId # None THEN currentUserId ELSE forUser[s]

\* Slip: <= for <.
OffByOneFailsAndRetries(s) ==
    /\ ErrorEvent(s)
    /\ attempts <= MaxAttempts
    /\ attempts' = attempts + 1
    /\ timers' = [timers EXCEPT ![RetryUser(s)] = @ + 1]
    /\ eventSource' = None
    /\ currentUserId' = None
    /\ told' = FALSE
    /\ UNCHANGED <<token, appVars, owner, forUser>>

\* Slip: the attempt is not counted.
TirelessFailsAndRetries(s) ==
    /\ ErrorEvent(s)
    /\ timers' = [timers EXCEPT ![RetryUser(s)] = @ + 1]
    /\ eventSource' = None
    /\ currentUserId' = None
    /\ told' = FALSE
    /\ UNCHANGED <<token, appVars, attempts, owner, forUser>>

\* onerror with attempts left: a timer nobody keeps a handle of.
FailsAndRetries(s) ==
    /\ ErrorEvent(s)
    /\ attempts < MaxAttempts
    /\ attempts' = attempts + 1
    /\ timers' = [timers EXCEPT ![RetryUser(s)] = @ + 1]
    /\ eventSource' = None
    /\ currentUserId' = None
    /\ told' = FALSE
    /\ UNCHANGED <<token, appVars, owner, forUser>>

\* onerror with none left: SSE_CONNECTION_ERROR and disconnect().
FailsForGood(s) ==
    /\ ErrorEvent(s)
    /\ attempts >= MaxAttempts
    /\ Reset
    /\ told' = TRUE
    /\ UNCHANGED <<token, appVars, owner, forUser, timers>>

TimerFires(u) ==
    /\ timers[u] > 0
    /\ timers' = [timers EXCEPT ![u] = @ - 1]
    /\ Connect(u)
    /\ UNCHANGED <<token, appVars>>

-----------------------------------------------------------------------------
(* App.js and authService.js                                                *)

\* performAuthCheck: checkAuthStatus drops a token that has expired; one that
\* has not goes to the backend.
CheckAuth ==
    /\ page = "loading"
    /\ \/ /\ page' = "login"
          /\ token' = None
          /\ asked' = asked
       \/ /\ token # None
          /\ page' = "validating"
          /\ token' = token
          /\ asked' = token
    /\ UNCHANGED <<user, serviceVars, sourceVars, timers, told>>

\* validateTokenWithBackend's answer: the user of the token that was sent.
Validated ==
    /\ page = "validating"
    /\ page' = "entering"
    /\ user' = asked
    /\ asked' = None
    /\ UNCHANGED <<token, serviceVars, sourceVars, timers, told>>

\* Any failure removes the token that is stored by now.
NotValidated ==
    /\ page = "validating"
    /\ page' = "login"
    /\ token' = None
    /\ asked' = None
    /\ UNCHANGED <<user, serviceVars, sourceVars, timers, told>>

\* Login.js, authService.login and handleLogin: one at a time, the button is
\* disabled meanwhile.
SignIn(u) ==
    /\ page = "login"
    /\ timers[u] + (IF currentUserId = u THEN 1 ELSE 0) < MaxTimers
    /\ page' = "entering"
    /\ token' = u
    /\ user' = u
    /\ UNCHANGED <<asked, serviceVars, sourceVars, timers, told>>

\* The effect on [user], some time after the render that follows setUser.
RunEffect ==
    /\ page = "entering"
    /\ page' = "app"
    /\ Connect(user)
    /\ UNCHANGED <<token, asked, user, timers>>

\* handleLogout; the effect's cleanup repeats the disconnect before the click's
\* handler is done.
SignOut ==
    /\ page = "app"
    /\ page' = "login"
    /\ token' = None
    /\ user' = None
    /\ Disconnect
    /\ UNCHANGED <<asked, timers>>

\* The tab is reloaded, or closed and opened again: only localStorage survives.
Reload ==
    /\ page # "loading"
    /\ page' = "loading"
    /\ asked' = None
    /\ user' = None
    /\ Reset
    /\ state' = [s \in Sources |-> "closed"]
    /\ timers' = [u \in Users |-> 0]
    /\ told' = FALSE
    /\ UNCHANGED <<token, owner, forUser>>

\* Another tab signs u in, or out, or drops a token it could not validate.
TokenChangesElsewhere ==
    /\ token' \in Users \cup {None}
    /\ UNCHANGED <<appVars, serviceVars, sourceVars, timers, told>>

-----------------------------------------------------------------------------
Fails(s) == FailsAndRetries(s) \/ FailsForGood(s)

\* An attempt to connect ends, one way or the other.
Settles(s) == state[s] = "connecting" /\ (Opens(s) \/ Fails(s))

Next ==
    \/ \E s \in Sources : Opens(s) \/ FailsAndRetries(s) \/ FailsForGood(s)
    \/ \E u \in Users : TimerFires(u) \/ SignIn(u)
    \/ CheckAuth \/ Validated \/ NotValidated \/ RunEffect \/ SignOut \/ Reload
    \/ TokenChangesElsewhere

Spec == Init /\ [][Next]_vars

\* Timers fire, effects run, attempts to connect end.  An open stream may last
\* for ever; nothing is assumed of users, other tabs and the backend's answers.
Fairness ==
    /\ WF_vars(RunEffect)
    /\ \A u \in Users : WF_vars(TimerFires(u))
    /\ WF_vars(\E s \in Sources : Settles(s))

FairSpec == Spec /\ Fairness

-----------------------------------------------------------------------------
(* Properties.                                                              *)

\* Every variable has its type, the counter stays within maxReconnectionAttempts,
\* and a page that is past the login has a user.
TypeOK ==
    /\ token \in Users \cup {None}
    /\ page \in {"loading", "validating", "login", "entering", "app"}
    /\ asked \in Users \cup {None}
    /\ user \in Users \cup {None}
    /\ page = "validating" => asked \in Users
    /\ page \in {"entering", "app"} => user \in Users
    /\ eventSource \in Sources \cup {None}
    /\ currentUserId \in Users \cup {None}
    /\ attempts \in 0..MaxAttempts
    /\ state \in [Sources -> {"closed", "connecting", "open"}]
    /\ owner \in [Sources -> Users \cup {None}]
    /\ forUser \in [Sources -> Users \cup {None}]
    /\ timers \in [Users -> Nat]
    /\ told \in BOOLEAN

\* The tab has at most one live EventSource, the one the service knows, and the
\* service's fields describe it: none survives a failure, a reconnect, a change
\* of user or a sign-out, so none can report into a service that has moved on.
OneStream ==
    /\ \A s \in Sources : Live(s) <=> s = eventSource
    /\ eventSource = None <=> currentUserId = None
    /\ eventSource # None => forUser[eventSource] = currentUserId

\* A signed-in page is never left without a stream in silence: it has one, or a
\* timer is about to try again, or the subscribers were told.
NotStranded ==
    page = "app" => eventSource # None \/ told \/ \E u \in Users : timers[u] > 0

\* A late timer or a repeated connect for the user the service is serving does
\* not cut an open stream: only a failure, a sign-out, a reload or a connect for
\* somebody else does.
KeepsOpenStream ==
    [][\A s \in Sources :
        state[s] = "open" /\ state'[s] = "closed"
        => currentUserId' # currentUserId \/ user' # user \/ page' = "loading"]_vars

\* A signed-in page gets a stream or is told that there will be none, whatever
\* timers of earlier sessions do to the attempt counter.
ConnectsOrGivesUp ==
    page = "app" ~> page # "app" \/ told \/ \E s \in Sources : state[s] = "open"

\* backend/README.md:89 "User-specific notifications are pushed to the
\* respective user's stream": what a signed-in page listens to is the stream of
\* the user it shows.
StreamIsItsUsers ==
    page = "app" /\ eventSource # None => owner[eventSource] = user

=============================================================================
