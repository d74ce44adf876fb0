-------------------------- MODULE SseClientProofs --------------------------
(* Theorems about SseClient, for every set of users and EventSources and    *)
(* every maximum of attempts.                                               *)
EXTENDS SseClient, TLAPS

AppType ==
    /\ token \in Users \cup {None}
    /\ page \in {"loading", "validating", "login", "entering", "app"}
    /\ asked \in Users \cup {None}
    /\ user \in Users \cup {None}
    /\ page = "validating" => asked \in Users
    /\ page \in {"entering", "app"} => user \in Users

ServiceType ==
    /\ eventSource \in Sources \cup {None}
    /\ currentUserId \in Users \cup {None}
    /\ attempts \in 0..MaxAttempts
    /\ state \in [Sources -> {"closed", "connecting", "open"}]
    /\ owner \in [Sources -> Users \cup {None}]
    /\ forUser \in [Sources -> Users \cup {None}]
    /\ told \in BOOLEAN

TimersType == timers \in [Users -> Nat]

\* The inductive invariant.
IInv == AppType /\ ServiceType /\ TimersType /\ OneStream /\ NotStranded

LEMMA IInvIsTyped == IInv => TypeOK
BY DEF IInv, AppType, ServiceType, TimersType, TypeOK

\* After a connect the service is well again, and has an EventSource unless it
\* told the subscribers that it has none.
LEMMA ConnectStep ==
    ASSUME ServiceType, OneStream, token \in Users \cup {None},
           NEW u \in Users, Connect(u)
    PROVE  ServiceType' /\ OneStream' /\ (eventSource' # None \/ told')
<1>1. CASE ConnectRefused
  BY <1>1 DEF ConnectRefused, ServiceType, OneStream, Live, serviceVars, sourceVars
<1>2. CASE Serves(u) /\ UNCHANGED <<serviceVars, sourceVars, told>>
  BY <1>2 DEF Serves, ServiceType, OneStream, Live, serviceVars, sourceVars
<1>3. CASE token # None /\ NewSource(u)
  <2>1. PICK s \in Sources \ {eventSource} :
            /\ ~Live(s)
            /\ state' = [CloseCurrent(state) EXCEPT ![s] = "connecting"]
            /\ owner' = [owner EXCEPT ![s] = token]
            /\ forUser' = [forUser EXCEPT ![s] = u]
            /\ eventSource' = s
    BY <1>3 DEF NewSource
  <2>2. u # None /\ s # None
    BY <2>1, ClientAssumption
  <2>3. currentUserId' = u /\ told' = FALSE /\ attempts' \in 0..MaxAttempts
    BY <1>3, ClientAssumption DEF NewSource, ServiceType
  <2>4. state' = [r \in Sources |-> IF r = s THEN "connecting" ELSE "closed"]
    BY <2>1 DEF CloseCurrent, OneStream, Live, ServiceType
  <2>5. ServiceType'
    BY <1>3, <2>1, <2>3, <2>4 DEF ServiceType
  <2>6. OneStream'
    BY <2>1, <2>2, <2>3, <2>4 DEF OneStream, Live, ServiceType
  <2> QED BY <2>1, <2>2, <2>5, <2>6
<1> QED BY <1>1, <1>2, <1>3 DEF Connect

\* After an error event no EventSource of the tab is live: the one that failed
\* is the one the service closes.
LEMMA ErrorClosesAll ==
    ASSUME ServiceType, OneStream, NEW s \in Sources, ErrorEvent(s)
    PROVE  /\ state' = [r \in Sources |-> "closed"]
           /\ RetryUser(s) = currentUserId
           /\ currentUserId # None
<1>1. s = eventSource
  BY DEF ErrorEvent, OneStream
<1>2. eventSource # None /\ currentUserId # None
  BY <1>1, ClientAssumption DEF OneStream
<1>3. PICK after \in {"closed", "connecting"} :
          state' = CloseCurrent([state EXCEPT ![s] = after])
  BY DEF ErrorEvent
<1>4. \A r \in Sources : r # eventSource => state[r] = "closed"
  BY DEF OneStream, Live
<1> QED BY <1>1, <1>2, <1>3, <1>4 DEF CloseCurrent, RetryUser, ServiceType

\* disconnect() and a reload leave no live EventSource either.
LEMMA ClosedIsOneStream ==
    ASSUME state' = [r \in Sources |-> "closed"], eventSource' = None,
           currentUserId' = None
    PROVE  OneStream'
<1>1. \A r \in Sources : ~Live(r)' /\ r # eventSource'
  BY ClientAssumption DEF Live
<1> QED BY <1>1 DEF OneStream

\* The arithmetic of a counter that was reset.
LEMMA ZeroAttempts == 0 \in 0..MaxAttempts
BY ClientAssumption

LEMMA InitIInv == Init => IInv
<1> SUFFICES ASSUME Init PROVE IInv
  OBVIOUS
<1>1. AppType /\ ServiceType /\ TimersType
  BY ZeroAttempts DEF Init, AppType, ServiceType, TimersType
<1>2. OneStream
  BY ClientAssumption DEF Init, OneStream, Live
<1>3. NotStranded
  BY DEF Init, NotStranded
<1> QED BY <1>1, <1>2, <1>3 DEF IInv

LEMMA NextIInv == IInv /\ [Next]_vars => IInv'
<1> SUFFICES ASSUME IInv, [Next]_vars PROVE IInv'
  OBVIOUS
<1> USE DEF IInv
<1>1. ASSUME NEW s \in Sources, Opens(s) PROVE IInv'
  <2>1. s = eventSource
    BY <1>1 DEF Opens, OneStream, Live
  <2>2. AppType' /\ ServiceType' /\ TimersType'
    BY <1>1, ZeroAttempts DEF Opens, AppType, ServiceType, TimersType, appVars
  <2>3. OneStream'
    BY <1>1, <2>1 DEF Opens, OneStream, Live, ServiceType
  <2>4. NotStranded'
    BY <1>1, <2>1, ClientAssumption DEF Opens, NotStranded, appVars
  <2> QED BY <2>2, <2>3, <2>4
<1>2. ASSUME NEW s \in Sources, FailsAndRetries(s) PROVE IInv'
  <2>1. /\ state' = [r \in Sources |-> "closed"]
        /\ RetryUser(s) = currentUserId
        /\ currentUserId \in Users
    BY <1>2, ErrorClosesAll DEF FailsAndRetries, ServiceType
  <2>2. timers' = [timers EXCEPT ![currentUserId] = timers[currentUserId] + 1]
    BY <1>2, <2>1 DEF FailsAndRetries
  <2>3. TimersType' /\ timers'[currentUserId] > 0
    BY <2>1, <2>2 DEF TimersType
  <2>4. attempts' \in 0..MaxAttempts
    <3>1. attempts \in 0..MaxAttempts /\ attempts < MaxAttempts /\ attempts' = attempts + 1
      BY <1>2 DEF FailsAndRetries, ServiceType
    <3> QED BY <3>1, ClientAssumption
  <2>5. AppType' /\ ServiceType'
    BY <1>2, <2>1, <2>4 DEF FailsAndRetries, AppType, ServiceType, appVars
  <2>6. OneStream'
    BY <1>2, <2>1, ClosedIsOneStream DEF FailsAndRetries
  <2>7. NotStranded'
    BY <2>1, <2>3 DEF NotStranded
  <2> QED BY <2>3, <2>5, <2>6, <2>7
<1>3. ASSUME NEW s \in Sources, FailsForGood(s) PROVE IInv'
  <2>1. state' = [r \in Sources |-> "closed"]
    BY <1>3, ErrorClosesAll DEF FailsForGood
  <2>2. AppType' /\ TimersType'
    BY <1>3 DEF FailsForGood, AppType, TimersType, appVars
  <2>3. Reset /\ told' = TRUE /\ UNCHANGED <<owner, forUser>>
    BY <1>3 DEF FailsForGood
  <2>4. ServiceType'
    BY <2>1, <2>3, ZeroAttempts DEF Reset, ServiceType
  <2>5. OneStream'
    BY <1>3, <2>1, ClosedIsOneStream DEF FailsForGood, Reset
  <2>6. NotStranded'
    BY <1>3 DEF FailsForGood, NotStranded
  <2> QED BY <2>2, <2>4, <2>5, <2>6
<1>4. ASSUME NEW u \in Users, TimerFires(u) PROVE IInv'
  <2>1. ServiceType' /\ OneStream' /\ (eventSource' # None \/ told')
    BY <1>4, ConnectStep DEF TimerFires, AppType
  <2>2. AppType' /\ TimersType'
    BY <1>4 DEF TimerFires, AppType, TimersType, appVars
  <2>3. NotStranded'
    BY <2>1 DEF NotStranded
  <2> QED BY <2>1, <2>2, <2>3
<1>5. CASE RunEffect
  <2>1. ServiceType' /\ OneStream' /\ (eventSource' # None \/ told')
    BY <1>5, ConnectStep DEF RunEffect, AppType
  <2>2. AppType' /\ TimersType'
    BY <1>5 DEF RunEffect, AppType, TimersType
  <2>3. NotStranded'
    BY <2>1 DEF NotStranded
  <2> QED BY <2>1, <2>2, <2>3
<1>6. CASE SignOut
  <2>1. state' = [r \in Sources |-> "closed"]
    BY <1>6 DEF SignOut, Disconnect, CloseCurrent, OneStream, Live, ServiceType
  <2>2. AppType' /\ ServiceType' /\ TimersType'
    BY <1>6, <2>1, ZeroAttempts
       DEF SignOut, Disconnect, Reset, AppType, ServiceType, TimersType
  <2>3. OneStream'
    BY <1>6, <2>1, ClosedIsOneStream DEF SignOut, Disconnect, Reset
  <2>4. NotStranded'
    BY <1>6 DEF SignOut, NotStranded
  <2> QED BY <2>2, <2>3, <2>4
<1>7. CASE Reload
  <2>1. AppType' /\ ServiceType' /\ TimersType'
    BY <1>7, ZeroAttempts DEF Reload, Reset, AppType, ServiceType, TimersType
  <2>2. OneStream'
    BY <1>7, ClosedIsOneStream DEF Reload, Reset
  <2>3. NotStranded'
    BY <1>7 DEF Reload, NotStranded
  <2> QED BY <2>1, <2>2, <2>3
<1>8. ASSUME UNCHANGED <<serviceVars, sourceVars, timers, told>>, AppType',
             page' = "app" => page = "app"
      PROVE  IInv'
  BY <1>8 DEF ServiceType, TimersType, OneStream, NotStranded, Live,
              serviceVars, sourceVars
<1>9. CASE CheckAuth \/ Validated \/ NotValidated
  BY <1>8, <1>9 DEF CheckAuth, Validated, NotValidated, AppType
<1>10. ASSUME NEW u \in Users, SignIn(u) PROVE IInv'
  BY <1>8, <1>10 DEF SignIn, AppType
<1>11. CASE TokenChangesElsewhere \/ UNCHANGED vars
  BY <1>8, <1>11 DEF TokenChangesElsewhere, AppType, vars, appVars
<1> QED
  BY <1>1, <1>2, <1>3, <1>4, <1>5, <1>6, <1>7, <1>9, <1>10, <1>11 DEF Next

LEMMA AlwaysIInv == Spec => []IInv
BY InitIInv, NextIInv, PTL DEF Spec

\* Every variable keeps its type, and the counter never passes its maximum
\* (sseService.js:100-101), for any users, EventSources and maximum.
THEOREM TypeCorrect == Spec => []TypeOK
BY AlwaysIInv, IInvIsTyped, PTL

\* A tab never has two live EventSources, nor one the service has let go of
\* (connect, onerror and disconnect of sseService.js).
THEOREM OneStreamAtATime == Spec => []OneStream
<1>1. IInv => OneStream
  BY DEF IInv
<1> QED BY <1>1, AlwaysIInv, PTL

\* A signed-in page has a stream, a timer that will try again, or was told that
\* it has none (connect and onerror of sseService.js).
THEOREM NeverStranded == Spec => []NotStranded
<1>1. IInv => NotStranded
  BY DEF IInv
<1> QED BY <1>1, AlwaysIInv, PTL

\* What a connect for the user that is being served leaves alone.
LEMMA ConnectKeeps ==
    ASSUME ServiceType, OneStream, NEW u \in Users, Connect(u),
           NEW s \in Sources, state[s] = "open", state'[s] = "closed"
    PROVE  currentUserId' # currentUserId
<1>1. s = eventSource /\ s # None
  BY ClientAssumption DEF OneStream, Live
<1>2. ~Serves(u) /\ NewSource(u)
  BY DEF Connect, ConnectRefused, sourceVars
<1>3. u # currentUserId
  BY <1>1, <1>2 DEF Serves
<1> QED BY <1>2, <1>3 DEF NewSource

\* An open stream ends by its own failure, a sign-out, a reload or a connect for
\* another user, never by a repeated or late connect (sseService.js:22-40).
THEOREM OpenStreamIsKept == Spec => KeepsOpenStream
<1> DEFINE Kept == \A s \in Sources :
        state[s] = "open" /\ state'[s] = "closed"
        => currentUserId' # currentUserId \/ user' # user \/ page' = "loading"
<1>1. IInv /\ [Next]_vars => [Kept]_vars
  <2> SUFFICES ASSUME IInv, Next,
                      NEW s \in Sources, state[s] = "open", state'[s] = "closed",
                      page' # "loading"
               PROVE  currentUserId' # currentUserId \/ user' # user
    OBVIOUS
  <2> USE DEF IInv
  <2>1. ASSUME NEW r \in Sources, Opens(r) PROVE FALSE
    BY <2>1 DEF Opens, ServiceType
  <2>2. ASSUME NEW r \in Sources, FailsAndRetries(r) \/ FailsForGood(r)
        PROVE  currentUserId' # currentUserId
    BY <2>2, ErrorClosesAll DEF FailsAndRetries, FailsForGood, Reset
  <2>3. ASSUME NEW u \in Users, TimerFires(u) PROVE currentUserId' # currentUserId
    BY <2>3, ConnectKeeps DEF TimerFires
  <2>4. CASE RunEffect
    BY <2>4, ConnectKeeps DEF RunEffect, AppType
  <2>5. CASE SignOut
    BY <2>5, ClientAssumption DEF SignOut, AppType
  <2>6. CASE CheckAuth \/ Validated \/ NotValidated \/ TokenChangesElsewhere
    BY <2>6 DEF CheckAuth, Validated, NotValidated, TokenChangesElsewhere, sourceVars
  <2>7. ASSUME NEW u \in Users, SignIn(u) PROVE FALSE
    BY <2>7 DEF SignIn, sourceVars
  <2>8. CASE Reload
    BY <2>8 DEF Reload
  <2> QED BY <2>1, <2>2, <2>3, <2>4, <2>5, <2>6, <2>7, <2>8 DEF Next
<1> QED BY <1>1, AlwaysIInv, PTL DEF Spec, KeepsOpenStream

=============================================================================
