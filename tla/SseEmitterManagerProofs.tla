---------------------- MODULE SseEmitterManagerProofs ----------------------
(* Theorems about SseEmitterManager for any users, connections and calls.   *)
EXTENDS SseEmitterManager, FiniteSetTheorems, TLAPS

\* A request that has not registered a sink yet has made none.
NotMadeYet ==
    \A c \in Conns : pc[c] \in {"idle", "refused", "closing", "adding"} => phase[c] = "absent"

\* Whoever holds a sink holds one that was made.
HeldWasMade == \A t \in Threads : held[t] # None => phase[held[t]] # "absent"

\* Whoever is about to complete a sink has taken it out of the map.
ClosingPC == {"closing", "cancelClosing", "beatClosing"}
ClosingIsUnregistered ==
    \A t \in Threads : pc[t] \in ClosingPC => \A u \in Users : userSinks[u] # held[t]

\* A stream is cancelled because its browser is gone, and ends because its sink
\* was completed.
EndHasCause == \A c \in Conns :
    /\ pc[c] \in {"cancelling", "cancelClosing", "cancelled"} => client[c] = "gone"
    /\ pc[c] = "ended" => phase[c] = "completed"

\* What a sink replays, and the sink that a call of sendToUser holds, are the
\* right user's.
HeldIsOwn ==
    /\ \A c \in Conns : latest[c] \in MessagesFor(User[c]) \cup {None}
    /\ \A n \in Notifications : held[n] # None => User[held[n]] = Target[n]

\* The inductive invariant, about the sinks and about what they carry.
SinkInv ==
    /\ TypeOK
    /\ NotMadeYet
    /\ HeldWasMade
    /\ RegisteredSinkIsOpen
    /\ ClosingIsUnregistered
    /\ EndHasCause
    /\ HeldIsOwn

IInv == SinkInv /\ OwnNotificationsOnly

-----------------------------------------------------------------------------
\* The initial states satisfy it: no sink exists and every thread is idle.
LEMMA InitIInv == Init => IInv
BY SseAssumption
   DEF Init, IInv, SinkInv, TypeOK, Threads, Messages, ConnPC, SendPC, BeatPC, UsingPC,
       NotMadeYet, HeldWasMade, RegisteredSinkIsOpen, ClosingIsUnregistered, ClosingPC,
       EndHasCause, HeldIsOwn, OwnNotificationsOnly

\* A stream starts with the replayed value, if there is one.
LEMMA ReplayIsSequence ==
    ASSUME NEW S, NEW m \in S \cup {None}
    PROVE (IF m = None THEN <<>> ELSE <<m>>) \in Seq(S)
OBVIOUS

\* Every step keeps what it says about the sinks.  A sink comes into being with
\* addEmitter, reaches other threads only through the map, is taken out of the
\* map before it is completed; a stream is over when its browser or its sink is.
LEMMA SinkInvStep ==
    ASSUME SinkInv, Next
    PROVE SinkInv'
<1> USE SseAssumption
    DEF SinkInv, TypeOK, Threads, Messages, MessagesFor, ConnPC, SendPC, BeatPC, UsingPC,
        ClosingPC, NotMadeYet, HeldWasMade, RegisteredSinkIsOpen,
        ClosingIsUnregistered, EndHasCause, HeldIsOwn,
        Goto, sinkVars, streamVars, beatVars
<1>1. ASSUME NEW c \in Conns, RefuseStream(c)
      PROVE SinkInv'
  BY <1>1 DEF RefuseStream
<1>2. ASSUME NEW c \in Conns, CloseOld(c)
      PROVE SinkInv'
  BY <1>2 DEF CloseOld, RemoveEmitter
<1>3. ASSUME NEW c \in Conns, Disconnect(c)
      PROVE SinkInv'
  BY <1>3 DEF Disconnect
<1>4. ASSUME NEW c \in Conns, CompleteOld(c)
      PROVE SinkInv'
  <2>1. TypeOK'
    BY <1>4 DEF CompleteOld, TryEmitComplete
  <2>2. NotMadeYet' /\ HeldWasMade'
    BY <1>4 DEF CompleteOld, TryEmitComplete
  <2>3. RegisteredSinkIsOpen' /\ ClosingIsUnregistered'
    BY <1>4 DEF CompleteOld, TryEmitComplete
  <2>4. EndHasCause' /\ HeldIsOwn'
    BY <1>4 DEF CompleteOld, TryEmitComplete
  <2>5. QED
    BY <2>1, <2>2, <2>3, <2>4
<1>5. ASSUME NEW c \in Conns, AddEmitter(c)
      PROVE SinkInv'
  BY <1>5 DEF AddEmitter
<1>6. ASSUME NEW c \in Conns, GreetLookup(c)
      PROVE SinkInv'
  BY <1>6 DEF GreetLookup
<1>7. ASSUME NEW c \in Conns, GreetAccepted(c)
      PROVE SinkInv'
  BY <1>7 DEF GreetAccepted, EmitAccepted, CanEmit, Enqueue, Joined
<1>8. ASSUME NEW c \in Conns, GreetReturns(c)
      PROVE SinkInv'
  BY <1>8 DEF GreetReturns, EmitReturns
<1>9. ASSUME NEW c \in Conns, GreetRefused(c)
      PROVE SinkInv'
  BY <1>9 DEF GreetRefused, EmitRefused, CanEmit
<1>10. ASSUME NEW c \in Conns, Subscribe(c)
      PROVE SinkInv'
  <2>1. TypeOK'
    <3>1. queue' \in [Conns -> Seq(Messages)]
      <4>1. (IF latest[c] = None THEN <<>> ELSE <<latest[c]>>) \in Seq(Messages)
        BY ReplayIsSequence
      <4>2. QED
        BY <1>10, <4>1 DEF Subscribe
    <3>2. QED
      BY <1>10, <3>1 DEF Subscribe
  <2>2. NotMadeYet' /\ HeldWasMade' /\ RegisteredSinkIsOpen' /\ ClosingIsUnregistered'
    BY <1>10 DEF Subscribe
  <2>3. EndHasCause' /\ HeldIsOwn'
    BY <1>10 DEF Subscribe
  <2>4. QED
    BY <2>1, <2>2, <2>3
<1>11. ASSUME NEW c \in Conns, Write(c)
      PROVE SinkInv'
  BY <1>11 DEF Write, Log
<1>12. ASSUME NEW c \in Conns, WriteFails(c)
      PROVE SinkInv'
  BY <1>12 DEF WriteFails
<1>13. ASSUME NEW c \in Conns, CancelRemove(c)
      PROVE SinkInv'
  BY <1>13 DEF CancelRemove, RemoveEmitter
<1>14. ASSUME NEW c \in Conns, CancelComplete(c)
      PROVE SinkInv'
  <2>1. TypeOK'
    BY <1>14 DEF CancelComplete, TryEmitComplete
  <2>2. NotMadeYet' /\ HeldWasMade'
    BY <1>14 DEF CancelComplete, TryEmitComplete
  <2>3. RegisteredSinkIsOpen' /\ ClosingIsUnregistered'
    BY <1>14 DEF CancelComplete, TryEmitComplete
  <2>4. EndHasCause' /\ HeldIsOwn'
    BY <1>14 DEF CancelComplete, TryEmitComplete
  <2>5. QED
    BY <2>1, <2>2, <2>3, <2>4
<1>15. ASSUME NEW c \in Conns, EndStream(c)
      PROVE SinkInv'
  <2>1. TypeOK' /\ NotMadeYet' /\ HeldWasMade'
    BY <1>15 DEF EndStream
  <2>2. RegisteredSinkIsOpen' /\ ClosingIsUnregistered'
    BY <1>15 DEF EndStream
  <2>3. EndHasCause' /\ HeldIsOwn'
    BY <1>15 DEF EndStream
  <2>4. QED
    BY <2>1, <2>2, <2>3
<1>16. ASSUME NEW n \in Notifications, SendLookup(n)
      PROVE SinkInv'
  BY <1>16 DEF SendLookup
<1>17. ASSUME NEW n \in Notifications, SendAccepted(n)
      PROVE SinkInv'
  BY <1>17 DEF SendAccepted, EmitAccepted, CanEmit, Enqueue, Joined
<1>18. ASSUME NEW n \in Notifications, SendReturns(n)
      PROVE SinkInv'
  BY <1>18 DEF SendReturns, EmitReturns
<1>19. ASSUME NEW n \in Notifications, SendRefused(n)
      PROVE SinkInv'
  BY <1>19 DEF SendRefused, EmitRefused, CanEmit
<1>20. CASE BeginRound
  BY <1>20 DEF BeginRound
<1>21. ASSUME NEW u \in Users, Visit(u)
      PROVE SinkInv'
  BY <1>21 DEF Visit
<1>22. CASE BeatAccepted
  BY <1>22 DEF BeatAccepted, EmitAccepted, CanEmit, Enqueue, Joined
<1>23. CASE BeatReturns
  BY <1>23 DEF BeatReturns, EmitReturns
<1>24. CASE BeatRefused
  BY <1>24 DEF BeatRefused, EmitRefused, CanEmit
<1>25. CASE BeatRemove
  BY <1>25 DEF BeatRemove, RemoveEmitter
<1>26. CASE BeatComplete
  BY <1>26 DEF BeatComplete, TryEmitComplete
<1> HIDE DEF SinkInv, TypeOK, NotMadeYet, HeldWasMade, RegisteredSinkIsOpen,
        ClosingIsUnregistered, EndHasCause, HeldIsOwn
<1>27. QED
  BY <1>1, <1>2, <1>3, <1>4, <1>5, <1>6, <1>7, <1>8, <1>9, <1>10, <1>11, <1>12, <1>13,
     <1>14, <1>15, <1>16, <1>17, <1>18, <1>19, <1>20, <1>21, <1>22, <1>23, <1>24, <1>25, <1>26
     DEF Next, StreamStep, SendStep, BeatStep

\* Appending a message for u to what is addressed to u: what a sink does with an
\* accepted value, and what a browser's history does with a written one.
LEMMA SequencesForUser ==
    ASSUME NEW u \in Users, NEW q \in Seq(MessagesFor(u)), NEW m \in MessagesFor(u)
    PROVE /\ Enqueue(q, m) \in Seq(MessagesFor(u))
          /\ Log(q, m) \in Seq(MessagesFor(u))
          /\ <<m>> \in Seq(MessagesFor(u))
BY DEF Enqueue, Log

\* Emitting a value for the user of the sink keeps streams to their user.
LEMMA EmitKeepsOwn ==
    ASSUME TypeOK, OwnNotificationsOnly, NEW t \in Threads, NEW m, NEW from, NEW to,
           EmitAccepted(t, m, from, to), held[t] \in Conns, m \in MessagesFor(User[held[t]])
    PROVE OwnNotificationsOnly'
<1> DEFINE s == held[t]
<1>1. User[s] \in Users
  BY SseAssumption
<1>2. Enqueue(queue[s], m) \in Seq(MessagesFor(User[s]))
  BY <1>1, SequencesForUser DEF OwnNotificationsOnly
<1>3. /\ received' = received
      /\ queue' = [queue EXCEPT ![s] = IF pc[s] = "live" THEN Enqueue(queue[s], m)
                                                         ELSE queue[s]]
  BY DEF EmitAccepted
<1>4. QED
  BY <1>2, <1>3 DEF TypeOK, OwnNotificationsOnly

\* Every step keeps streams to their user: values come from a greeting, from a
\* heartbeat, or from a notification whose thread looked its sink up by user.
LEMMA OwnStep ==
    ASSUME IInv, Next
    PROVE OwnNotificationsOnly'
<1> USE SseAssumption DEF IInv, SinkInv
<1>1. \A u \in Users : Greeting \in MessagesFor(u) /\ Ping \in MessagesFor(u)
  BY DEF MessagesFor
<1>2. \A n \in Notifications : n \in MessagesFor(Target[n])
  BY DEF MessagesFor
<1>3. CASE UNCHANGED <<queue, received>>
  BY <1>3 DEF OwnNotificationsOnly
<1>4. ASSUME NEW c \in Conns, GreetAccepted(c)
      PROVE OwnNotificationsOnly'
  <2>1. held[c] \in Conns
    BY <1>4 DEF TypeOK, GreetAccepted, EmitAccepted, Goto, UsingPC, Threads
  <2>2. QED
    BY <1>1, <1>4, <2>1, EmitKeepsOwn DEF GreetAccepted, Threads
<1>5. ASSUME NEW n \in Notifications, SendAccepted(n)
      PROVE OwnNotificationsOnly'
  <2>1. held[n] \in Conns
    BY <1>5 DEF TypeOK, SendAccepted, EmitAccepted, Goto, UsingPC, Threads
  <2>2. User[held[n]] = Target[n]
    BY <2>1 DEF HeldIsOwn
  <2>3. QED
    BY <1>2, <1>5, <2>1, <2>2, EmitKeepsOwn DEF SendAccepted, Threads
<1>6. ASSUME BeatAccepted
      PROVE OwnNotificationsOnly'
  <2>1. held[Heartbeat] \in Conns
    BY <1>6 DEF TypeOK, BeatAccepted, EmitAccepted, Goto, UsingPC, Threads
  <2>2. QED
    BY <1>1, <1>6, <2>1, EmitKeepsOwn DEF BeatAccepted, Threads
<1>7. ASSUME NEW c \in Conns, Subscribe(c)
      PROVE OwnNotificationsOnly'
  <2>1. latest[c] \in MessagesFor(User[c]) \cup {None}
    BY DEF HeldIsOwn
  <2>2. (IF latest[c] = None THEN <<>> ELSE <<latest[c]>>) \in Seq(MessagesFor(User[c]))
    BY <2>1, ReplayIsSequence
  <2>3. QED
    BY <1>7, <2>2 DEF Subscribe, OwnNotificationsOnly, TypeOK
<1>8. ASSUME NEW c \in Conns, Write(c)
      PROVE OwnNotificationsOnly'
  <2> DEFINE S == MessagesFor(User[c])
  <2>1. queue[c] \in Seq(S) /\ received[c] \in Seq(S) /\ queue[c] # <<>>
    BY <1>8 DEF Write, OwnNotificationsOnly
  <2>2. Head(queue[c]) \in S /\ Tail(queue[c]) \in Seq(S)
    BY <2>1
  <2>3. Log(received[c], Head(queue[c])) \in Seq(S)
    BY <2>1, <2>2, SequencesForUser
  <2>4. QED
    BY <1>8, <2>1, <2>2, <2>3 DEF Write, OwnNotificationsOnly, TypeOK
<1>9. ASSUME NEW c \in Conns, WriteFails(c)
      PROVE OwnNotificationsOnly'
  BY <1>9 DEF WriteFails, OwnNotificationsOnly, TypeOK
<1>10. QED
  BY <1>3, <1>4, <1>5, <1>6, <1>7, <1>8, <1>9
     DEF Next, StreamStep, SendStep, BeatStep, streamVars,
         RefuseStream, CloseOld, Disconnect, CompleteOld, AddEmitter, GreetLookup,
         GreetReturns, GreetRefused, CancelRemove, CancelComplete, EndStream,
         SendLookup, SendReturns, SendRefused, BeginRound, Visit, BeatReturns,
         BeatRefused, BeatRemove, BeatComplete,
         RemoveEmitter, TryEmitComplete, EmitReturns, EmitRefused

\* The invariant, for any number of users, connections and calls.
LEMMA Inductive == Spec => []IInv
<1>1. IInv /\ [Next]_vars => IInv'
  <2>1. IInv /\ Next => IInv'
    BY SinkInvStep, OwnStep DEF IInv
  <2>2. IInv /\ UNCHANGED vars => IInv'
    BY DEF vars, IInv, SinkInv, TypeOK, NotMadeYet, HeldWasMade, RegisteredSinkIsOpen,
           ClosingIsUnregistered, EndHasCause, HeldIsOwn, OwnNotificationsOnly
  <2>3. QED
    BY <2>1, <2>2
<1>2. QED
  BY InitIInv, <1>1, PTL DEF Spec

-----------------------------------------------------------------------------
\* The types hold and no thread ever uses a sink it did not find.
THEOREM TypeCorrect == Spec => []TypeOK
<1>1. IInv => TypeOK
  BY DEF IInv, SinkInv
<1>2. QED
  BY Inductive, <1>1, PTL

\* sendToUser finds only sinks of its user that still take events.
THEOREM RegisteredIsOpen == Spec => []RegisteredSinkIsOpen
<1>1. IInv => RegisteredSinkIsOpen
  BY DEF IInv, SinkInv
<1>2. QED
  BY Inductive, <1>1, PTL

\* No user's stream ever carries a notification of another user.
THEOREM StreamsAreIsolated == Spec => []OwnNotificationsOnly
<1>1. IInv => OwnNotificationsOnly
  BY DEF IInv
<1>2. QED
  BY Inductive, <1>1, PTL

\* A sink that left the map, by removeEmitter or under another put, stays out.
THEOREM NoReturn == Spec => NoReturnToMap
<1> DEFINE Stays == \A c \in Conns :
                      phase[c] # "absent" /\ ~Registered(c) => ~Registered(c)'
<1>1. IInv /\ [Next]_vars => [Stays]_vars
  <2> SUFFICES ASSUME IInv, Next
               PROVE Stays
    OBVIOUS
  <2> USE SseAssumption DEF IInv, SinkInv, Registered
  <2>1. ASSUME NEW c \in Conns, AddEmitter(c)
        PROVE Stays
    BY <2>1 DEF AddEmitter, Goto, NotMadeYet, TypeOK
  <2>2. ASSUME NEW t, NEW u \in Users, NEW from, NEW found, NEW notFound,
               RemoveEmitter(t, u, from, found, notFound)
        PROVE Stays
    BY <2>2 DEF RemoveEmitter, TypeOK
  <2>3. CASE UNCHANGED userSinks
    BY <2>3
  <2>4. BeatRemove => beatUser \in Users
    BY DEF BeatRemove, RemoveEmitter, Goto, TypeOK
  <2>5. QED
    BY <2>1, <2>2, <2>3, <2>4
       DEF Next, StreamStep, SendStep, BeatStep,
           RefuseStream, CloseOld, Disconnect, CompleteOld, GreetLookup,
           GreetAccepted, GreetReturns, GreetRefused, Subscribe, Write, WriteFails,
           CancelRemove, CancelComplete, EndStream,
           SendLookup, SendAccepted, SendReturns, SendRefused, BeginRound, Visit,
           BeatAccepted, BeatReturns, BeatRefused, BeatRemove, BeatComplete,
           TryEmitComplete, EmitAccepted, EmitReturns, EmitRefused
<1>2. QED
  BY Inductive, <1>1, PTL DEF NoReturnToMap, Spec

-----------------------------------------------------------------------------
(* Where a notification is.                                                 *)

\* The places of a notification: what a sink keeps to replay is one as well.
Places(n) ==
    {<<c, "latest", 0>> : c \in {d \in Conns : latest[d] = n}} \cup Occurrences(n)

\* It is nowhere before its thread has emitted it, and in one place at most
\* afterwards: it moves from the replayed value to the queue to the browser.
InOnePlace ==
    \A n \in Notifications :
        /\ \A x, y \in Places(n) : x = y
        /\ Places(n) # {} => Emitted(n)

\* A stream has a queue once it has taken the replayed value, and from then on
\* there is nothing to replay.
ReplayedOnce ==
    \A c \in Conns : IF Joined(c) THEN latest[c] = None ELSE queue[c] = <<>>

PlaceInv == InOnePlace /\ ReplayedOnce

\* The places of n, one kind after the other.
LEMMA PlacesOf ==
    ASSUME NEW n \in Notifications, NEW x
    PROVE x \in Places(n) <=>
            \E c \in Conns :
                \/ latest[c] = n /\ x = <<c, "latest", 0>>
                \/ \E i \in DOMAIN received[c] : received[c][i] = n /\ x = <<c, "received", i>>
                \/ \E i \in DOMAIN queue[c] : queue[c][i] = n /\ x = <<c, "queue", i>>
BY DEF Places, Occurrences

\* A sink that accepts m takes every other notification nowhere, and puts m, if
\* that is a notification and was nowhere yet, in one place at most.
LEMMA EmitPlaces ==
    ASSUME TypeOK, ReplayedOnce, NEW t \in Threads, NEW m \in Messages, NEW from, NEW to,
           EmitAccepted(t, m, from, to), held[t] \in Conns
    PROVE /\ \A n \in Notifications \ {m} : Places(n)' \subseteq Places(n)
          /\ m \in Notifications /\ Places(m) = {} => \A x, y \in Places(m)' : x = y
<1> DEFINE s == held[t]
<1>0. /\ None \notin Notifications
      /\ Ping \notin Notifications
  BY SseAssumption
<1>1. /\ received' = received
      /\ \A c \in Conns : c # s => latest'[c] = latest[c] /\ queue'[c] = queue[c]
      /\ latest'[s] = IF Joined(s) THEN None ELSE m
      /\ queue'[s] = IF pc[s] = "live" THEN Enqueue(queue[s], m) ELSE queue[s]
  BY DEF EmitAccepted, TypeOK
<1>2. /\ queue[s] \in Seq(Messages)
      /\ pc[s] = "live" => Joined(s)
      /\ ~Joined(s) => queue[s] = <<>>
  BY DEF TypeOK, Joined, ReplayedOnce
<1>3. \A i \in DOMAIN queue'[s] :
        \/ i \in DOMAIN queue[s] /\ queue'[s][i] = queue[s][i]
        \/ i = Len(queue[s]) + 1 /\ pc[s] = "live" /\ queue'[s][i] = m
  BY <1>1, <1>2 DEF Enqueue
<1>4. ASSUME NEW n \in Notifications \ {m}
      PROVE Places(n)' \subseteq Places(n)
  <2>1. ASSUME NEW x \in Places(n)'
        PROVE x \in Places(n)
    BY <1>0, <1>1, <1>3, PlacesOf, <2>1 DEF Places, Occurrences
  <2>2. QED
    BY <2>1
<1>5. ASSUME m \in Notifications, Places(m) = {}, NEW x \in Places(m)', NEW y \in Places(m)'
      PROVE x = y
  <2>1. /\ \A c \in Conns : latest[c] # m
        /\ \A c \in Conns : \A i \in DOMAIN received[c] : received[c][i] # m
        /\ \A c \in Conns : \A i \in DOMAIN queue[c] : queue[c][i] # m
    <3>1. ASSUME NEW c \in Conns
          PROVE /\ <<c, "latest", 0>> \notin Places(m)
                /\ \A i : <<c, "received", i>> \notin Places(m) /\ <<c, "queue", i>> \notin Places(m)
      BY <1>5
    <3>2. QED
      BY <3>1, <1>5 DEF Places, Occurrences
  <2>2. CASE Joined(s)
    <3>1. ASSUME NEW z \in Places(m)'
          PROVE z = <<s, "queue", Len(queue[s]) + 1>>
      BY <1>0, <1>1, <1>3, <2>1, <2>2, <1>5, <3>1 DEF Places, Occurrences
    <3>2. QED
      BY <1>5, <3>1
  <2>3. CASE ~Joined(s)
    <3>1. ASSUME NEW z \in Places(m)'
          PROVE z = <<s, "latest", 0>>
      BY <1>0, <1>1, <1>2, <1>3, <2>1, <2>3, <1>5, <3>1 DEF Places, Occurrences
    <3>2. QED
      BY <1>5, <3>1
  <2>4. QED
    BY <2>2, <2>3
<1>6. QED
  BY <1>4, <1>5

\* So it keeps every notification where it may be, if m is not one or its own
\* thread is just emitting it.
LEMMA EmitKeepsPlace ==
    ASSUME TypeOK, PlaceInv, NEW t \in Threads, NEW m \in Messages, NEW from, NEW to,
           EmitAccepted(t, m, from, to), held[t] \in Conns,
           m \in Notifications => Places(m) = {} /\ Emitted(m)',
           \A n \in Notifications : Emitted(n) => Emitted(n)'
    PROVE InOnePlace'
<1> USE DEF PlaceInv, InOnePlace
<1>1. ASSUME NEW n \in Notifications \ {m}
      PROVE /\ \A x, y \in Places(n)' : x = y
            /\ Places(n)' # {} => Emitted(n)'
  <2>1. Places(n)' \subseteq Places(n)
    BY EmitPlaces
  <2>2. QED
    BY <2>1
<1>2. ASSUME m \in Notifications
      PROVE /\ \A x, y \in Places(m)' : x = y
            /\ Places(m)' # {} => Emitted(m)'
  BY <1>2, EmitPlaces
<1>3. QED
  BY <1>1, <1>2

\* Where a notification goes when the stream takes the replayed value ...
LEMMA SubscribePlaces ==
    ASSUME TypeOK, ReplayedOnce, NEW c \in Conns, Subscribe(c), NEW n \in Notifications,
           NEW y \in Places(n)'
    PROVE \E x \in Places(n) :
            y = IF x = <<c, "latest", 0>> THEN <<c, "queue", 1>> ELSE x
<1> USE SseAssumption
<1>1. /\ received' = received
      /\ \A d \in Conns : d # c => latest'[d] = latest[d] /\ queue'[d] = queue[d]
      /\ latest'[c] = None
      /\ queue'[c] = IF latest[c] = None THEN <<>> ELSE <<latest[c]>>
  BY DEF Subscribe, TypeOK
<1>2. CASE y = <<c, "queue", 1>> /\ latest[c] = n
  <2>1. <<c, "latest", 0>> \in Places(n)
    BY <1>2 DEF Places
  <2>2. QED
    BY <1>2, <2>1
<1>3. CASE ~(y = <<c, "queue", 1>> /\ latest[c] = n)
  <2>1. y \in Places(n) /\ y # <<c, "latest", 0>>
    BY <1>1, <1>3 DEF Places, Occurrences
  <2>2. QED
    BY <2>1
<1>4. QED
  BY <1>2, <1>3

\* ... and when an event is written: the queue moves up, its head goes to the
\* browser or is lost.
LEMMA WritePlaces ==
    ASSUME TypeOK, NEW c \in Conns, Write(c), NEW n \in Notifications,
           NEW y \in Places(n)'
    PROVE \E x \in Places(n) :
            y = IF x = <<c, "queue", 1>> THEN <<c, "received", Len(received[c]) + 1>>
                ELSE IF x[1] = c /\ x[2] = "queue" THEN <<c, "queue", x[3] - 1>> ELSE x
<1>1. /\ queue[c] \in Seq(Messages) /\ queue[c] # <<>>
      /\ received[c] \in Seq(Notifications)
      /\ latest' = latest
      /\ \A d \in Conns : d # c => received'[d] = received[d] /\ queue'[d] = queue[d]
      /\ queue'[c] = Tail(queue[c])
      /\ \/ received'[c] = received[c]
         \/ received'[c] = Append(received[c], queue[c][1])
  BY DEF Write, TypeOK, Log, sinkVars
<1>2. ASSUME NEW d \in Conns, latest'[d] = n, y = <<d, "latest", 0>>
      PROVE y \in Places(n) /\ y[2] # "queue"
  BY <1>1, <1>2 DEF Places
<1>3. ASSUME NEW d \in Conns \ {c}, NEW i \in DOMAIN queue'[d], queue'[d][i] = n,
             y = <<d, "queue", i>>
      PROVE y \in Places(n) /\ y[1] # c
  BY <1>1, <1>3 DEF Places, Occurrences
<1>4. ASSUME NEW i \in DOMAIN queue'[c], queue'[c][i] = n, y = <<c, "queue", i>>
      PROVE <<c, "queue", i + 1>> \in Places(n) /\ i \in Nat \ {0}
  <2>1. i + 1 \in DOMAIN queue[c] /\ queue[c][i + 1] = n /\ i \in Nat \ {0}
    BY <1>1, <1>4
  <2>2. QED
    BY <2>1, PlacesOf
<1>5. ASSUME NEW d \in Conns, NEW i \in DOMAIN received'[d], received'[d][i] = n,
             y = <<d, "received", i>>
      PROVE \/ y \in Places(n) /\ y[2] # "queue"
            \/ <<c, "queue", 1>> \in Places(n) /\ y = <<c, "received", Len(received[c]) + 1>>
  <2>1. CASE i \in DOMAIN received[d] /\ received[d][i] = n
    BY <1>5, <2>1, PlacesOf
  <2>2. CASE ~(i \in DOMAIN received[d] /\ received[d][i] = n)
    <3>1. d = c /\ i = Len(received[c]) + 1 /\ queue[c][1] = n /\ 1 \in DOMAIN queue[c]
      BY <1>1, <1>5, <2>2
    <3>2. QED
      BY <1>5, <3>1, PlacesOf
  <2>3. QED
    BY <2>1, <2>2
<1>6. \/ \E d \in Conns : latest'[d] = n /\ y = <<d, "latest", 0>>
      \/ \E d \in Conns \ {c} : \E i \in DOMAIN queue'[d] :
            queue'[d][i] = n /\ y = <<d, "queue", i>>
      \/ \E i \in DOMAIN queue'[c] : queue'[c][i] = n /\ y = <<c, "queue", i>>
      \/ \E d \in Conns : \E i \in DOMAIN received'[d] :
            received'[d][i] = n /\ y = <<d, "received", i>>
  BY DEF Places, Occurrences
<1>7. QED
  <2> DEFINE Moved(x) ==
        IF x = <<c, "queue", 1>> THEN <<c, "received", Len(received[c]) + 1>>
        ELSE IF x[1] = c /\ x[2] = "queue" THEN <<c, "queue", x[3] - 1>> ELSE x
  <2>1. CASE y \in Places(n) /\ (y[2] # "queue" \/ y[1] # c)
    <3>1. y = Moved(y)
      BY <2>1
    <3>2. QED
      BY <2>1, <3>1
  <2>2. ASSUME NEW i \in Nat \ {0}, <<c, "queue", i + 1>> \in Places(n), y = <<c, "queue", i>>
        PROVE \E x \in Places(n) : y = Moved(x)
    <3>1. y = Moved(<<c, "queue", i + 1>>)
      BY <2>2
    <3>2. QED
      BY <2>2, <3>1
  <2>3. CASE /\ <<c, "queue", 1>> \in Places(n)
             /\ y = <<c, "received", Len(received[c]) + 1>>
    BY <2>3
  <2>4. QED
    BY <1>2, <1>3, <1>4, <1>5, <1>6, <2>1, <2>2, <2>3

\* Before it is subscribed to, a sink has a value to replay and no queue; then it
\* is the other way round.
LEMMA ReplayedOnceStep ==
    ASSUME SinkInv, ReplayedOnce, Next
    PROVE ReplayedOnce'
<1> USE SseAssumption
<1>0. TypeOK
  BY DEF SinkInv
<1>1. ASSUME NEW t \in Threads, NEW m, NEW from, NEW to, EmitAccepted(t, m, from, to),
             held[t] \in Conns, \A c \in Conns : Joined(c)' <=> Joined(c)
      PROVE ReplayedOnce'
  BY <1>0, <1>1 DEF EmitAccepted, TypeOK, ReplayedOnce, Joined
<1>2. CASE UNCHANGED <<latest, queue>> /\ \A c \in Conns : Joined(c)' <=> Joined(c)
  BY <1>2 DEF ReplayedOnce
<1> USE <1>0 DEF Joined, Goto, TypeOK, Threads
<1>3. ASSUME NEW c \in Conns, Subscribe(c)
      PROVE ReplayedOnce'
  BY <1>3 DEF Subscribe, ReplayedOnce
<1>4. ASSUME NEW c \in Conns, Write(c) \/ WriteFails(c)
      PROVE ReplayedOnce'
  BY <1>4 DEF Write, WriteFails, ReplayedOnce, sinkVars
<1>5. ASSUME NEW c \in Conns, GreetAccepted(c)
      PROVE ReplayedOnce'
  BY <1>1, <1>5 DEF GreetAccepted, EmitAccepted, UsingPC
<1>6. ASSUME NEW n \in Notifications, SendAccepted(n)
      PROVE ReplayedOnce'
  BY <1>1, <1>6 DEF SendAccepted, EmitAccepted, UsingPC
<1>7. CASE BeatAccepted
  BY <1>1, <1>7 DEF BeatAccepted, EmitAccepted, UsingPC
<1>8. ASSUME NEW c \in Conns,
             \/ RefuseStream(c) \/ CloseOld(c) \/ Disconnect(c) \/ CompleteOld(c)
             \/ AddEmitter(c) \/ GreetLookup(c) \/ GreetReturns(c) \/ GreetRefused(c)
             \/ CancelRemove(c) \/ CancelComplete(c) \/ EndStream(c)
      PROVE UNCHANGED <<latest, queue>> /\ \A d \in Conns : Joined(d)' <=> Joined(d)
  BY <1>8 DEF RefuseStream, CloseOld, Disconnect, CompleteOld, AddEmitter, GreetLookup,
         GreetReturns, GreetRefused, CancelRemove, CancelComplete, EndStream,
         RemoveEmitter, TryEmitComplete, EmitReturns, EmitRefused, sinkVars, streamVars
<1>9. ASSUME NEW n \in Notifications, SendLookup(n) \/ SendReturns(n) \/ SendRefused(n)
      PROVE UNCHANGED <<latest, queue>> /\ \A d \in Conns : Joined(d)' <=> Joined(d)
  BY <1>9 DEF SendLookup, SendReturns, SendRefused, EmitReturns, EmitRefused,
         sinkVars, streamVars
<1>10. ASSUME BeginRound \/ (\E u \in Users : Visit(u)) \/ BeatReturns \/ BeatRefused
              \/ BeatRemove \/ BeatComplete
       PROVE UNCHANGED <<latest, queue>> /\ \A d \in Conns : Joined(d)' <=> Joined(d)
  BY <1>10 DEF BeginRound, Visit, BeatReturns, BeatRefused, BeatRemove, BeatComplete,
         RemoveEmitter, TryEmitComplete, EmitReturns, EmitRefused, sinkVars, streamVars
<1> HIDE DEF Joined, Goto, TypeOK, Threads
<1>11. QED
  BY <1>2, <1>3, <1>4, <1>5, <1>6, <1>7, <1>8, <1>9, <1>10
     DEF Next, StreamStep, SendStep, BeatStep

\* A notification that was emitted stays emitted, and only its own call emits it.
LEMMA EmittedStep ==
    ASSUME TypeOK, Next, NEW n \in Notifications
    PROVE /\ Emitted(n) => Emitted(n)'
          /\ Emitted(n)' => Emitted(n) \/ SendAccepted(n)
<1> USE SseAssumption DEF TypeOK, Emitted, Goto, Threads
<1> DEFINE Goal == /\ Emitted(n) => Emitted(n)'
                   /\ Emitted(n)' => Emitted(n) \/ SendAccepted(n)
<1>1. ASSUME NEW k \in Notifications, SendAccepted(k)
      PROVE Goal
  BY <1>1 DEF SendAccepted, EmitAccepted
<1>2. ASSUME NEW k \in Notifications, SendLookup(k) \/ SendReturns(k) \/ SendRefused(k)
      PROVE Goal
  BY <1>2 DEF SendLookup, SendReturns, SendRefused, EmitReturns, EmitRefused
<1>3. ASSUME NEW c \in Conns,
             RefuseStream(c) \/ CloseOld(c) \/ Disconnect(c) \/ StreamStep(c) \/ WriteFails(c)
      PROVE Goal
  BY <1>3 DEF StreamStep, RefuseStream, CloseOld, Disconnect, CompleteOld, AddEmitter,
         GreetLookup, GreetAccepted, GreetReturns, GreetRefused, Subscribe, Write, WriteFails,
         CancelRemove, CancelComplete, EndStream,
         RemoveEmitter, TryEmitComplete, EmitAccepted, EmitReturns, EmitRefused
<1>4. CASE BeatStep
  BY <1>4 DEF BeatStep, BeginRound, Visit, BeatAccepted, BeatReturns, BeatRefused, BeatRemove,
         BeatComplete, RemoveEmitter, TryEmitComplete, EmitAccepted, EmitReturns, EmitRefused
<1> HIDE DEF TypeOK, Emitted, Goto, Threads
<1>5. QED
  BY <1>1, <1>2, <1>3, <1>4 DEF Next, SendStep

\* Every step keeps a notification in one place.
LEMMA OnePlaceStep ==
    ASSUME SinkInv, PlaceInv, Next
    PROVE InOnePlace'
<1> USE SseAssumption
<1>0. TypeOK /\ ReplayedOnce /\ InOnePlace
  BY DEF SinkInv, PlaceInv
<1>1. \A n \in Notifications : Emitted(n) => Emitted(n)'
  BY <1>0, EmittedStep
<1>2. CASE UNCHANGED <<latest, queue, received>>
  BY <1>0, <1>1, <1>2 DEF InOnePlace, Places, Occurrences
<1>3. ASSUME NEW c \in Conns, GreetAccepted(c)
      PROVE InOnePlace'
  <2>1. held[c] \in Conns
    BY <1>0, <1>3 DEF TypeOK, GreetAccepted, EmitAccepted, Goto, UsingPC, Threads
  <2>2. QED
    BY <1>0, <1>1, <1>3, <2>1, EmitKeepsPlace DEF GreetAccepted, Threads, Messages, PlaceInv
<1>4. ASSUME NEW n \in Notifications, SendAccepted(n)
      PROVE InOnePlace'
  <2>1. held[n] \in Conns /\ pc[n] = "sending"
    BY <1>0, <1>4 DEF TypeOK, SendAccepted, EmitAccepted, Goto, UsingPC, Threads
  <2>2. Emitted(n)'
    BY <1>0, <1>4 DEF TypeOK, SendAccepted, EmitAccepted, Goto, Emitted, Threads
  <2>3. Places(n) = {}
    BY <1>0, <2>1 DEF InOnePlace, Emitted
  <2>4. QED
    BY <1>0, <1>1, <1>4, <2>1, <2>2, <2>3, EmitKeepsPlace
       DEF SendAccepted, Threads, Messages, PlaceInv
<1>5. ASSUME BeatAccepted
      PROVE InOnePlace'
  <2>1. held[Heartbeat] \in Conns
    BY <1>0, <1>5 DEF TypeOK, BeatAccepted, EmitAccepted, Goto, UsingPC, Threads
  <2>2. QED
    BY <1>0, <1>1, <1>5, <2>1, EmitKeepsPlace DEF BeatAccepted, Threads, Messages, PlaceInv
<1>6. ASSUME NEW c \in Conns, Subscribe(c)
      PROVE InOnePlace'
  <2>1. ASSUME NEW n \in Notifications
        PROVE /\ \A x, y \in Places(n)' : x = y
              /\ Places(n)' # {} => Places(n) # {}
    <3>1. \A y \in Places(n)' : \E x \in Places(n) :
            y = IF x = <<c, "latest", 0>> THEN <<c, "queue", 1>> ELSE x
      BY <1>0, <1>6, SubscribePlaces
    <3>2. QED
      BY <1>0, <3>1 DEF InOnePlace
  <2>2. QED
    BY <1>0, <1>1, <2>1 DEF InOnePlace
<1>7. ASSUME NEW c \in Conns, Write(c)
      PROVE InOnePlace'
  <2>1. ASSUME NEW n \in Notifications
        PROVE /\ \A x, y \in Places(n)' : x = y
              /\ Places(n)' # {} => Places(n) # {}
    <3> DEFINE Moved(x) ==
          IF x = <<c, "queue", 1>> THEN <<c, "received", Len(received[c]) + 1>>
          ELSE IF x[1] = c /\ x[2] = "queue" THEN <<c, "queue", x[3] - 1>> ELSE x
    <3>1. \A y \in Places(n)' : \E x \in Places(n) : y = Moved(x)
      BY <1>0, <1>7, WritePlaces
    <3> HIDE DEF Moved
    <3>2. QED
      BY <1>0, <3>1 DEF InOnePlace
  <2>2. QED
    BY <1>0, <1>1, <2>1 DEF InOnePlace
<1>8. ASSUME NEW c \in Conns, WriteFails(c)
      PROVE InOnePlace'
  <2>1. ASSUME NEW n \in Notifications
        PROVE Places(n)' \subseteq Places(n)
    BY <1>0, <1>8 DEF WriteFails, TypeOK, Places, Occurrences, sinkVars
  <2>2. QED
    BY <1>0, <1>1, <2>1 DEF InOnePlace
<1>9. QED
  BY <1>2, <1>3, <1>4, <1>5, <1>6, <1>7, <1>8
     DEF Next, StreamStep, SendStep, BeatStep, streamVars, sinkVars,
         RefuseStream, CloseOld, Disconnect, CompleteOld, AddEmitter, GreetLookup,
         GreetReturns, GreetRefused, CancelRemove, CancelComplete, EndStream,
         SendLookup, SendReturns, SendRefused, BeginRound, Visit, BeatReturns,
         BeatRefused, BeatRemove, BeatComplete,
         RemoveEmitter, TryEmitComplete, EmitReturns, EmitRefused

\* No notification exists in two places, at any time.
LEMMA InductivePlaces == Spec => []PlaceInv
<1>1. Init => PlaceInv
  <2> USE SseAssumption DEF Init
  <2>1. Init => ReplayedOnce
    BY DEF ReplayedOnce, Joined, Threads
  <2>2. Init => \A n \in Notifications : Places(n) = {}
    BY DEF Places, Occurrences
  <2>3. QED
    BY <2>1, <2>2 DEF PlaceInv, InOnePlace
<1>2. SinkInv /\ PlaceInv /\ [Next]_vars => PlaceInv'
  <2>1. SinkInv /\ PlaceInv /\ Next => PlaceInv'
    BY OnePlaceStep, ReplayedOnceStep DEF PlaceInv
  <2>2. PlaceInv /\ UNCHANGED vars => PlaceInv'
    BY DEF vars, PlaceInv, InOnePlace, ReplayedOnce, Places, Occurrences, Joined, Emitted
  <2>3. QED
    BY <2>1, <2>2
<1>3. IInv => SinkInv
  BY DEF IInv
<1>4. QED
  BY <1>1, <1>2, <1>3, Inductive, PTL DEF Spec

\* A call of sendToUser puts its notification on one stream, once, whichever
\* streams of the user replace one another while it runs.
THEOREM NoDuplicates == Spec => []AtMostOnce
<1>1. PlaceInv => AtMostOnce
  <2> SUFFICES ASSUME PlaceInv, NEW n \in Notifications
               PROVE Cardinality(Occurrences(n)) <= 1
    BY DEF AtMostOnce
  <2>1. \A x, y \in Occurrences(n) : x = y
    BY DEF PlaceInv, InOnePlace, Places
  <2>2. CASE Occurrences(n) = {}
    BY <2>2, FS_EmptySet
  <2>3. CASE Occurrences(n) # {}
    <3>1. PICK x \in Occurrences(n) : TRUE
      BY <2>3
    <3>2. Occurrences(n) = {x}
      BY <2>1, <3>1
    <3>3. Cardinality({x}) = 1
      BY FS_Singleton
    <3>4. QED
      BY <3>2, <3>3
  <2>4. QED
    BY <2>2, <2>3
<1>2. QED
  BY InductivePlaces, <1>1, PTL

-----------------------------------------------------------------------------
(* The refinement of PushChannel.                                           *)

\* A sink that accepts m takes it to its own stream and leaves the others alone.
LEMMA EmitKeepsWaiting ==
    ASSUME TypeOK, NEW t \in Threads, NEW m \in Messages, NEW from, NEW to,
           EmitAccepted(t, m, from, to), NEW s \in Conns, held[t] = s
    PROVE /\ \A c \in Conns : Shown(c)' = Shown(c)
          /\ \A c \in Conns \ {s} : Waiting(c)' = Waiting(c)
          /\ Waiting(s)' \subseteq Waiting(s) \cup ({m} \cap Notifications)
<1>1. /\ received' = received
      /\ \A c \in Conns : c # s => latest'[c] = latest[c] /\ queue'[c] = queue[c]
      /\ latest'[s] = IF Joined(s) THEN None ELSE m
      /\ queue'[s] = IF pc[s] = "live" THEN Enqueue(queue[s], m) ELSE queue[s]
  BY DEF EmitAccepted, TypeOK
<1>2. queue[s] \in Seq(Messages) /\ None \notin Notifications
  BY SseAssumption DEF TypeOK
<1>3. \A i \in DOMAIN queue'[s] :
        \/ i \in DOMAIN queue[s] /\ queue'[s][i] = queue[s][i]
        \/ queue'[s][i] = m
  BY <1>1, <1>2 DEF Enqueue
<1>4. ASSUME NEW n \in Notifications, n \in Waiting(s)'
      PROVE n \in Waiting(s) \cup ({m} \cap Notifications)
  <2>1. latest'[s] = n \/ \E i \in DOMAIN queue'[s] : queue'[s][i] = n
    BY <1>4 DEF Waiting
  <2>2. n = m \/ latest[s] = n \/ \E i \in DOMAIN queue[s] : queue[s][i] = n
    BY <1>1, <1>2, <1>3, <2>1
  <2>3. QED
    BY <2>2 DEF Waiting
<1>5. Waiting(s)' \subseteq Notifications
  BY DEF Waiting
<1>6. \A c \in Conns \ {s} : Waiting(c)' = Waiting(c)
  BY <1>1 DEF Waiting
<1>7. \A c \in Conns : Shown(c)' = Shown(c)
  BY <1>1 DEF Shown
<1>8. QED
  BY <1>4, <1>5, <1>6, <1>7

\* The state that PushChannel sees is unchanged if nothing moves.
LEMMA ChannelStutters ==
    ASSUME \A n \in Notifications : Emitted(n)' <=> Emitted(n),
           \A c \in Conns : Waiting(c)' = Waiting(c) /\ Shown(c)' = Shown(c)
    PROVE UNCHANGED Channel!vars
BY DEF Channel!vars

\* A stream that only loses some of what waits on it makes a Lose.
LEMMA ChannelLoses ==
    ASSUME NEW c \in Conns,
           \A n \in Notifications : Emitted(n)' <=> Emitted(n),
           \A d \in Conns : Shown(d)' = Shown(d),
           \A d \in Conns \ {c} : Waiting(d)' = Waiting(d),
           Waiting(c)' \subseteq Waiting(c)
    PROVE Channel!Next
<1>1. {n \in Notifications : Emitted(n)}' = {n \in Notifications : Emitted(n)}
  OBVIOUS
<1>2. [d \in Conns |-> Shown(d)]' = [d \in Conns |-> Shown(d)]
  OBVIOUS
<1>3. [d \in Conns |-> Waiting(d)]'
        = [[d \in Conns |-> Waiting(d)] EXCEPT ![c] = Waiting(c)']
  OBVIOUS
<1>4. Channel!Lose(c)
  BY <1>1, <1>2, <1>3 DEF Channel!Lose, Channel!Keep
<1>5. QED
  BY <1>4 DEF Channel!Next

\* Every step of the sinks is a step of the channel, or one it does not see.
LEMMA ChannelStep ==
    ASSUME IInv, PlaceInv, Next
    PROVE Channel!Next \/ UNCHANGED Channel!vars
<1> USE SseAssumption
<1>0. TypeOK /\ ReplayedOnce /\ InOnePlace
  BY DEF IInv, SinkInv, PlaceInv
<1>1. \A n \in Notifications : ~SendAccepted(n) => (Emitted(n)' <=> Emitted(n))
  BY <1>0, EmittedStep
<1>2. ASSUME NEW n \in Notifications, SendAccepted(n)
      PROVE Channel!Next
  <2>0. PICK s \in Conns : held[n] = s
    BY <1>0, <1>2 DEF TypeOK, SendAccepted, EmitAccepted, Goto, UsingPC, Threads
  <2>1. pc[n] = "sending" /\ pc' = [pc EXCEPT ![n] = "emitting"]
    BY <1>2 DEF SendAccepted, EmitAccepted, Goto
  <2>2. \A k \in Notifications : Emitted(k)' <=> Emitted(k) \/ k = n
    BY <1>0, <2>1 DEF Emitted, TypeOK, Threads
  <2>3. ~Emitted(n) /\ User[s] = Target[n]
    BY <2>0, <2>1 DEF Emitted, IInv, SinkInv, HeldIsOwn
  <2>4. /\ \A c \in Conns : Shown(c)' = Shown(c)
        /\ \A c \in Conns \ {s} : Waiting(c)' = Waiting(c)
        /\ Waiting(s)' \subseteq Waiting(s) \cup {n}
    BY <1>0, <1>2, <2>0, EmitKeepsWaiting DEF SendAccepted, Threads, Messages
  <2>5. {k \in Notifications : Emitted(k)}' = {k \in Notifications : Emitted(k)} \cup {n}
    BY <2>2
  <2>6. [d \in Conns |-> Shown(d)]' = [d \in Conns |-> Shown(d)]
    BY <2>4
  <2>7. [d \in Conns |-> Waiting(d)]'
          = [[d \in Conns |-> Waiting(d)] EXCEPT ![s] = Waiting(s)']
    BY <2>4
  <2>8. Channel!Take(n, s)
    BY <2>1, <2>3, <2>4, <2>5, <2>6, <2>7 DEF Channel!Take, Channel!Keep
  <2>9. QED
    BY <2>1, <2>8 DEF Channel!Next
<1>3. CASE \A n \in Notifications : ~SendAccepted(n)
  <2> DEFINE Goal == Channel!Next \/ UNCHANGED Channel!vars
  <2>0. \A n \in Notifications : Emitted(n)' <=> Emitted(n)
    BY <1>1, <1>3
  <2>1. CASE UNCHANGED <<latest, queue, received>>
    <3>1. \A c \in Conns : Waiting(c)' = Waiting(c) /\ Shown(c)' = Shown(c)
      BY <2>1 DEF Waiting, Shown
    <3>2. QED
      BY <2>0, <3>1, ChannelStutters
  <2>2. ASSUME NEW t \in Threads, NEW m \in {Greeting, Ping}, NEW from, NEW to,
               EmitAccepted(t, m, from, to), from \in UsingPC
        PROVE Goal
    <3>1. PICK s \in Conns : held[t] = s
      BY <1>0, <2>2 DEF TypeOK, EmitAccepted, Goto
    <3>2. m \in Messages /\ {m} \cap Notifications = {}
      BY DEF Messages
    <3>3. /\ \A c \in Conns : Shown(c)' = Shown(c)
          /\ \A c \in Conns \ {s} : Waiting(c)' = Waiting(c)
          /\ Waiting(s)' \subseteq Waiting(s)
      BY <1>0, <2>2, <3>1, <3>2, EmitKeepsWaiting
    <3>4. QED
      BY <2>0, <3>3, ChannelLoses
  <2>3. ASSUME NEW c \in Conns, Subscribe(c)
        PROVE Goal
    <3>1. /\ queue[c] = <<>> /\ None \notin Notifications
          /\ received' = received
          /\ \A d \in Conns \ {c} : latest'[d] = latest[d] /\ queue'[d] = queue[d]
          /\ latest'[c] = None
          /\ queue'[c] = IF latest[c] = None THEN <<>> ELSE <<latest[c]>>
      BY <1>0, <2>3 DEF Subscribe, TypeOK, Goto, ReplayedOnce, Joined
    <3>2. \A d \in Conns : Waiting(d)' = Waiting(d) /\ Shown(d)' = Shown(d)
      <4>1. Waiting(c)' = Waiting(c)
        BY <3>1 DEF Waiting
      <4>2. QED
        BY <3>1, <4>1 DEF Waiting, Shown
    <3>3. QED
      BY <2>0, <3>2, ChannelStutters
  <2>4. ASSUME NEW c \in Conns, Write(c)
        PROVE Goal
    <3>1. /\ queue[c] \in Seq(Messages) /\ queue[c] # <<>> /\ received[c] \in Seq(Notifications)
          /\ latest' = latest
          /\ \A d \in Conns \ {c} : received'[d] = received[d] /\ queue'[d] = queue[d]
          /\ queue'[c] = Tail(queue[c])
          /\ \/ received'[c] = received[c]
             \/ /\ received'[c] = Append(received[c], queue[c][1])
                /\ queue[c][1] \in Notifications
      BY <1>0, <2>4 DEF Write, TypeOK, Log, sinkVars
    <3>2. /\ \A d \in Conns \ {c} : Waiting(d)' = Waiting(d) /\ Shown(d)' = Shown(d)
          /\ Waiting(c)' \subseteq Waiting(c)
      BY <3>1 DEF Waiting, Shown
    <3>3. CASE received'[c] = received[c]
      <4>1. Shown(c)' = Shown(c)
        BY <3>3 DEF Shown
      <4>2. QED
        BY <2>0, <3>2, <4>1, ChannelLoses
    <3>4. CASE /\ received'[c] = Append(received[c], queue[c][1])
               /\ queue[c][1] \in Notifications
      <4>1. PICK n \in Notifications : queue[c][1] = n
        BY <3>4
      <4>2. Shown(c)' = Shown(c) \cup {n}
        <5>1. DOMAIN received'[c] = DOMAIN received[c] \cup {Len(received[c]) + 1}
          BY <3>1, <3>4
        <5>2. /\ \A i \in DOMAIN received[c] : received'[c][i] = received[c][i]
              /\ received'[c][Len(received[c]) + 1] = n
          BY <3>1, <3>4, <4>1
        <5>3. \A k \in Notifications : k \in Shown(c)' <=> k \in Shown(c) \/ k = n
          BY <5>1, <5>2 DEF Shown
        <5>4. QED
          BY <5>3 DEF Shown
      <4>3. <<c, "queue", 1>> \in Places(n) /\ n \in Waiting(c)
        <5>1. 1 \in DOMAIN queue[c]
          BY <3>1
        <5>2. QED
          BY <4>1, <5>1, PlacesOf DEF Waiting
      <4>4. /\ latest[c] # n
            /\ \A i \in DOMAIN queue[c] : queue[c][i] = n => i = 1
        <5>1. <<c, "latest", 0>> \notin Places(n)
          BY <1>0, <4>3 DEF InOnePlace
        <5>2. \A i : <<c, "queue", i>> \in Places(n) => i = 1
          BY <1>0, <4>3 DEF InOnePlace
        <5>3. QED
          BY <5>1, <5>2 DEF Places, Occurrences
      <4>5. \A k \in Notifications : k \in Waiting(c)' <=> k \in Waiting(c) /\ k # n
        <5>1. ASSUME NEW k \in Notifications
              PROVE (\E i \in DOMAIN queue'[c] : queue'[c][i] = k)
                      <=> \E i \in DOMAIN queue[c] : i # 1 /\ queue[c][i] = k
          <6>1. \A i \in DOMAIN queue'[c] :
                  i + 1 \in DOMAIN queue[c] /\ i + 1 # 1 /\ queue'[c][i] = queue[c][i + 1]
            BY <3>1
          <6>2. \A i \in DOMAIN queue[c] : i # 1 =>
                  i - 1 \in DOMAIN queue'[c] /\ queue'[c][i - 1] = queue[c][i]
            BY <3>1
          <6>3. QED
            BY <6>1, <6>2
        <5>2. QED
          BY <3>1, <4>1, <4>4, <5>1 DEF Waiting
      <4>6. Waiting(c)' = Waiting(c) \ {n}
        BY <4>5 DEF Waiting
      <4>7. {k \in Notifications : Emitted(k)}' = {k \in Notifications : Emitted(k)}
        BY <2>0
      <4>8. [d \in Conns |-> Shown(d)]'
              = [[d \in Conns |-> Shown(d)] EXCEPT ![c] = Shown(c) \cup {n}]
        BY <3>2, <4>2
      <4>9. [d \in Conns |-> Waiting(d)]'
              = [[d \in Conns |-> Waiting(d)] EXCEPT ![c] = Waiting(c) \ {n}]
        BY <3>2, <4>6
      <4>10. Channel!Show(n, c)
        BY <4>3, <4>7, <4>8, <4>9 DEF Channel!Show
      <4>11. QED
        BY <4>10 DEF Channel!Next
    <3>5. QED
      BY <3>1, <3>3, <3>4
  <2>5. ASSUME NEW c \in Conns, WriteFails(c)
        PROVE Goal
    <3>1. /\ \A d \in Conns : Shown(d)' = Shown(d)
          /\ \A d \in Conns \ {c} : Waiting(d)' = Waiting(d)
          /\ Waiting(c)' \subseteq Waiting(c)
      BY <1>0, <2>5 DEF WriteFails, TypeOK, sinkVars, Waiting, Shown
    <3>2. QED
      BY <2>0, <3>1, ChannelLoses
  <2>6. ASSUME NEW c \in Conns, GreetAccepted(c)
        PROVE Goal
    BY <2>2, <2>6 DEF GreetAccepted, UsingPC, Threads
  <2>7. ASSUME BeatAccepted
        PROVE Goal
    BY <2>2, <2>7 DEF BeatAccepted, UsingPC, Threads
  <2>8. QED
    BY <1>3, <2>1, <2>3, <2>4, <2>5, <2>6, <2>7
       DEF Next, StreamStep, SendStep, BeatStep, streamVars, sinkVars,
           RefuseStream, CloseOld, Disconnect, CompleteOld, AddEmitter, GreetLookup,
           GreetReturns, GreetRefused, CancelRemove, CancelComplete, EndStream,
           SendLookup, SendReturns, SendRefused, BeginRound, Visit, BeatReturns,
           BeatRefused, BeatRemove, BeatComplete,
           RemoveEmitter, TryEmitComplete, EmitReturns, EmitRefused
<1>4. QED
  BY <1>2, <1>3

\* Whoever calls sendToUser may think of PushChannel.
THEOREM EmitterManagerImplementsChannel == Spec => ImplementsChannel
<1>1. Init => Channel!Init
  BY SseAssumption DEF Init, Channel!Init, Emitted, Waiting, Shown, Threads
<1>2. IInv /\ PlaceInv /\ [Next]_vars => [Channel!Next]_(Channel!vars)
  <2>1. UNCHANGED vars => UNCHANGED Channel!vars
    BY DEF vars, Channel!vars, Emitted, Waiting, Shown
  <2>2. QED
    BY <2>1, ChannelStep
<1>3. QED
  BY <1>1, <1>2, Inductive, InductivePlaces, PTL DEF Spec, ImplementsChannel, Channel!Spec

-----------------------------------------------------------------------------
(* What becomes of an accepted notification.                                *)

\* A sink that accepts a value keeps what waits on it, but for the replayed value
\* of a stream that has not subscribed; and the new value waits on it, unless
\* the stream is over.
LEMMA EmitLoses ==
    ASSUME TypeOK, ReplayedOnce, NEW t \in Threads, NEW m \in Messages, NEW from, NEW to,
           EmitAccepted(t, m, from, to), NEW s \in Conns, held[t] = s
    PROVE /\ m \in Notifications /\ (Joined(s) => pc[s] = "live") => m \in Waiting(s)'
          /\ \A n \in Waiting(s) : n \in Waiting(s)' \/ (~Joined(s) /\ latest'[s] = m)
          /\ \A c \in Conns \ {s} : Waiting(c)' = Waiting(c)
<1>1. /\ \A c \in Conns : c # s => latest'[c] = latest[c] /\ queue'[c] = queue[c]
      /\ latest'[s] = IF Joined(s) THEN None ELSE m
      /\ queue'[s] = IF pc[s] = "live" THEN Enqueue(queue[s], m) ELSE queue[s]
  BY DEF EmitAccepted, TypeOK
<1>2. queue[s] \in Seq(Messages) /\ None \notin Notifications /\ Ping \notin Notifications
  BY SseAssumption DEF TypeOK
<1>3. \A i \in DOMAIN queue[s] : i \in DOMAIN queue'[s] /\ queue'[s][i] = queue[s][i]
  BY <1>1, <1>2 DEF Enqueue
<1>4. pc[s] = "live" /\ m # Ping => \E i \in DOMAIN queue'[s] : queue'[s][i] = m
  <2>1. SUFFICES ASSUME pc[s] = "live", m # Ping
                 PROVE \E i \in DOMAIN queue'[s] : queue'[s][i] = m
    OBVIOUS
  <2>2. queue'[s] = Append(queue[s], m)
    BY <1>1, <2>1 DEF Enqueue
  <2>3. Len(queue[s]) + 1 \in DOMAIN queue'[s] /\ queue'[s][Len(queue[s]) + 1] = m
    BY <1>2, <2>2
  <2>4. QED
    BY <2>3
<1>5. ASSUME m \in Notifications, Joined(s) => pc[s] = "live"
      PROVE m \in Waiting(s)'
  BY <1>1, <1>2, <1>4, <1>5 DEF Waiting
<1>6. ASSUME NEW n \in Waiting(s)
      PROVE n \in Waiting(s)' \/ (~Joined(s) /\ latest'[s] = m)
  <2>1. CASE Joined(s)
    <3>1. latest[s] = None
      BY <2>1 DEF ReplayedOnce
    <3>2. QED
      BY <1>2, <1>3, <1>6, <3>1 DEF Waiting
  <2>2. CASE ~Joined(s)
    BY <1>1, <2>2
  <2>3. QED
    BY <2>1, <2>2
<1>7. \A c \in Conns \ {s} : Waiting(c)' = Waiting(c)
  BY <1>1 DEF Waiting
<1>8. QED
  BY <1>5, <1>6, <1>7

\* An accepted value that is not on the stream: its browser is gone.
LEMMA AcceptedOrGone ==
    ASSUME SinkInv, NEW n \in Notifications, SendAccepted(n), NEW s \in Conns, held[n] = s
    PROVE (Joined(s) => pc[s] = "live") \/ client[s] = "gone"
<1>1. phase[s] = "open"
  BY DEF SendAccepted, EmitAccepted, CanEmit
<1>2. QED
  BY <1>1 DEF SinkInv, EndHasCause, Joined

\* What the browser is sent, and what waits after it, is what waited before.
LEMMA WriteLoses ==
    ASSUME TypeOK, NEW c \in Conns, Write(c), NEW n \in Waiting(c)
    PROVE n \in Waiting(c)' \/ n \in Shown(c)' \/ client[c] = "gone"
<1>1. /\ queue[c] \in Seq(Messages) /\ queue[c] # <<>> /\ received[c] \in Seq(Notifications)
      /\ latest' = latest
      /\ queue'[c] = Tail(queue[c])
      /\ client[c] \in {"open", "gone"}
      /\ client[c] = "open" => received'[c] = Log(received[c], queue[c][1])
  BY DEF Write, TypeOK, sinkVars
<1>2. n \in Notifications
  BY DEF Waiting
<1>3. CASE latest[c] = n
  BY <1>1, <1>2, <1>3 DEF Waiting
<1>4. ASSUME NEW i \in DOMAIN queue[c], queue[c][i] = n, i # 1
      PROVE n \in Waiting(c)'
  <2>1. i - 1 \in DOMAIN queue'[c] /\ queue'[c][i - 1] = n
    BY <1>1, <1>4
  <2>2. QED
    BY <1>2, <2>1 DEF Waiting
<1>5. ASSUME queue[c][1] = n, client[c] = "open"
      PROVE n \in Shown(c)'
  <2>1. received'[c] = Append(received[c], n)
    BY <1>1, <1>2, <1>5 DEF Log
  <2>2. Len(received[c]) + 1 \in DOMAIN received'[c] /\ received'[c][Len(received[c]) + 1] = n
    BY <1>1, <2>1
  <2>3. QED
    BY <1>2, <2>2 DEF Shown
<1>6. latest[c] = n \/ \E i \in DOMAIN queue[c] : queue[c][i] = n
  BY DEF Waiting
<1>7. QED
  BY <1>1, <1>3, <1>4, <1>5, <1>6

\* The step LossHasCause speaks of.
LossAllowed(n, c) ==
    /\ pc[n] = "sending" /\ pc[n]' = "emitting" /\ held[n] = c =>
        n \in Waiting(c)' \/ client[c] = "gone"
    /\ n \in Waiting(c) /\ n \notin Waiting(c)' =>
        \/ n \in Shown(c)'
        \/ client[c] = "gone"
        \/ ~Joined(c) /\ latest[c]' # None

\* Every step loses only what it may.
LEMMA LossStep ==
    ASSUME IInv, PlaceInv, Next, NEW n \in Notifications, NEW c \in Conns
    PROVE LossAllowed(n, c)
<1> USE SseAssumption
<1>0. TypeOK /\ ReplayedOnce /\ SinkInv
  BY DEF IInv, SinkInv, PlaceInv
<1>1. pc[n] = "sending" /\ pc[n]' = "emitting" => SendAccepted(n)
  BY <1>0, EmittedStep DEF Emitted
<1>2. ASSUME UNCHANGED <<latest, queue>>, ~SendAccepted(n)
      PROVE LossAllowed(n, c)
  <2>1. Waiting(c)' = Waiting(c)
    BY <1>2 DEF Waiting
  <2>2. QED
    BY <1>1, <1>2, <2>1 DEF LossAllowed
<1>3. ASSUME NEW t \in Threads, NEW m \in Messages, NEW from, NEW to,
             EmitAccepted(t, m, from, to), from \in UsingPC
      PROVE n \in Waiting(c) /\ n \notin Waiting(c)' => ~Joined(c) /\ latest[c]' # None
  <2>1. PICK s \in Conns : held[t] = s
    BY <1>0, <1>3 DEF TypeOK, EmitAccepted, Goto
  <2>2. m # None
    BY DEF Messages
  <2>3. QED
    BY <1>0, <1>3, <2>1, <2>2, EmitLoses
<1>4. ASSUME NEW k \in Notifications, SendAccepted(k)
      PROVE LossAllowed(n, c)
  <2>1. EmitAccepted(k, k, "sending", "emitting") /\ k \in Threads /\ k \in Messages
    BY <1>4 DEF SendAccepted, Threads, Messages
  <2>2. n \in Waiting(c) /\ n \notin Waiting(c)' => ~Joined(c) /\ latest[c]' # None
    BY <1>3, <2>1 DEF UsingPC
  <2>3. CASE k = n /\ held[n] = c
    <3>1. (Joined(c) => pc[c] = "live") \/ client[c] = "gone"
      BY <1>0, <1>4, <2>3, AcceptedOrGone
    <3>2. (Joined(c) => pc[c] = "live") => n \in Waiting(c)'
      BY <1>0, <2>1, <2>3, EmitLoses
    <3>3. QED
      BY <2>2, <3>1, <3>2 DEF LossAllowed
  <2>4. CASE k # n
    <3>1. pc[n]' = pc[n]
      BY <1>0, <2>1, <2>4 DEF EmitAccepted, Goto, TypeOK
    <3>2. QED
      BY <2>2, <3>1 DEF LossAllowed
  <2>5. CASE k = n /\ held[n] # c
    BY <2>2, <2>5 DEF LossAllowed
  <2>6. QED
    BY <2>3, <2>4, <2>5
<1>5. ASSUME (\E d \in Conns : GreetAccepted(d)) \/ BeatAccepted,
             ~SendAccepted(n)
      PROVE LossAllowed(n, c)
  <2> DEFINE Lost == n \in Waiting(c) /\ n \notin Waiting(c)'
  <2>1. ASSUME NEW d \in Conns, GreetAccepted(d)
        PROVE Lost => ~Joined(c) /\ latest[c]' # None
    BY <1>3, <2>1 DEF GreetAccepted, Threads, Messages, UsingPC
  <2>2. ASSUME BeatAccepted
        PROVE Lost => ~Joined(c) /\ latest[c]' # None
    BY <1>3, <2>2 DEF BeatAccepted, Threads, Messages, UsingPC
  <2>3. QED
    BY <1>1, <1>5, <2>1, <2>2 DEF LossAllowed
<1>6. ASSUME NEW d \in Conns, Subscribe(d), ~SendAccepted(n)
      PROVE LossAllowed(n, c)
  <2>1. /\ queue[d] = <<>> /\ None \notin Notifications
        /\ \A e \in Conns \ {d} : latest'[e] = latest[e] /\ queue'[e] = queue[e]
        /\ latest'[d] = None
        /\ queue'[d] = IF latest[d] = None THEN <<>> ELSE <<latest[d]>>
    BY <1>0, <1>6 DEF Subscribe, TypeOK, Goto, ReplayedOnce, Joined
  <2>2. Waiting(c)' = Waiting(c)
    BY <2>1 DEF Waiting
  <2>3. QED
    BY <1>1, <1>6, <2>2 DEF LossAllowed
<1>7. ASSUME NEW d \in Conns, Write(d), ~SendAccepted(n)
      PROVE LossAllowed(n, c)
  <2>1. CASE d = c
    BY <1>0, <1>1, <1>7, <2>1, WriteLoses DEF LossAllowed
  <2>2. CASE d # c
    <3>1. latest' = latest /\ queue'[c] = queue[c]
      BY <1>0, <1>7, <2>2 DEF Write, TypeOK, sinkVars
    <3>2. Waiting(c)' = Waiting(c)
      BY <3>1 DEF Waiting
    <3>3. QED
      BY <1>1, <1>7, <3>2 DEF LossAllowed
  <2>3. QED
    BY <2>1, <2>2
<1>8. ASSUME NEW d \in Conns, WriteFails(d), ~SendAccepted(n)
      PROVE LossAllowed(n, c)
  <2>1. CASE d = c
    BY <1>1, <1>8, <2>1 DEF LossAllowed, WriteFails
  <2>2. CASE d # c
    <3>1. latest' = latest /\ queue'[c] = queue[c]
      BY <1>0, <1>8, <2>2 DEF WriteFails, TypeOK, sinkVars
    <3>2. Waiting(c)' = Waiting(c)
      BY <3>1 DEF Waiting
    <3>3. QED
      BY <1>1, <1>8, <3>2 DEF LossAllowed
  <2>3. QED
    BY <2>1, <2>2
<1>9. QED
  BY <1>2, <1>4, <1>5, <1>6, <1>7, <1>8
     DEF Next, StreamStep, SendStep, BeatStep, streamVars, sinkVars,
         RefuseStream, CloseOld, Disconnect, CompleteOld, AddEmitter, GreetLookup,
         GreetReturns, GreetRefused, CancelRemove, CancelComplete, EndStream,
         SendLookup, SendReturns, SendRefused, BeginRound, Visit, BeatReturns,
         BeatRefused, BeatRemove, BeatComplete,
         RemoveEmitter, TryEmitComplete, EmitReturns, EmitRefused

\* What tryEmitNext accepted is lost with its browser, or to a newer value before
\* the stream has subscribed; in no other way, whoever replaces whom.
THEOREM LossesHaveCauses == Spec => LossHasCause
<1>1. IInv /\ PlaceInv /\ [Next]_vars
        => [\A n \in Notifications : \A c \in Conns : LossAllowed(n, c)]_vars
  BY LossStep
<1>2. QED
  BY <1>1, Inductive, InductivePlaces, PTL DEF Spec, LossHasCause, LossAllowed

=============================================================================
