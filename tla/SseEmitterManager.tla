------------------------- MODULE SseEmitterManager -------------------------
(***************************************************************************)
(* The push half of the backend: SseEmitterManager keeps one Reactor sink   *)
(* per user in a ConcurrentHashMap, SseController.streamEvents opens a      *)
(* stream on it, the notification pipeline emits into it with sendToUser,   *)
(* and a @Scheduled task emits a heartbeat into every sink.                 *)
(*                                                                          *)
(* Nothing here takes a lock that spans two calls: every read or write of   *)
(* the map and every call of a sink is one step, and the threads            *)
(*   - one per connection (its request thread, later the task that writes   *)
(*     its response), named by the connection,                              *)
(*   - one per call of sendToUser, named by the notification it carries,    *)
(*   - the scheduler's Heartbeat thread                                     *)
(* interleave between them.  A sink is named by the connection that made    *)
(* it: addEmitter makes exactly one.                                        *)
(*                                                                          *)
(* External: Reactor's serialized replay().latest() sink and Spring MVC's   *)
(* ReactiveTypeHandler, modelled from how the two classes use them.         *)
(***************************************************************************)
EXTENDS Naturals, Sequences, FiniteSets

CONSTANTS
    Users,          \* user ids, the keys of userSinks
    Conns,          \* requests to GET /events, each with the sink it may make
    Notifications,  \* calls of sendToUser made by the pipeline
    Heartbeat,      \* the scheduler's thread
    User,           \* [Conns -> Users]: the user named by the request's token
    Target,         \* [Notifications -> Users]: the first argument of sendToUser
    SseDisabled,    \* users whose preferences switch SSE off
    Greeting,       \* "Connection established for user ..."
    Ping,           \* the KEEPALIVE event
    None            \* Java's null, or an empty field

ASSUME SseAssumption ==
    /\ User \in [Conns -> Users]
    /\ Target \in [Notifications -> Users]
    /\ SseDisabled \subseteq Users
    /\ Heartbeat \notin Conns \cup Notifications
    /\ Conns \cap Notifications = {}
    /\ Greeting # Ping
    /\ {Greeting, Ping} \cap Notifications = {}
    /\ None \notin Users \cup Conns \cup Notifications \cup {Heartbeat, Greeting, Ping}

Threads == Conns \cup Notifications \cup {Heartbeat}

Messages == Notifications \cup {Greeting, Ping}

VARIABLES
    userSinks,  \* the ConcurrentHashMap: [Users -> Conns \cup {None}]
    phase,      \* of each sink: "absent", "open", "completed"
    latest,     \* what replay().latest() keeps for its (one) subscriber
    lockedAt,   \* the thread inside a call of the sink (SinkManySerialized)
    queue,      \* of each stream: emitted, not yet written to the response
    received,   \* history: the notifications the browser got
    client,     \* the browser's end of each connection: "open" or "gone"
    pc,         \* where each thread is
    held,       \* each thread's local variable `sink`, None out of its scope
    toVisit,    \* users the running heartbeat round has still to visit
    beatUser    \* the userId argument of the running forEach lambda

vars == <<userSinks, phase, latest, lockedAt, queue, received, client, pc,
          held, toVisit, beatUser>>

sinkVars == <<phase, latest, lockedAt>>
streamVars == <<queue, received, client>>
beatVars == <<toVisit, beatUser>>

Init ==
    /\ userSinks = [u \in Users |-> None]
    /\ phase = [c \in Conns |-> "absent"]
    /\ latest = [c \in Conns |-> None]
    /\ lockedAt = [c \in Conns |-> None]
    /\ queue = [c \in Conns |-> <<>>]
    /\ received = [c \in Conns |-> <<>>]
    /\ client = [c \in Conns |-> "open"]
    /\ pc = [t \in Threads |-> "idle"]
    /\ held = [t \in Threads |-> None]
    /\ toVisit = {}
    /\ beatUser = None

-----------------------------------------------------------------------------
(* Threads, and the sink as its callers see it.                             *)

Goto(t, from, to) ==
    /\ pc[t] = from
    /\ pc' = [pc EXCEPT ![t] = to]

\* A subscriber walks the sink's linked list at its own pace and misses nothing
\* after the place where it started.  Heartbeats in a row count as one.
Enqueue(q, m) ==
    IF m = Ping /\ Len(q) > 0 /\ q[Len(q)] = Ping THEN q ELSE Append(q, m)

\* The history of a stream keeps its notifications.
Log(s, m) == IF m \in Notifications THEN Append(s, m) ELSE s

\* tryEmitNext fails at once, with FAIL_NON_SERIALIZED while another thread is
\* inside the sink and with FAIL_TERMINATED after it was completed.
CanEmit(s) == lockedAt[s] = None /\ phase[s] = "open"

\* The stream has subscribed: nobody will ask for the replayed value again.
Joined(s) == pc[s] \in {"live", "cancelling", "cancelClosing", "cancelled", "ended"}

\* Slip: a directBestEffort() sink, which passes over a subscriber that is busy.
BestEffortEmitAccepted(t, m, from, to) ==
    LET s == held[t] IN
    /\ Goto(t, from, to)
    /\ CanEmit(s)
    /\ lockedAt' = [lockedAt EXCEPT ![s] = t]
    /\ latest' = [latest EXCEPT ![s] = IF Joined(s) THEN None ELSE m]
    /\ queue' = [queue EXCEPT ![s] = IF pc[s] = "live" /\ @ = <<>> THEN <<m>> ELSE @]
    /\ UNCHANGED <<userSinks, phase, received, client, held, beatVars>>

\* tryEmitNext enters the sink: the value replaces the replayed one and goes to
\* the stream, if one has subscribed and still listens.
EmitAccepted(t, m, from, to) ==
    LET s == held[t] IN
    /\ Goto(t, from, to)
    /\ CanEmit(s)
    /\ lockedAt' = [lockedAt EXCEPT ![s] = t]
    /\ latest' = [latest EXCEPT ![s] = IF Joined(s) THEN None ELSE m]
    /\ queue' = [queue EXCEPT ![s] = IF pc[s] = "live" THEN Enqueue(@, m) ELSE @]
    /\ UNCHANGED <<userSinks, phase, received, client, held, beatVars>>

\* tryEmitNext returns OK and leaves the sink.
EmitReturns(t, from, to) ==
    /\ Goto(t, from, to)
    /\ lockedAt' = [lockedAt EXCEPT ![held[t]] = None]
    /\ held' = [held EXCEPT ![t] = None]
    /\ UNCHANGED <<userSinks, phase, latest, streamVars, beatVars>>

\* tryEmitNext returns a failure and has changed nothing.
EmitRefused(t, from, to) ==
    /\ Goto(t, from, to)
    /\ ~CanEmit(held[t])
    /\ held' = [held EXCEPT ![t] = None]
    /\ UNCHANGED <<userSinks, sinkVars, streamVars, beatVars>>

-----------------------------------------------------------------------------
(* SseEmitterManager.removeEmitter, called by three kinds of thread.        *)

\* Slip: userSinks.get in place of userSinks.remove.
KeepingRemoveEmitter(t, u, from, found, notFound) ==
    /\ Goto(t, from, IF userSinks[u] # None THEN found ELSE notFound)
    /\ held' = [held EXCEPT ![t] = userSinks[u]]
    /\ UNCHANGED <<userSinks, sinkVars, streamVars, beatVars>>

\* `userSinks.remove(userId)`: whatever sink the user has now, not the one the
\* caller had in mind.
RemoveEmitter(t, u, from, found, notFound) ==
    /\ Goto(t, from, IF userSinks[u] # None THEN found ELSE notFound)
    /\ held' = [held EXCEPT ![t] = userSinks[u]]
    /\ userSinks' = [userSinks EXCEPT ![u] = None]
    /\ UNCHANGED <<sinkVars, streamVars, beatVars>>

\* `sink.tryEmitComplete()`: refused while another thread is inside the sink,
\* and nobody looks at the result.
TryEmitComplete(t, from, to) ==
    LET s == held[t] IN
    /\ Goto(t, from, to)
    /\ phase' = [phase EXCEPT ![s] = IF lockedAt[s] = None THEN "completed" ELSE @]
    /\ held' = [held EXCEPT ![t] = None]
    /\ UNCHANGED <<userSinks, latest, lockedAt, streamVars, beatVars>>

-----------------------------------------------------------------------------
(* SseController.streamEvents, on the request thread of connection c.       *)

\* An invalid token, or SSE switched off in the preferences: Flux.empty(), a
\* response that ends at once.
RefuseStream(c) ==
    /\ Goto(c, "idle", "refused")
    /\ UNCHANGED <<userSinks, sinkVars, streamVars, held, beatVars>>

\* closeAndRemoveEmittersForUser(userKey).
CloseOld(c) ==
    /\ User[c] \notin SseDisabled
    /\ RemoveEmitter(c, User[c], "idle", "closing", "adding")

CompleteOld(c) == TryEmitComplete(c, "closing", "adding")

\* addEmitter: put overwrites what another request may have put meanwhile.
AddEmitter(c) ==
    /\ Goto(c, "adding", "subscribing")
    /\ userSinks' = [userSinks EXCEPT ![User[c]] = c]
    /\ phase' = [phase EXCEPT ![c] = "open"]
    /\ UNCHANGED <<latest, lockedAt, streamVars, held, beatVars>>

\* Slip: the hook registers its sink again when it finds none.
RestoringGreetLookup(c) ==
    /\ Goto(c, "subscribing", "greeting")
    /\ userSinks' = [userSinks EXCEPT ![User[c]] = IF @ = None THEN c ELSE @]
    /\ held' = [held EXCEPT ![c] = userSinks'[User[c]]]
    /\ UNCHANGED <<sinkVars, streamVars, beatVars>>

\* doOnSubscribe, before the stream listens: sendToUser(userKey, "Connection
\* established ...") goes to whatever sink the map holds for the user.
GreetLookup(c) ==
    /\ Goto(c, "subscribing",
            IF userSinks[User[c]] # None THEN "greeting" ELSE "attaching")
    /\ held' = [held EXCEPT ![c] = userSinks[User[c]]]
    /\ UNCHANGED <<userSinks, sinkVars, streamVars, beatVars>>

GreetAccepted(c) == EmitAccepted(c, Greeting, "greeting", "greeted")
GreetReturns(c) == EmitReturns(c, "greeted", "attaching")
GreetRefused(c) == EmitRefused(c, "greeting", "attaching")

\* Slip: a multicast() sink, which has nothing to replay.
UnreplayedSubscribe(c) ==
    /\ Goto(c, "attaching", "live")
    /\ queue' = [queue EXCEPT ![c] = <<>>]
    /\ latest' = [latest EXCEPT ![c] = None]
    /\ UNCHANGED <<userSinks, phase, lockedAt, received, client, held, beatVars>>

\* The stream joins the sink: it starts with the one replayed value.
Subscribe(c) ==
    /\ Goto(c, "attaching", "live")
    /\ queue' = [queue EXCEPT ![c] = IF latest[c] = None THEN <<>> ELSE <<latest[c]>>]
    /\ latest' = [latest EXCEPT ![c] = None]
    /\ UNCHANGED <<userSinks, phase, lockedAt, received, client, held, beatVars>>

-----------------------------------------------------------------------------
(* The response of connection c, written by Spring's task for it.           *)

\* The browser closes the page or loses the network; the server is not told.
Disconnect(c) ==
    /\ pc[c] \notin {"idle", "refused", "cancelled", "ended"}
    /\ client[c] = "open"
    /\ client' = [client EXCEPT ![c] = "gone"]
    /\ UNCHANGED <<userSinks, sinkVars, queue, received, pc, held, beatVars>>

\* Slip: an event that is taken off the queue only when its write is confirmed.
UnconfirmedWrite(c) ==
    /\ pc[c] = "live"
    /\ queue[c] # <<>>
    /\ received' = [received EXCEPT
                      ![c] = IF client[c] = "open" THEN Log(@, Head(queue[c])) ELSE @]
    /\ UNCHANGED <<userSinks, sinkVars, queue, client, pc, held, beatVars>>

\* One event written.  The write to a browser that is gone may still succeed
\* (the socket's buffer takes it), and then the event is lost.
Write(c) ==
    /\ pc[c] = "live"
    /\ queue[c] # <<>>
    /\ queue' = [queue EXCEPT ![c] = Tail(@)]
    /\ received' = [received EXCEPT
                      ![c] = IF client[c] = "open" THEN Log(@, Head(queue[c])) ELSE @]
    /\ UNCHANGED <<userSinks, sinkVars, client, pc, held, beatVars>>

\* The write fails: the response drops what it still had to write, cancels the
\* subscription, and that calls doOnCancel.
WriteFails(c) ==
    /\ Goto(c, "live", "cancelling")
    /\ queue[c] # <<>>
    /\ client[c] = "gone"
    /\ queue' = [queue EXCEPT ![c] = <<>>]
    /\ UNCHANGED <<userSinks, sinkVars, received, client, held, beatVars>>

\* Slip: doOnCancel without its call of removeEmitter.
ForgetfulCancelRemove(c) ==
    /\ Goto(c, "cancelling", "cancelled")
    /\ UNCHANGED <<userSinks, sinkVars, streamVars, held, beatVars>>

\* doOnCancel: removeEmitter(userKey).
CancelRemove(c) == RemoveEmitter(c, User[c], "cancelling", "cancelClosing", "cancelled")
CancelComplete(c) == TryEmitComplete(c, "cancelClosing", "cancelled")

\* The completion signal, which follows every event the sink emitted before it.
EndStream(c) ==
    /\ Goto(c, "live", "ended")
    /\ phase[c] = "completed"
    /\ queue[c] = <<>>
    /\ UNCHANGED <<userSinks, sinkVars, streamVars, held, beatVars>>

-----------------------------------------------------------------------------
(* SseEmitterManager.sendToUser, on the thread that carries notification n. *)

\* Slip: the null check left out.
UncheckedSendLookup(n) ==
    /\ Goto(n, "idle", "sending")
    /\ held' = [held EXCEPT ![n] = userSinks[Target[n]]]
    /\ UNCHANGED <<userSinks, sinkVars, streamVars, beatVars>>

\* Slip: any entry of the map for a user who has none.
FallbackSendLookup(n) ==
    /\ Goto(n, "idle", "sending")
    /\ \E u \in Users :
        /\ userSinks[u] # None
        /\ userSinks[Target[n]] # None => u = Target[n]
        /\ held' = [held EXCEPT ![n] = userSinks[u]]
    /\ UNCHANGED <<userSinks, sinkVars, streamVars, beatVars>>

SendLookup(n) ==
    /\ Goto(n, "idle", IF userSinks[Target[n]] # None THEN "sending" ELSE "noSink")
    /\ held' = [held EXCEPT ![n] = userSinks[Target[n]]]
    /\ UNCHANGED <<userSinks, sinkVars, streamVars, beatVars>>

\* Slip: a retry loop around tryEmitNext that does not stop at success.
ResendingSendReturns(n) ==
    /\ Goto(n, "emitting", "sending")
    /\ lockedAt' = [lockedAt EXCEPT ![held[n]] = None]
    /\ UNCHANGED <<userSinks, phase, latest, streamVars, held, beatVars>>

\* Slip: emitNext with a handler that retries for as long as it fails.
SpinningSendRefused(n) ==
    /\ Goto(n, "sending", "sending")
    /\ ~CanEmit(held[n])
    /\ UNCHANGED <<userSinks, sinkVars, streamVars, held, beatVars>>

SendAccepted(n) == EmitAccepted(n, n, "sending", "emitting")
SendReturns(n) == EmitReturns(n, "emitting", "sent")
SendRefused(n) == EmitRefused(n, "sending", "dropped")

-----------------------------------------------------------------------------
(* SseEmitterManager.sendHeartbeats, on the scheduler's thread.             *)

BeginRound ==
    /\ pc[Heartbeat] = "idle"
    /\ toVisit = {}
    /\ toVisit' = Users
    /\ UNCHANGED <<userSinks, sinkVars, streamVars, pc, held, beatUser>>

\* forEach takes the entries in an order of its own and sees each as it is when
\* it gets there; a user without a sink has no entry.
Visit(u) ==
    /\ Goto(Heartbeat, "idle", IF userSinks[u] # None THEN "beating" ELSE "idle")
    /\ u \in toVisit
    /\ toVisit' = toVisit \ {u}
    /\ held' = [held EXCEPT ![Heartbeat] = userSinks[u]]
    /\ beatUser' = u
    /\ UNCHANGED <<userSinks, sinkVars, streamVars>>

BeatAccepted == EmitAccepted(Heartbeat, Ping, "beating", "beaten")
BeatReturns == EmitReturns(Heartbeat, "beaten", "idle")
BeatRefused == EmitRefused(Heartbeat, "beating", "beatFailed")

\* A heartbeat that was refused removes the user's sink: by user, not by sink.
BeatRemove == RemoveEmitter(Heartbeat, beatUser, "beatFailed", "beatClosing", "idle")
BeatComplete == TryEmitComplete(Heartbeat, "beatClosing", "idle")

-----------------------------------------------------------------------------
\* A request, once it arrived, and the response's task.
StreamStep(c) ==
    \/ CompleteOld(c) \/ AddEmitter(c)
    \/ GreetLookup(c) \/ GreetAccepted(c) \/ GreetReturns(c) \/ GreetRefused(c)
    \/ Subscribe(c)
    \/ Write(c)
    \/ CancelRemove(c) \/ CancelComplete(c)
    \/ EndStream(c)

\* A call of sendToUser, once it was made.
SendStep(n) == SendAccepted(n) \/ SendReturns(n) \/ SendRefused(n)

BeatStep ==
    \/ BeginRound
    \/ \E u \in Users : Visit(u)
    \/ BeatAccepted \/ BeatReturns \/ BeatRefused
    \/ BeatRemove \/ BeatComplete

Next ==
    \/ \E c \in Conns : RefuseStream(c) \/ CloseOld(c) \/ Disconnect(c)
                        \/ StreamStep(c) \/ WriteFails(c)
    \/ \E n \in Notifications : SendLookup(n) \/ SendStep(n)
    \/ BeatStep

Spec == Init /\ [][Next]_vars

\* Threads that run keep running and the scheduler fires for ever; requests,
\* notifications and disconnections come as they please.  A peer that is gone
\* lets some writes through but not all of them.
Fairness ==
    /\ \A c \in Conns : WF_vars(StreamStep(c)) /\ SF_vars(WriteFails(c))
    /\ \A n \in Notifications : WF_vars(SendStep(n))
    /\ WF_vars(BeatStep)

FairSpec == Spec /\ Fairness

-----------------------------------------------------------------------------
(* Properties.                                                              *)

\* The steps at which a thread uses its local `sink`.
UsingPC == {"closing", "greeting", "greeted", "cancelClosing", "sending", "emitting",
            "beating", "beaten", "beatClosing"}

ConnPC == {"idle", "refused", "closing", "adding", "subscribing", "greeting", "greeted",
           "attaching", "live", "cancelling", "cancelClosing", "cancelled", "ended"}
SendPC == {"idle", "sending", "emitting", "sent", "dropped", "noSink"}
BeatPC == {"idle", "beating", "beaten", "beatFailed", "beatClosing"}

\* Every variable has its type, each kind of thread is at one of its own steps,
\* and no thread uses a `sink` or `userId` that is null (the null checks of
\* removeEmitter, sendToUser and sendHeartbeats).
TypeOK ==
    /\ userSinks \in [Users -> Conns \cup {None}]
    /\ phase \in [Conns -> {"absent", "open", "completed"}]
    /\ latest \in [Conns -> Messages \cup {None}]
    /\ lockedAt \in [Conns -> Threads \cup {None}]
    /\ queue \in [Conns -> Seq(Messages)]
    /\ received \in [Conns -> Seq(Notifications)]
    /\ client \in [Conns -> {"open", "gone"}]
    /\ pc \in [Threads -> ConnPC \cup SendPC \cup BeatPC]
    /\ \A c \in Conns : pc[c] \in ConnPC
    /\ \A n \in Notifications : pc[n] \in SendPC
    /\ pc[Heartbeat] \in BeatPC
    /\ held \in [Threads -> Conns \cup {None}]
    /\ \A t \in Threads : pc[t] \in UsingPC => held[t] \in Conns
    /\ toVisit \subseteq Users
    /\ beatUser \in Users \cup {None}
    /\ pc[Heartbeat] # "idle" => beatUser \in Users

\* What the map holds for a user is that user's sink and can still be emitted
\* into: removeEmitter takes a sink out before it completes it, so sendToUser
\* never meets a completed sink through a fresh lookup.
RegisteredSinkIsOpen ==
    \A u \in Users : userSinks[u] # None =>
        /\ User[userSinks[u]] = u
        /\ phase[userSinks[u]] = "open"

MessagesFor(u) == {n \in Notifications : Target[n] = u} \cup {Greeting, Ping}

\* A stream carries only notifications of its own user, though sinks are looked
\* up, replaced and removed by user while older references are still in use.
OwnNotificationsOnly ==
    \A c \in Conns :
        /\ queue[c] \in Seq(MessagesFor(User[c]))
        /\ received[c] \in Seq(MessagesFor(User[c]))

Occurrences(n) ==
    UNION {{<<c, "received", i>> : i \in {j \in DOMAIN received[c] : received[c][j] = n}}
           \cup {<<c, "queue", i>> : i \in {j \in DOMAIN queue[c] : queue[c][j] = n}}
           : c \in Conns}

\* One call of sendToUser puts its notification on one stream, once, even when
\* the user's streams replace one another while it runs and although a new
\* stream starts with a value that was emitted before it.
AtMostOnce == \A n \in Notifications : Cardinality(Occurrences(n)) <= 1

Emitted(n) == pc[n] \in {"emitting", "sent"}

\* On the stream of c: replayed, once it subscribes, or still to be written.
Waiting(c) ==
    {n \in Notifications : latest[c] = n \/ \E i \in DOMAIN queue[c] : queue[c][i] = n}

Shown(c) == {n \in Notifications : \E i \in DOMAIN received[c] : received[c][i] = n}

\* All of it together - sinks by user, replacement, removal, replay, heartbeats,
\* failing writes - is the channel that PushChannel promises.
Channel == INSTANCE PushChannel
    WITH Streams <- Conns,
         Audience <- [n \in Notifications |-> {c \in Conns : User[c] = Target[n]}],
         taken <- {n \in Notifications : Emitted(n)},
         waiting <- [c \in Conns |-> Waiting(c)],
         shown <- [c \in Conns |-> Shown(c)]

ImplementsChannel == Channel!Spec

Registered(c) == userSinks[User[c]] = c

\* A sink that was taken out of the map, or overwritten in it, is never put
\* back: a stream that was replaced cannot come back to life.
NoReturnToMap ==
    [][\A c \in Conns : phase[c] # "absent" /\ ~Registered(c) => ~Registered(c)']_vars

\* tryEmitNext said OK to sendToUser: the notification is then on the stream,
\* through its start, its writes and the closing of its sink, until the browser
\* has it.  It is lost with the browser, or to a later value that the sink takes
\* before the stream has subscribed (it keeps one), and in no other way.
LossHasCause ==
    [][\A n \in Notifications : \A c \in Conns :
        /\ pc[n] = "sending" /\ pc[n]' = "emitting" /\ held[n] = c =>
            n \in Waiting(c)' \/ client[c] = "gone"
        /\ n \in Waiting(c) /\ n \notin Waiting(c)' =>
            \/ n \in Shown(c)'
            \/ client[c] = "gone"
            \/ ~Joined(c) /\ latest[c]' # None]_vars

\* A call of sendToUser returns: a sink that is busy, completed or replaced
\* delays nobody.
CallsReturn == \A n \in Notifications : pc[n] = "sending" ~> pc[n] \in {"sent", "dropped"}

\* A browser that went away does not keep its sink in the map: a heartbeat
\* reaches it, the write fails and doOnCancel removes it.
VanishedClientIsRemoved ==
    \A c \in Conns : client[c] = "gone" /\ Registered(c) ~> ~Registered(c)

\* What a sink accepts while its stream is live reaches the browser, if that
\* stays: closing the stream for a newer one cuts nothing off.
AcceptedReachesClient ==
    \A n \in Notifications : \A c \in Conns :
        pc[n] = "emitting" /\ held[n] = c /\ pc[c] = "live"
        ~> client[c] = "gone" \/ \E i \in DOMAIN received[c] : received[c][i] = n

\* README.md:93 "Pushes notifications instantly to connected clients": the stream
\* of a connected browser is the one its user's notifications go to, or it ends
\* (and the browser reconnects).
ConnectedClientIsServed ==
    \A c \in Conns : [](pc[c] = "live" /\ client[c] = "open"
                          => <>(Registered(c) \/ pc[c] # "live" \/ client[c] = "gone"))

=============================================================================
