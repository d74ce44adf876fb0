------------------------ MODULE NotificationPipeline ------------------------
(***************************************************************************)
(* From an event to the rows, the SSE calls and the mails it causes:        *)
(* the two Kafka consumers and the REST controllers call                    *)
(* NotificationProcessingOrchestrator.processNotification, which handles    *)
(* the target users one after the other inside one transaction.             *)
(*                                                                          *)
(* Threads: each consumer thread takes records as long as there are any,    *)
(* each request thread runs once.  Any two may work on the same event: a    *)
(* client repeats a request, a producer uses both ways in, Kafka gives a    *)
(* record to another consumer after a rebalance.                            *)
(*                                                                          *)
(* Transactions (Spring, Hibernate, H2 at READ COMMITTED): a thread sees    *)
(* committed rows and its own; an insert is made at once and checked against *)
(* the unique keys, waiting for a transaction that holds the key until the   *)
(* lock times out; changes to loaded rows are written at the commit.        *)
(* An exception that leaves an inner @Transactional method marks the whole  *)
(* transaction for rollback, even when the loop around it catches it; after *)
(* a failed insert the session also holds an entity without an id, and each *)
(* later query fails at the flush that precedes it.                         *)
(***************************************************************************)
EXTENDS Naturals, Sequences

CONSTANTS
    Users, Events, Types,
    Consumers,          \* Kafka listener threads
    Requests,           \* calls of the REST endpoints
    Targets,            \* [Events -> sequences of users, Blank, or <<All>>]
    Everyone,           \* userRepository.findAll(), a sequence of users
    TypeOf,             \* [Events -> Types]
    SeedTypes,          \* the types data.sql inserts
    Invalid,            \* events validateNotificationEvent rejects
    NoId,               \* events without an event id
    Oversized,          \* events with a value too long for its column, in any row
    LongIds,            \* users whose id is too long for the column user_id
    StandardTopic,      \* events published to `notifications`
    CriticalTopic,      \* events published to `critical-notifications`
    Ahead,              \* [Records -> SUBSET Records]: those before it in its partition
    Unreadable,         \* records the JsonDeserializer cannot make an event of
    CriticalPriority,   \* events with priority CRITICAL
    Body,               \* [Requests -> Events]
    ViaAdmin,           \* requests to AdminNotificationController
    WantsMail,          \* <<user, type>>: mail is on, not muted, and has an address
    MaxCrashes,         \* bound: how often the backend may be restarted
    All, Blank, None

Threads == Consumers \cup Requests
Records == StandardTopic \cup CriticalTopic

ASSUME PipelineAssumption ==
    /\ Everyone \in Seq(Users)
    /\ Targets \in [Events -> Seq(Users \cup {All, Blank})]
    /\ \A e \in Events : \A i \in DOMAIN Targets[e] :
        Targets[e][i] = All => Len(Targets[e]) = 1
    /\ TypeOf \in [Events -> Types]
    /\ SeedTypes \subseteq Types
    /\ Invalid \subseteq Events /\ NoId \subseteq Events 
    /\ Oversized \subseteq Events
    /\ LongIds \subseteq Users \ {Everyone[i] : i \in DOMAIN Everyone}
    /\ Ahead \in [Records -> SUBSET Records]
    /\ \A e \in Records : e \notin Ahead[e]
    /\ \A e \in Records : \A f \in Ahead[e] : Ahead[f] \subseteq Ahead[e]
    /\ Unreadable \subseteq Records
    /\ Records \subseteq Events /\ StandardTopic \cap CriticalTopic = {}
    /\ CriticalPriority \subseteq Events
    /\ Body \in [Requests -> Events]
    /\ ViaAdmin \subseteq Requests
    /\ WantsMail \subseteq Users \X Types
    /\ MaxCrashes \in Nat
    /\ Consumers \cap Requests = {}
    /\ All # Blank /\ {All, Blank, None} \cap Users = {}
    /\ None \notin Events \cup Threads

VARIABLES
    rows,           \* the committed rows of `notifications`
    types,          \* the committed rows of `notification_types`
    session,        \* each thread's Hibernate session: the entity of each user
    newType,        \* each thread: has it inserted its event's type?
    tx,             \* each thread's transaction: active, marked for rollback, or
                    \* marked with a broken session
    work,           \* the event each thread is processing
    pos,            \* the place of its loop in the list of users
    pc,             \* where each thread is
    acked,          \* Kafka records whose offset is committed
    pushed,         \* history: dispatchNotification's <<event, user, row id>>
    mails,          \* history: how many mails about an event each user was sent
    attempts,       \* history: how often each event was taken up
    crashes         \* restarts so far

vars == <<rows, types, session, newType, tx, work, pos, pc, acked,
          pushed, mails, attempts, crashes>>

\* A row's id is written as the thread that inserted it.
Rows == [event : Events, user : Users, by : Threads, emailed : BOOLEAN]

\* A managed entity: just inserted, loaded, loaded and changed since, or
\* changed with the change written out.
Entities == [by : Threads, emailed : BOOLEAN,
             state : {"new", "loaded", "dirty", "flushed"}]

ASSUME NoneAssumption == None \notin Entities

NoEntities == [u \in Users |-> None]

Init ==
    /\ rows = {}
    /\ types = SeedTypes
    /\ session = [t \in Threads |-> NoEntities]
    /\ newType = [t \in Threads |-> FALSE]
    /\ tx = [t \in Threads |-> "active"]
    /\ work = [t \in Threads |-> None]
    /\ pos = [t \in Threads |-> 1]
    /\ pc = [t \in Threads |-> "idle"]
    /\ acked = {}
    /\ pushed = {}
    /\ mails = [e \in Events |-> [u \in Users |-> 0]]
    /\ attempts = [e \in Events |-> 0]
    /\ crashes = 0

txVars == <<session, newType, tx>>
dbVars == <<rows, types>>
outVars == <<pushed, mails>>

-----------------------------------------------------------------------------
\* The users the loop goes through: a list of "ALL" alone stands for everyone.
UserList(e) == IF Targets[e] = <<All>> THEN Everyone ELSE Targets[e]

\* Those it stores a notification for: it skips blank ids.
Receivers(e) == {UserList(e)[i] : i \in DOMAIN UserList(e)} \ {Blank}

\* The loop's variable in thread t.
CurrentUser(t) == UserList(work[t])[pos[t]]

\* Thread t is at this point of the loop's body, for this user.
AtUser(t, u, at) ==
    /\ pc[t] = at
    /\ pos[t] \in DOMAIN UserList(work[t])
    /\ CurrentUser(t) = u

\* By topic for a record, by priority for a request.
IsCritical(t) ==
    IF t \in Consumers THEN work[t] \in CriticalTopic ELSE work[t] \in CriticalPriority

Goto(t, from, to) ==
    /\ pc[t] = from
    /\ pc' = [pc EXCEPT ![t] = to]

NextUser(t, from) ==
    /\ Goto(t, from, "loop")
    /\ pos' = [pos EXCEPT ![t] = @ + 1]

\* Another transaction has inserted this key and is still running.
RowHeldByOther(t, u) ==
    \E x \in Threads \ {t} : /\ work[x] = work[t]
                             /\ session[x][u] # None
                             /\ session[x][u].state = "new"

TypeHeldByOther(t) ==
    \E x \in Threads \ {t} : newType[x] /\ TypeOf[work[x]] = TypeOf[work[t]]

\* A column is too short.  In a broadcast the rows differ by users.username
\* alone, which is shorter than user_id; a list may name any id.
Unstorable(e, u) == e \in Oversized \/ u \in LongIds

RowStored(e, u) == \E r \in rows : r.event = e /\ r.user = u

\* What a query first writes out.
Flushed(entities) ==
    [u \in Users |-> IF entities[u] # None /\ entities[u].state = "dirty"
                     THEN [entities[u] EXCEPT !.state = "flushed"] ELSE entities[u]]

\* Another transaction has written out a change of a row that this one is to
\* write out: it waits, until the lock times out.
UpdateBlocked(t) ==
    \E x \in Threads \ {t} : \E u \in Users :
        /\ work[x] = work[t]
        /\ session[t][u] # None /\ session[t][u].state = "dirty"
        /\ session[x][u] # None /\ session[x][u].state = "flushed"

-----------------------------------------------------------------------------
(* The ways in.                                                             *)

TakeUp(t, e) ==
    /\ Goto(t, "idle", "begin")
    /\ work' = [work EXCEPT ![t] = e]
    /\ attempts' = [attempts EXCEPT ![e] = @ + 1]
    /\ UNCHANGED <<dbVars, txVars, pos, acked, outVars, crashes>>

\* consume: a record without a committed offset is delivered, again after a
\* rebalance or a restart, when those ahead of it in its partition are done with.
\* A record that cannot be deserialized fails in poll(), before consume is called,
\* and again whenever it is polled: no offset passes it.
Consume(w, e) ==
    /\ e \in Records \ (acked \cup Unreadable)
    /\ Ahead[e] \subseteq acked
    /\ TakeUp(w, e)

\* NotificationService.sendNotification, on the admin's way in, throws before
\* the orchestrator is called: no event id, or no target.
Refused(r) == r \in ViaAdmin /\ (Body[r] \in NoId \/ Targets[Body[r]] = <<>>)

\* sendNotification, sendCriticalNotification.
Receive(r) == ~Refused(r) /\ TakeUp(r, Body[r])

RefuseRequest(r) ==
    /\ Refused(r)
    /\ Goto(r, "idle", "failed")
    /\ UNCHANGED <<dbVars, txVars, work, pos, acked, outVars, attempts, crashes>>

-----------------------------------------------------------------------------
(* NotificationProcessingOrchestrator.processNotification.                  *)

\* The event is valid; without targets it is skipped.
Start(t) ==
    /\ pc[t] = "begin" /\ work[t] \notin Invalid
    /\ Goto(t, "begin", IF Targets[work[t]] = <<>> THEN "commit" ELSE "loop")
    /\ UNCHANGED <<dbVars, txVars, work, pos, acked, outVars, attempts, crashes>>

\* validateNotificationEvent throws out of processNotification; a failed query
\* for all users is caught, but has marked the transaction.
StartFails(t) ==
    /\ Goto(t, "begin", "commit")
    /\ work[t] \in Invalid \/ Targets[work[t]] = <<All>>
    /\ tx' = [tx EXCEPT ![t] = "marked"]
    /\ UNCHANGED <<dbVars, session, newType, work, pos, acked, outVars, attempts, crashes>>

SkipBlank(t) ==
    /\ AtUser(t, Blank, "loop")
    /\ NextUser(t, "loop")
    /\ UNCHANGED <<dbVars, txVars, work, acked, outVars, attempts, crashes>>

LeaveLoop(t) ==
    /\ Goto(t, "loop", "commit")
    /\ pos[t] \notin DOMAIN UserList(work[t])
    /\ UNCHANGED <<dbVars, txVars, work, pos, acked, outVars, attempts, crashes>>

\* Slip: an inner transaction of its own (REQUIRES_NEW), which the loop's catch
\* really recovers from.
ForgivingCatchAndContinue(t, from, left) ==
    /\ NextUser(t, from)
    /\ UNCHANGED <<dbVars, txVars, work, acked, outVars, attempts, crashes>>

\* Slip: the user is tried again, as if the failure were only a lost race.
RetryingCatchAndContinue(t, from, left) ==
    /\ Goto(t, from, "loop")
    /\ tx' = [tx EXCEPT ![t] = left]
    /\ UNCHANGED <<dbVars, session, newType, work, pos, acked, outVars, attempts, crashes>>

\* The catch of the loop: the exception is logged and the next user's turn
\* comes, but the transaction it has left behind can only be rolled back.
CatchAndContinue(t, from, left) ==
    /\ NextUser(t, from)
    /\ tx' = [tx EXCEPT ![t] = left]
    /\ UNCHANGED <<dbVars, session, newType, work, acked, outVars, attempts, crashes>>

-----------------------------------------------------------------------------
(* NotificationPersistenceService.persistNotification.                      *)

\* No event id: an exception before any query.
RefuseMissingId(t) ==
    /\ work[t] \in NoId
    /\ \E u \in Users : AtUser(t, u, "loop")
    /\ CatchAndContinue(t, "loop", "marked")

\* findByEventIdAndUserId: the session's own entity, a committed row, or none.
FindExisting(t) == \E u \in Users :
    /\ AtUser(t, u, "loop")
    /\ work[t] \notin NoId
    /\ tx[t] # "broken" /\ ~UpdateBlocked(t)
    /\ \/ /\ session[t][u] # None
          /\ Goto(t, "loop", "push")
          /\ session' = [session EXCEPT ![t] = Flushed(@)]
       \/ /\ session[t][u] = None
          /\ \E r \in rows :
              /\ r.event = work[t] /\ r.user = u
              /\ session' = [session EXCEPT ![t] = [Flushed(@) EXCEPT ![u] =
                                [by |-> r.by, emailed |-> r.emailed, state |-> "loaded"]]]
          /\ Goto(t, "loop", "push")
       \/ /\ session[t][u] = None
          /\ ~RowStored(work[t], u)
          /\ Goto(t, "loop", "findType")
          /\ session' = [session EXCEPT ![t] = Flushed(@)]
    /\ UNCHANGED <<dbVars, newType, tx, work, pos, acked, outVars, attempts, crashes>>

\* The query fails at the flush before it: a broken session, or a change that
\* waits too long for the lock of its row.
FindFails(t) ==
    /\ work[t] \notin NoId
    /\ \E u \in Users : AtUser(t, u, "loop")
    /\ \/ tx[t] = "broken" /\ CatchAndContinue(t, "loop", "broken")
       \/ tx[t] # "broken" /\ UpdateBlocked(t) /\ CatchAndContinue(t, "loop", "marked")

\* findOrCreateNotificationType: findByTypeCode ...
FindType(t) ==
    /\ Goto(t, "findType",
            IF TypeOf[work[t]] \in types \/ newType[t] THEN "insert" ELSE "insertType")
    /\ UNCHANGED <<dbVars, txVars, work, pos, acked, outVars, attempts, crashes>>

\* ... and save of a new type; type_code is unique.
InsertType(t) ==
    /\ Goto(t, "insertType", "insert")
    /\ TypeOf[work[t]] \notin types
    /\ ~TypeHeldByOther(t)
    /\ newType' = [newType EXCEPT ![t] = TRUE]
    /\ UNCHANGED <<dbVars, session, tx, work, pos, acked, outVars, attempts, crashes>>

\* The code is taken, or the wait for the transaction that has it times out.
InsertTypeFails(t) ==
    /\ CatchAndContinue(t, "insertType", "broken")
    /\ TypeOf[work[t]] \in types \/ TypeHeldByOther(t)

\* Slip: a table without the constraint uc_event_user.
UnconstrainedInsertRow(t) == \E u \in Users :
    /\ AtUser(t, u, "insert")
    /\ Goto(t, "insert", "push")
    /\ ~Unstorable(work[t], u)
    /\ session' = [session EXCEPT ![t][u] =
                      [by |-> t, emailed |-> FALSE, state |-> "new"]]
    /\ UNCHANGED <<dbVars, newType, tx, work, pos, acked, outVars, attempts, crashes>>

\* save of the row; (event_id, user_id) is unique.
InsertRow(t) == \E u \in Users :
    /\ AtUser(t, u, "insert")
    /\ Goto(t, "insert", "push")
    /\ ~Unstorable(work[t], u)
    /\ ~RowStored(work[t], u)
    /\ ~RowHeldByOther(t, u)
    /\ session' = [session EXCEPT ![t][u] =
                      [by |-> t, emailed |-> FALSE, state |-> "new"]]
    /\ UNCHANGED <<dbVars, newType, tx, work, pos, acked, outVars, attempts, crashes>>

\* Slip: persistNotification returns null where it should throw.
SilentInsertRowFails(t) == \E u \in Users :
    /\ AtUser(t, u, "insert")
    /\ Unstorable(work[t], u) \/ RowStored(work[t], u) \/ RowHeldByOther(t, u)
    /\ Goto(t, "insert", "push")
    /\ UNCHANGED <<dbVars, txVars, work, pos, acked, outVars, attempts, crashes>>

\* A value the column does not take, a row that was committed since it was
\* looked for, or a lock that times out.
InsertRowFails(t) == \E u \in Users :
    /\ AtUser(t, u, "insert")
    /\ Unstorable(work[t], u) \/ RowStored(work[t], u) \/ RowHeldByOther(t, u)
    /\ CatchAndContinue(t, "insert", "broken")

-----------------------------------------------------------------------------
(* NotificationDispatchService and EmailService.                            *)

\* Slip: an else, by which critical notifications are only mailed.
ExclusivePush(t) == \E u \in Users :
    /\ AtUser(t, u, "push")
    /\ IF IsCritical(t)
       THEN Goto(t, "push", "mail") /\ UNCHANGED <<pos, pushed>>
       ELSE NextUser(t, "push") /\ pushed' = pushed \cup {<<work[t], u, session[t][u].by>>}
    /\ UNCHANGED <<dbVars, txVars, work, acked, mails, attempts, crashes>>

\* dispatchNotification: SseEmitterManager.sendToUser, which never throws.  The
\* transaction has not committed yet.
Push(t) == \E u \in Users :
    /\ AtUser(t, u, "push")
    /\ pushed' = pushed \cup {<<work[t], u, session[t][u].by>>}
    /\ IF IsCritical(t) THEN Goto(t, "push", "mail") /\ UNCHANGED pos ELSE NextUser(t, "push")
    /\ UNCHANGED <<dbVars, txVars, work, acked, mails, attempts, crashes>>

\* dispatchToEmail marks the entity when sendNotificationEmail has returned.
Marked(s) == [s EXCEPT !.emailed = TRUE, !.state = IF @ = "new" THEN "new" ELSE "dirty"]

\* The entity says that the mail was sent: skip.
MailAlreadySent(t) == \E u \in Users :
    /\ AtUser(t, u, "mail")
    /\ session[t][u].emailed
    /\ NextUser(t, "mail")
    /\ UNCHANGED <<dbVars, txVars, work, acked, outVars, attempts, crashes>>

\* sendNotificationEmail returns without a mail, and the entity is marked all the
\* same: the user wants none, or the message could not be built and the
\* MessagingException was swallowed.
MailNotSent(t) == \E u \in Users :
    /\ AtUser(t, u, "mail")
    /\ ~session[t][u].emailed
    /\ NextUser(t, "mail")
    /\ session' = [session EXCEPT ![t][u] = Marked(@)]
    /\ UNCHANGED <<dbVars, newType, tx, work, acked, outVars, attempts, crashes>>

\* Slip: setEmailDispatchedAt left out.
UnmarkedMailSent(t) == \E u \in Users :
    /\ AtUser(t, u, "mail")
    /\ ~session[t][u].emailed
    /\ <<u, TypeOf[work[t]]>> \in WantsMail
    /\ NextUser(t, "mail")
    /\ mails' = [mails EXCEPT ![work[t]][u] = @ + 1]
    /\ UNCHANGED <<dbVars, txVars, work, acked, pushed, attempts, crashes>>

MailSent(t) == \E u \in Users :
    /\ AtUser(t, u, "mail")
    /\ ~session[t][u].emailed
    /\ <<u, TypeOf[work[t]]>> \in WantsMail
    /\ NextUser(t, "mail")
    /\ mails' = [mails EXCEPT ![work[t]][u] = @ + 1]
    /\ session' = [session EXCEPT ![t][u] = Marked(@)]
    /\ UNCHANGED <<dbVars, newType, tx, work, acked, pushed, attempts, crashes>>

\* The mail server refuses: a MailException, caught by dispatchToEmail.
MailThrows(t) == \E u \in Users :
    /\ AtUser(t, u, "mail")
    /\ ~session[t][u].emailed
    /\ <<u, TypeOf[work[t]]>> \in WantsMail
    /\ NextUser(t, "mail")
    /\ UNCHANGED <<dbVars, txVars, work, acked, outVars, attempts, crashes>>

-----------------------------------------------------------------------------
(* The end of the transaction and of the call.                              *)

EndTx(t) ==
    /\ session' = [session EXCEPT ![t] = NoEntities]
    /\ newType' = [newType EXCEPT ![t] = FALSE]
    /\ tx' = [tx EXCEPT ![t] = "active"]
    /\ pos' = [pos EXCEPT ![t] = 1]

\* The rows the commit writes: the inserted ones, and every column of the loaded
\* ones that changed.
Inserted(t) ==
    {[event |-> work[t], user |-> u, by |-> t, emailed |-> session[t][u].emailed] :
        u \in {v \in Users : session[t][v] # None /\ session[t][v].state = "new"}}

Updated(t) ==
    {IF /\ r.event = work[t]
        /\ session[t][r.user] # None
        /\ session[t][r.user].state \in {"dirty", "flushed"}
     THEN [r EXCEPT !.emailed = TRUE] ELSE r : r \in rows}

Commit(t) ==
    /\ Goto(t, "commit", IF t \in Consumers THEN "ack" ELSE "done")
    /\ tx[t] = "active" /\ ~UpdateBlocked(t)
    /\ rows' = Updated(t) \cup Inserted(t)
    /\ types' = IF newType[t] THEN types \cup {TypeOf[work[t]]} ELSE types
    /\ EndTx(t)
    /\ UNCHANGED <<work, acked, outVars, attempts, crashes>>

\* Slip: the controller swallows the exception as the consumers do.
SwallowedRollback(t) ==
    /\ Goto(t, "commit", IF t \in Consumers THEN "ack" ELSE "done")
    /\ tx[t] # "active" \/ UpdateBlocked(t)
    /\ EndTx(t)
    /\ UNCHANGED <<dbVars, work, acked, outVars, attempts, crashes>>

\* Slip: an error handler that stops the listener at an exception.
StoppingRollback(t) ==
    /\ Goto(t, "commit", "failed")
    /\ tx[t] # "active" \/ UpdateBlocked(t)
    /\ EndTx(t)
    /\ UNCHANGED <<dbVars, work, acked, outVars, attempts, crashes>>

\* UnexpectedRollbackException, the exception validation threw, or a commit whose
\* update waits too long for a lock: the caller of the endpoint gets an error, a
\* consumer logs it.
Rollback(t) ==
    /\ Goto(t, "commit", IF t \in Consumers THEN "ack" ELSE "failed")
    /\ tx[t] # "active" \/ UpdateBlocked(t)
    /\ EndTx(t)
    /\ UNCHANGED <<dbVars, work, acked, outVars, attempts, crashes>>

\* consume has returned, in whatever way: the offset is committed (ack-mode RECORD).
Ack(w) ==
    /\ Goto(w, "ack", "idle")
    /\ acked' = acked \cup {work[w]}
    /\ work' = [work EXCEPT ![w] = None]
    /\ UNCHANGED <<dbVars, txVars, pos, outVars, attempts, crashes>>

\* The backend is killed and comes back with the database of schema.sql and
\* data.sql; Kafka remembers the offsets, requests are answered with an error.
Crash ==
    /\ crashes < MaxCrashes
    /\ crashes' = crashes + 1
    /\ rows' = {}
    /\ types' = SeedTypes
    /\ session' = [t \in Threads |-> NoEntities]
    /\ newType' = [t \in Threads |-> FALSE]
    /\ tx' = [t \in Threads |-> "active"]
    /\ pos' = [t \in Threads |-> 1]
    /\ work' = [t \in Threads |-> IF t \in Consumers THEN None ELSE work[t]]
    /\ pc' = [t \in Threads |-> IF t \in Consumers THEN "idle"
                                ELSE IF pc[t] \in {"idle", "done", "failed"} THEN pc[t]
                                ELSE "failed"]
    /\ UNCHANGED <<acked, outVars, attempts>>

-----------------------------------------------------------------------------
\* One step of a call of processNotification.
Step(t) ==
    \/ Start(t) \/ StartFails(t) \/ SkipBlank(t) \/ LeaveLoop(t)
    \/ RefuseMissingId(t) \/ FindExisting(t) \/ FindFails(t)
    \/ FindType(t) \/ InsertType(t) \/ InsertTypeFails(t)
    \/ InsertRow(t) \/ InsertRowFails(t)
    \/ Push(t)
    \/ MailAlreadySent(t) \/ MailNotSent(t) \/ MailSent(t) \/ MailThrows(t)
    \/ Commit(t) \/ Rollback(t)

Next ==
    \/ \E w \in Consumers : (\E e \in Events : Consume(w, e)) \/ Ack(w)
    \/ \E r \in Requests : Receive(r) \/ RefuseRequest(r)
    \/ \E t \in Threads : Step(t)
    \/ Crash

Spec == Init /\ [][Next]_vars

\* Kafka delivers what is not acknowledged and threads that run keep running;
\* requests and crashes come as they please.
Fairness ==
    /\ \A w \in Consumers : WF_vars(\E e \in Events : Consume(w, e)) /\ WF_vars(Ack(w))
    /\ \A t \in Threads : WF_vars(Step(t))

FairSpec == Spec /\ Fairness

-----------------------------------------------------------------------------
(* Properties.                                                              *)

\* Every variable has its type, a thread inside the loop has an event, and
\* whoever dispatches a notification has the entity it dispatches (the loop
\* reaches lines 63-70 only when persistNotification has returned).
TypeOK ==
    /\ rows \subseteq Rows
    /\ types \subseteq Types
    /\ session \in [Threads -> [Users -> Entities \cup {None}]]
    /\ newType \in [Threads -> BOOLEAN]
    /\ tx \in [Threads -> {"active", "marked", "broken"}]
    /\ work \in [Threads -> Events \cup {None}]
    /\ \A w \in Consumers : work[w] \in Records \cup {None}
    /\ pos \in [Threads -> Nat \ {0}]
    /\ pc \in [Threads -> {"idle", "begin", "loop", "findType", "insertType", "insert",
                           "push", "mail", "commit", "ack", "done", "failed"}]
    /\ \A t \in Threads : pc[t] \notin {"idle", "failed"} => work[t] \in Events
    /\ \A t \in Threads : pc[t] \in {"push", "mail"} =>
        \E u \in Users : AtUser(t, u, pc[t]) /\ session[t][u] # None
    /\ acked \subseteq Records
    /\ pushed \subseteq Events \X Users \X Threads
    /\ mails \in [Events -> [Users -> Nat]]
    /\ attempts \in [Events -> Nat]
    /\ crashes \in 0..MaxCrashes

\* However often an event is delivered, and however its deliveries interleave
\* between the query and the insert, a user has one row for it.
OneRowPerTarget ==
    \A r, q \in rows : r.event = q.event /\ r.user = q.user => r = q

\* An event is stored for all its targets or for none: a failure at one user,
\* though the loop catches it and goes on, undoes the others.
StoredForAllOrNone ==
    \A r \in rows : \A u \in Receivers(r.event) : RowStored(r.event, u)

\* No row appears whose owner the event was not pushed to.
StoredWasPushed ==
    \A r \in rows : <<r.event, r.user, r.by>> \in pushed

\* A request that was answered with 202 Accepted has stored its event for all
\* targets, whatever else was going on.
AcceptedIsStored ==
    \A r \in Requests : pc[r] = "done" /\ crashes = 0 =>
        \A u \in Receivers(Body[r]) : RowStored(Body[r], u)

\* One delivery of an event mails a user at most once, even if the list names
\* the user twice.  (Two deliveries may both do so.)
OneMailPerDelivery ==
    \A e \in Events : \A u \in Users : mails[e][u] <= attempts[e]

\* Those the consumers get to: neither unreadable nor behind such a record.
Deliverable == {e \in Records : ({e} \cup Ahead[e]) \cap Unreadable = {}}

\* Whatever consume makes of it, a record that reaches it is acknowledged in the
\* end, so that it does not hold up its partition: an invalid event, a row that
\* cannot be stored, a transaction that is rolled back, a restart in between.
\* Only a record that is never deserialized does that.  (A wait for a lock ends:
\* H2's time-out is taken as given.)
EveryRecordIsAcked == \A e \in Deliverable : <>(e \in acked)

\* How many steps a call may have before it: up to six for each place of the
\* list, for the places to come as many again, and the end of the transaction.
Stage == [begin |-> 7, loop |-> 6, findType |-> 5, insertType |-> 4, insert |-> 3,
          push |-> 2, mail |-> 1]

StepsLeft(t) ==
    IF pc[t] \in DOMAIN Stage
    THEN 6 * (Len(UserList(work[t])) + 1 - pos[t]) + Stage[pc[t]]
    ELSE IF pc[t] = "commit" THEN 1 ELSE 0

\* A call never goes round: whatever fails and is caught, each of its steps
\* brings it nearer to its end, and nothing that others do, a restart included,
\* sets it back.  It is over after StepsLeft(t) steps of its own.
CallsAdvance ==
    [][\A t \in Threads : pc[t] \in DOMAIN Stage \cup {"commit"} =>
        /\ StepsLeft(t)' \in 0..StepsLeft(t)
        /\ Step(t) => StepsLeft(t)' # StepsLeft(t)]_vars

\* The table, as readers see it, is the one NotificationStore promises.
Inbox == {<<r.event, r.user>> : r \in rows}

Store == INSTANCE NotificationStore
            WITH Audience <- [e \in Events |-> Receivers(e)], inbox <- Inbox

ImplementsStore == Store!Spec

\* A transaction for event e is running.
Running(e) ==
    \E t \in Threads :
        /\ work[t] = e
        /\ pc[t] \in {"loop", "findType", "insertType", "insert", "push", "mail", "commit"}

\* NotificationProcessingOrchestrator.java:24 "Ensures that saving and dispatch
\* attempts are part of the same transaction context": what was pushed to a
\* user's stream is stored once no transaction for the event is running.
PushedIsStored ==
    crashes = 0 =>
        \A e \in Events : \A u \in Users : \A x \in Threads :
            <<e, u, x>> \in pushed => RowStored(e, u) \/ Running(e)

\* NotificationConsumer.java:30 "DLQ logic": a record that could be stored is not
\* lost when its processing fails.
AckedIsStored ==
    crashes = 0 =>
        \A e \in acked \ (Invalid \cup NoId) :
            (\A u \in Receivers(e) : ~Unstorable(e, u)) =>
                Running(e) \/ \A u \in Receivers(e) : RowStored(e, u)

=============================================================================
