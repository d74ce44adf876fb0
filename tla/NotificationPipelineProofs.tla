--------------------- MODULE NotificationPipelineProofs ---------------------
(* Theorems about NotificationPipeline for any users, events and threads.   *)
EXTENDS NotificationPipeline, TLAPS

\* A thread that is outside a transaction has an empty session and is to start
\* with the first user.
RestPC == {"idle", "begin", "ack", "done", "failed"}
AtRest ==
    \A t \in Threads : pc[t] \in RestPC => session[t] = NoEntities /\ pos[t] = 1

\* A request processes its own body.
OwnBody ==
    \A r \in Requests : pc[r] \notin {"idle", "failed"} => work[r] = Body[r]

\* A session holds entities of users the event is addressed to ...
HeldIsAddressed ==
    \A t \in Threads : \A u \in Users : session[t][u] # None => u \in Receivers(work[t])

\* ... which it has inserted, and then nobody else has or stores that row, ...
NewIsExclusive ==
    \A t \in Threads : \A u \in Users :
        session[t][u] # None /\ session[t][u].state = "new" =>
            /\ session[t][u].by = t
            /\ ~RowStored(work[t], u)
            /\ ~RowHeldByOther(t, u)

\* ... or loaded, and then they are stored.
LoadedIsStored ==
    \A t \in Threads : \A u \in Users :
        session[t][u] # None /\ session[t][u].state # "new" => RowStored(work[t], u)

\* An inserted row is pushed before anything else happens to it.
NewIsPushed ==
    \A t \in Threads : \A u \in Users :
        session[t][u] # None /\ session[t][u].state = "new" =>
            <<work[t], u, t>> \in pushed \/ AtUser(t, u, "push")

\* A transaction that can still commit holds an entity for each user it has
\* passed, and in the end for all of them.
LoopPC == {"loop", "findType", "insertType", "insert", "push", "mail"}
Passed(t) ==
    tx[t] = "active" =>
        /\ pc[t] \in LoopPC =>
            \A i \in DOMAIN UserList(work[t]) : i < pos[t] =>
                \/ UserList(work[t])[i] = Blank
                \/ session[t][UserList(work[t])[i]] # None
        /\ pc[t] = "commit" =>
            \A u \in Receivers(work[t]) : session[t][u] # None
PassedIsHeld == \A t \in Threads : Passed(t)

\* The inductive invariant: what is known of the transactions that run, and
\* what is claimed of the rows they leave behind.
TxInv ==
    /\ AtRest
    /\ OwnBody
    /\ HeldIsAddressed
    /\ NewIsExclusive
    /\ LoadedIsStored
    /\ NewIsPushed
    /\ PassedIsHeld

RowInv ==
    /\ OneRowPerTarget
    /\ StoredForAllOrNone
    /\ StoredWasPushed
    /\ AcceptedIsStored

IInv == TypeOK /\ TxInv /\ RowInv

-----------------------------------------------------------------------------
\* The loop's list holds users and blank ids, and the receivers are its users.
LEMMA UserListType ==
    ASSUME NEW e \in Events
    PROVE /\ UserList(e) \in Seq(Users \cup {Blank})
          /\ Receivers(e) \subseteq Users
          /\ \A i \in DOMAIN UserList(e) :
                UserList(e)[i] # Blank => UserList(e)[i] \in Receivers(e)
<1> USE PipelineAssumption
<1>1. UserList(e) \in Seq(Users \cup {Blank})
  <2>1. CASE Targets[e] = <<All>>
    BY <2>1 DEF UserList
  <2>2. CASE Targets[e] # <<All>>
    <3>1. \A i \in DOMAIN Targets[e] : Targets[e][i] # All
      BY <2>2
    <3>2. QED
      BY <2>2, <3>1 DEF UserList
  <2>3. QED
    BY <2>1, <2>2
<1>2. QED
  BY <1>1 DEF Receivers

\* What a flush leaves as it is.
LEMMA FlushedKeeps ==
    ASSUME NEW s \in [Users -> Entities \cup {None}]
    PROVE /\ Flushed(s) \in [Users -> Entities \cup {None}]
          /\ \A u \in Users :
                /\ Flushed(s)[u] = None <=> s[u] = None
                /\ s[u] # None =>
                    /\ Flushed(s)[u].by = s[u].by
                    /\ Flushed(s)[u].state = "new" <=> s[u].state = "new"
BY NoneAssumption DEF Flushed, Entities

\* What the mail's mark leaves as it is.
LEMMA MarkedKeeps ==
    ASSUME NEW s \in Entities
    PROVE /\ Marked(s) \in Entities
          /\ Marked(s) # None
          /\ Marked(s).by = s.by
          /\ Marked(s).state = "new" <=> s.state = "new"
BY NoneAssumption DEF Marked, Entities

\* What a commit writes are rows.
LEMMA WrittenRows ==
    ASSUME TypeOK, NEW t \in Threads, work[t] \in Events
    PROVE Updated(t) \cup Inserted(t) \subseteq Rows
<1> USE NoneAssumption DEF TypeOK, Rows
<1>1. Inserted(t) \subseteq Rows
  BY DEF Inserted, Entities
<1>2. Updated(t) \subseteq Rows
  <2>1. \A r \in rows : r \in Rows /\ [r EXCEPT !.emailed = TRUE] \in Rows
    OBVIOUS
  <2> HIDE DEF Rows
  <2>2. QED
    BY <2>1 DEF Updated
<1>3. QED
  BY <1>1, <1>2

\* Every step keeps the types.
LEMMA TypeStep ==
    ASSUME TypeOK, Next
    PROVE TypeOK'
<1>0. /\ Body \in [Requests -> Events]
      /\ Consumers \cap Requests = {}
      /\ None \notin Events
      /\ Records \subseteq Events
      /\ SeedTypes \subseteq Types
      /\ TypeOf \in [Events -> Types]
      /\ MaxCrashes \in Nat
  BY PipelineAssumption DEF Records
<1> USE <1>0, NoneAssumption
    DEF TypeOK, Threads, Goto, NextUser, AtUser, CurrentUser, NoEntities,
        dbVars, txVars, outVars
<1>1. ASSUME NEW w \in Consumers, NEW e \in Events, Consume(w, e)
      PROVE TypeOK'
  BY <1>1 DEF Consume, TakeUp
<1>2. ASSUME NEW w \in Consumers, Ack(w)
      PROVE TypeOK'
  <2>1. work[w] \in Records
    BY <1>2 DEF Ack
  <2>2. /\ acked' \subseteq Records
        /\ pc' = [pc EXCEPT ![w] = "idle"] /\ work' = [work EXCEPT ![w] = None]
        /\ UNCHANGED <<dbVars, txVars, pos, outVars, attempts, crashes>>
    BY <1>2, <2>1 DEF Ack
  <2>3. \A t \in Threads : pc'[t] \in {"push", "mail"} =>
          \E u \in Users : AtUser(t, u, pc[t])' /\ session'[t][u] # None
    BY <2>2
  <2>4. QED
    BY <2>2, <2>3
<1>3. ASSUME NEW r \in Requests, Receive(r)
      PROVE TypeOK'
  BY <1>3 DEF Receive, TakeUp
<1>4. ASSUME NEW r \in Requests, RefuseRequest(r)
      PROVE TypeOK'
  BY <1>4 DEF RefuseRequest
<1>5. ASSUME NEW t \in Threads, Start(t)
      PROVE TypeOK'
  BY <1>5 DEF Start
<1>6. ASSUME NEW t \in Threads, StartFails(t)
      PROVE TypeOK'
  BY <1>6 DEF StartFails
<1>7. ASSUME NEW t \in Threads, SkipBlank(t)
      PROVE TypeOK'
  BY <1>7 DEF SkipBlank
<1>8. ASSUME NEW t \in Threads, LeaveLoop(t)
      PROVE TypeOK'
  BY <1>8 DEF LeaveLoop
<1>9. ASSUME NEW t \in Threads, RefuseMissingId(t)
      PROVE TypeOK'
  BY <1>9 DEF RefuseMissingId, CatchAndContinue
<1>10. ASSUME NEW t \in Threads, FindExisting(t)
      PROVE TypeOK'
  <2>1. PICK u \in Users :
          /\ AtUser(t, u, "loop")
          /\ \/ session[t][u] # None /\ Goto(t, "loop", "push")
                /\ session' = [session EXCEPT ![t] = Flushed(session[t])]
             \/ /\ Goto(t, "loop", "push")
                /\ \E r \in rows : session' = [session EXCEPT ![t] = [Flushed(session[t])
                     EXCEPT ![u] = [by |-> r.by, emailed |-> r.emailed, state |-> "loaded"]]]
             \/ Goto(t, "loop", "findType")
                /\ session' = [session EXCEPT ![t] = Flushed(session[t])]
    BY <1>10 DEF FindExisting
  <2>2. UNCHANGED <<dbVars, newType, tx, work, pos, acked, outVars, attempts, crashes>>
    BY <1>10 DEF FindExisting
  <2>3. \A r \in rows : [by |-> r.by, emailed |-> r.emailed, state |-> "loaded"] \in Entities
    BY DEF Rows, Entities
  <2>4. /\ Flushed(session[t]) \in [Users -> Entities \cup {None}]
        /\ session[t][u] # None => Flushed(session[t])[u] # None
    BY FlushedKeeps
  <2>5. \E s \in [Users -> Entities \cup {None}] :
          session' = [session EXCEPT ![t] = s] /\ (pc'[t] = "push" => s[u] # None)
    <3>1. ASSUME session' = [session EXCEPT ![t] = Flushed(session[t])],
                 session[t][u] # None \/ pc'[t] # "push"
          PROVE \E s \in [Users -> Entities \cup {None}] :
                  session' = [session EXCEPT ![t] = s] /\ (pc'[t] = "push" => s[u] # None)
      <4> USE <2>4
      <4>1. WITNESS Flushed(session[t]) \in [Users -> Entities \cup {None}]
      <4>2. QED
        BY <2>4, <3>1
    <3>2. ASSUME NEW r \in rows,
                 session' = [session EXCEPT ![t] = [Flushed(session[t])
                     EXCEPT ![u] = [by |-> r.by, emailed |-> r.emailed, state |-> "loaded"]]]
          PROVE \E s \in [Users -> Entities \cup {None}] :
                  session' = [session EXCEPT ![t] = s] /\ s[u] # None
      <4> DEFINE e == [by |-> r.by, emailed |-> r.emailed, state |-> "loaded"]
      <4>1. e \in Entities /\ e # None
        BY <2>3
      <4> HIDE DEF e
      <4>2. [Flushed(session[t]) EXCEPT ![u] = e] \in [Users -> Entities \cup {None}]
        BY <2>4, <4>1
      <4>3. WITNESS [Flushed(session[t]) EXCEPT ![u] = e] \in [Users -> Entities \cup {None}]
      <4>4. session' = [session EXCEPT ![t] = [Flushed(session[t]) EXCEPT ![u] = e]]
        BY <3>2 DEF e
      <4>5. QED
        BY <2>4, <4>1, <4>4
    <3>3. pc'[t] = "push" \/ pc'[t] = "findType"
      BY <2>1
    <3>4. QED
      BY <2>1, <3>1, <3>2, <3>3
  <2>6. pc' = [pc EXCEPT ![t] = "push"] \/ pc' = [pc EXCEPT ![t] = "findType"]
    BY <2>1
  <2>7. ASSUME NEW x \in Threads, pc'[x] \in {"push", "mail"}
        PROVE \E v \in Users : AtUser(x, v, pc[x])' /\ session'[x][v] # None
    <3>1. CASE x = t
      BY <2>1, <2>2, <2>5, <2>6, <2>7, <3>1
    <3>2. CASE x # t
      BY <2>2, <2>5, <2>6, <2>7, <3>2
    <3>3. QED
      BY <3>1, <3>2
  <2>8. session' \in [Threads -> [Users -> Entities \cup {None}]]
    BY <2>5
  <2>9. \A x \in Threads : pc'[x] \notin {"idle", "failed"} => work'[x] \in Events
    BY <2>1, <2>2, <2>6
  <2>10. QED
    BY <2>2, <2>6, <2>7, <2>8, <2>9
<1>11. ASSUME NEW t \in Threads, FindFails(t)
      PROVE TypeOK'
  <2>1. CASE CatchAndContinue(t, "loop", "broken")
    BY <2>1 DEF CatchAndContinue
  <2>2. CASE CatchAndContinue(t, "loop", "marked")
    BY <2>2 DEF CatchAndContinue
  <2>3. QED
    BY <1>11, <2>1, <2>2 DEF FindFails
<1>12. ASSUME NEW t \in Threads, FindType(t)
      PROVE TypeOK'
  BY <1>12 DEF FindType
<1>13. ASSUME NEW t \in Threads, InsertType(t)
      PROVE TypeOK'
  BY <1>13 DEF InsertType
<1>14. ASSUME NEW t \in Threads, InsertTypeFails(t)
      PROVE TypeOK'
  BY <1>14 DEF InsertTypeFails, CatchAndContinue
<1>15. ASSUME NEW t \in Threads, InsertRow(t)
      PROVE TypeOK'
  <2>1. PICK u \in Users :
          /\ AtUser(t, u, "insert") /\ Goto(t, "insert", "push")
          /\ session' = [session EXCEPT ![t][u] =
                            [by |-> t, emailed |-> FALSE, state |-> "new"]]
          /\ UNCHANGED <<dbVars, newType, tx, work, pos, acked, outVars, attempts, crashes>>
    BY <1>15 DEF InsertRow
  <2>2. [by |-> t, emailed |-> FALSE, state |-> "new"] \in Entities
    BY DEF Entities
  <2>3. session' \in [Threads -> [Users -> Entities \cup {None}]] /\ session'[t][u] # None
    BY <2>1, <2>2
  <2>4. QED
    BY <2>1, <2>3
<1>16. ASSUME NEW t \in Threads, InsertRowFails(t)
      PROVE TypeOK'
  BY <1>16 DEF InsertRowFails, CatchAndContinue
<1>17. ASSUME NEW t \in Threads, Push(t)
      PROVE TypeOK'
  <2>1. PICK u \in Users :
          /\ AtUser(t, u, "push")
          /\ pushed' = pushed \cup {<<work[t], u, session[t][u].by>>}
          /\ (Goto(t, "push", "mail") /\ UNCHANGED pos) \/ NextUser(t, "push")
    BY <1>17 DEF Push
  <2>2. session[t][u].by \in Threads /\ work[t] \in Events
    BY <2>1 DEF Entities
  <2>3. pushed' \subseteq Events \X Users \X Threads
    BY <2>1, <2>2
  <2>4. UNCHANGED <<dbVars, txVars, work, acked, mails, attempts, crashes>>
    BY <1>17 DEF Push
  <2>5. ASSUME NEW x \in Threads, pc'[x] \in {"push", "mail"}
        PROVE \E v \in Users : AtUser(x, v, pc[x])' /\ session'[x][v] # None
    <3>1. CASE x = t
      BY <2>1, <2>4, <2>5, <3>1
    <3>2. CASE x # t
      BY <2>1, <2>4, <2>5, <3>2
    <3>3. QED
      BY <3>1, <3>2
  <2>6. /\ pc' = [pc EXCEPT ![t] = "mail"] \/ pc' = [pc EXCEPT ![t] = "loop"]
        /\ pos' = pos \/ pos' = [pos EXCEPT ![t] = @ + 1]
    BY <2>1
  <2>7. \A x \in Threads : pc'[x] \notin {"idle", "failed"} => work'[x] \in Events
    BY <2>1, <2>4, <2>6
  <2>8. pos' \in [Threads -> Nat \ {0}]
    <3>1. pos \in [Threads -> Nat \ {0}] /\ pos[t] + 1 \in Nat \ {0}
      OBVIOUS
    <3> HIDE DEF TypeOK, Threads
    <3>2. QED
      BY <2>6, <3>1
  <2>9. QED
    BY <2>3, <2>4, <2>5, <2>6, <2>7, <2>8
<1>18. ASSUME NEW t \in Threads, MailAlreadySent(t)
      PROVE TypeOK'
  BY <1>18 DEF MailAlreadySent
<1>19. ASSUME NEW t \in Threads, MailNotSent(t)
      PROVE TypeOK'
  <2>1. PICK u \in Users : AtUser(t, u, "mail") /\ NextUser(t, "mail")
                          /\ session' = [session EXCEPT ![t][u] = Marked(@)]
    BY <1>19 DEF MailNotSent
  <2>2. session' \in [Threads -> [Users -> Entities \cup {None}]]
    BY <2>1, MarkedKeeps
  <2>3. QED
    BY <1>19, <2>1, <2>2 DEF MailNotSent
<1>20. ASSUME NEW t \in Threads, MailSent(t)
      PROVE TypeOK'
  <2>1. PICK u \in Users : AtUser(t, u, "mail") /\ NextUser(t, "mail")
                          /\ session' = [session EXCEPT ![t][u] = Marked(@)]
    BY <1>20 DEF MailSent
  <2>2. session' \in [Threads -> [Users -> Entities \cup {None}]]
    BY <2>1, MarkedKeeps
  <2>3. QED
    BY <1>20, <2>1, <2>2 DEF MailSent
<1>21. ASSUME NEW t \in Threads, MailThrows(t)
      PROVE TypeOK'
  BY <1>21 DEF MailThrows
<1>22. ASSUME NEW t \in Threads, Commit(t)
      PROVE TypeOK'
  <2>1. work[t] \in Events
    BY <1>22 DEF Commit
  <2>2. rows' \subseteq Rows
    BY <1>22, <2>1, WrittenRows DEF Commit
  <2>3. types' \subseteq Types
    BY <1>22, <2>1 DEF Commit
  <2>4. /\ pc' = [pc EXCEPT ![t] = IF t \in Consumers THEN "ack" ELSE "done"]
        /\ UNCHANGED <<work, acked, outVars, attempts, crashes>>
    BY <1>22 DEF Commit
  <2>5. /\ session' = [session EXCEPT ![t] = NoEntities]
        /\ newType' = [newType EXCEPT ![t] = FALSE]
        /\ tx' = [tx EXCEPT ![t] = "active"]
        /\ pos' = [pos EXCEPT ![t] = 1]
    BY <1>22 DEF Commit, EndTx
  <2>6. QED
    BY <2>1, <2>2, <2>3, <2>4, <2>5
<1>23. ASSUME NEW t \in Threads, Rollback(t)
      PROVE TypeOK'
  BY <1>23 DEF Rollback, EndTx
<1>24. CASE Crash
  BY <1>24 DEF Crash
<1>25. QED
  BY <1>1, <1>2, <1>3, <1>4, <1>5, <1>6, <1>7, <1>8, <1>9, <1>10, <1>11, <1>12, <1>13, <1>14, <1>15, <1>16, <1>17, <1>18, <1>19, <1>20, <1>21, <1>22, <1>23, <1>24 DEF Next, Step

-----------------------------------------------------------------------------
\* Threads at rest stay at rest, requests keep their body.
LEMMA RestStep ==
    ASSUME TypeOK, AtRest, OwnBody, Next
    PROVE (AtRest /\ OwnBody)'
<1>0. /\ Body \in [Requests -> Events]
      /\ Consumers \cap Requests = {}
      /\ None \notin Events
      /\ Blank \notin Users
  BY PipelineAssumption
<1> USE <1>0
    DEF TypeOK, AtRest, OwnBody, RestPC, Threads, Goto, NextUser, NoEntities,
        dbVars, txVars, outVars
<1>1. ASSUME NEW w \in Consumers, NEW e \in Events, Consume(w, e)
      PROVE (AtRest /\ OwnBody)'
  BY <1>1 DEF Consume, TakeUp
<1>2. ASSUME NEW w \in Consumers, Ack(w)
      PROVE (AtRest /\ OwnBody)'
  BY <1>2 DEF Ack
<1>3. ASSUME NEW r \in Requests, Receive(r)
      PROVE (AtRest /\ OwnBody)'
  BY <1>3 DEF Receive, TakeUp
<1>4. ASSUME NEW r \in Requests, RefuseRequest(r)
      PROVE (AtRest /\ OwnBody)'
  BY <1>4 DEF RefuseRequest
<1>5. ASSUME NEW t \in Threads, Start(t)
      PROVE (AtRest /\ OwnBody)'
  BY <1>5 DEF Start
<1>6. ASSUME NEW t \in Threads, StartFails(t)
      PROVE (AtRest /\ OwnBody)'
  BY <1>6 DEF StartFails
<1>7. ASSUME NEW t \in Threads, SkipBlank(t)
      PROVE (AtRest /\ OwnBody)'
  BY <1>7 DEF SkipBlank
<1>8. ASSUME NEW t \in Threads, LeaveLoop(t)
      PROVE (AtRest /\ OwnBody)'
  BY <1>8 DEF LeaveLoop
<1>9. ASSUME NEW t \in Threads, RefuseMissingId(t)
      PROVE (AtRest /\ OwnBody)'
  BY <1>9 DEF RefuseMissingId, CatchAndContinue
<1>10. ASSUME NEW t \in Threads, FindExisting(t)
      PROVE (AtRest /\ OwnBody)'
  <2>1. /\ pc[t] = "loop" /\ pc'[t] \in {"push", "findType"}
        /\ UNCHANGED <<work, pos>>
        /\ \A x \in Threads \ {t} : pc'[x] = pc[x] /\ session'[x] = session[x]
    BY <1>10 DEF FindExisting
  <2>2. QED
    BY <2>1
<1>11. ASSUME NEW t \in Threads, FindFails(t)
      PROVE (AtRest /\ OwnBody)'
  BY <1>11 DEF FindFails, CatchAndContinue
<1>12. ASSUME NEW t \in Threads, FindType(t)
      PROVE (AtRest /\ OwnBody)'
  BY <1>12 DEF FindType
<1>13. ASSUME NEW t \in Threads, InsertType(t)
      PROVE (AtRest /\ OwnBody)'
  BY <1>13 DEF InsertType
<1>14. ASSUME NEW t \in Threads, InsertTypeFails(t)
      PROVE (AtRest /\ OwnBody)'
  BY <1>14 DEF InsertTypeFails, CatchAndContinue
<1>15. ASSUME NEW t \in Threads, InsertRow(t)
      PROVE (AtRest /\ OwnBody)'
  BY <1>15 DEF InsertRow
<1>16. ASSUME NEW t \in Threads, InsertRowFails(t)
      PROVE (AtRest /\ OwnBody)'
  BY <1>16 DEF InsertRowFails, CatchAndContinue
<1>17. ASSUME NEW t \in Threads, Push(t)
      PROVE (AtRest /\ OwnBody)'
  BY <1>17 DEF Push
<1>18. ASSUME NEW t \in Threads, MailAlreadySent(t)
      PROVE (AtRest /\ OwnBody)'
  BY <1>18 DEF MailAlreadySent
<1>19. ASSUME NEW t \in Threads, MailNotSent(t)
      PROVE (AtRest /\ OwnBody)'
  BY <1>19 DEF MailNotSent
<1>20. ASSUME NEW t \in Threads, MailSent(t)
      PROVE (AtRest /\ OwnBody)'
  BY <1>20 DEF MailSent
<1>21. ASSUME NEW t \in Threads, MailThrows(t)
      PROVE (AtRest /\ OwnBody)'
  BY <1>21 DEF MailThrows
<1>22. ASSUME NEW t \in Threads, Commit(t)
      PROVE (AtRest /\ OwnBody)'
  BY <1>22 DEF Commit, EndTx
<1>23. ASSUME NEW t \in Threads, Rollback(t)
      PROVE (AtRest /\ OwnBody)'
  BY <1>23 DEF Rollback, EndTx
<1>24. CASE Crash
  BY <1>24 DEF Crash
<1>25. QED
  BY <1>1, <1>2, <1>3, <1>4, <1>5, <1>6, <1>7, <1>8, <1>9, <1>10, <1>11,
     <1>12, <1>13, <1>14, <1>15, <1>16, <1>17, <1>18, <1>19, <1>20, <1>21, <1>22, <1>23, <1>24 DEF Next, Step

\* What a query and a mail leave of a session: every entity is still there,
\* still new or still not; a query may add one for a row that is stored.
Keeps(t) ==
    /\ \A x \in Threads \ {t} : session'[x] = session[x]
    /\ \A u \in Users : session[t][u] # None =>
        /\ session'[t][u] # None
        /\ session'[t][u].by = session[t][u].by
        /\ session'[t][u].state = "new" <=> session[t][u].state = "new"
    /\ \A u \in Users : session[t][u] = None /\ session'[t][u] # None =>
        /\ AtUser(t, u, "loop")
        /\ RowStored(work[t], u)
        /\ session'[t][u].state = "loaded"

\* FindExisting keeps the thread's entities.
LEMMA QueryKeeps ==
    ASSUME TypeOK, NEW t \in Threads, FindExisting(t)
    PROVE Keeps(t)
<1> USE NoneAssumption DEF TypeOK
<1> DEFINE F == Flushed(session[t])
<1>1. PICK u \in Users :
        /\ AtUser(t, u, "loop")
        /\ \/ session' = [session EXCEPT ![t] = F]
           \/ /\ session[t][u] = None
              /\ \E r \in rows :
                  /\ r.event = work[t] /\ r.user = u
                  /\ session' = [session EXCEPT ![t] = [F EXCEPT ![u] =
                        [by |-> r.by, emailed |-> r.emailed, state |-> "loaded"]]]
  BY DEF FindExisting
<1>2. /\ F \in [Users -> Entities \cup {None}]
      /\ \A v \in Users :
            /\ F[v] = None <=> session[t][v] = None
            /\ session[t][v] # None =>
                /\ F[v].by = session[t][v].by
                /\ F[v].state = "new" <=> session[t][v].state = "new"
  BY FlushedKeeps
<1> HIDE DEF F
<1>3. CASE session' = [session EXCEPT ![t] = F]
  BY <1>2, <1>3 DEF Keeps
<1>4. ASSUME session[t][u] = None, NEW r \in rows, r.event = work[t], r.user = u,
             session' = [session EXCEPT ![t] = [F EXCEPT ![u] =
                        [by |-> r.by, emailed |-> r.emailed, state |-> "loaded"]]]
      PROVE Keeps(t)
  BY <1>1, <1>2, <1>4 DEF Keeps, RowStored
<1>5. QED
  BY <1>1, <1>3, <1>4

\* So does a mail.
LEMMA MailKeeps ==
    ASSUME TypeOK, NEW t \in Threads, MailNotSent(t) \/ MailSent(t)
    PROVE Keeps(t)
<1> USE NoneAssumption DEF TypeOK
<1>1. PICK u \in Users : /\ AtUser(t, u, "mail")
                         /\ session' = [session EXCEPT ![t][u] = Marked(@)]
  BY DEF MailNotSent, MailSent
<1>2. session[t][u] \in Entities
  BY <1>1 DEF AtUser
<1>3. /\ Marked(session[t][u]) # None
      /\ Marked(session[t][u]).by = session[t][u].by
      /\ Marked(session[t][u]).state = "new" <=> session[t][u].state = "new"
  BY <1>2, MarkedKeeps
<1>4. QED
  BY <1>1, <1>2, <1>3 DEF Keeps

\* What a commit stores: the rows that were there, and the inserted ones.
LEMMA CommitStores ==
    ASSUME TypeOK, NEW t \in Threads, Commit(t)
    PROVE \A e \in Events : \A u \in Users :
            RowStored(e, u)' <=>
                \/ RowStored(e, u)
                \/ e = work[t] /\ session[t][u] # None /\ session[t][u].state = "new"
<1> USE DEF TypeOK, Rows
<1>1. rows' = Updated(t) \cup Inserted(t)
  BY DEF Commit
<1>2. \A e \in Events : \A u \in Users :
        (\E r \in Updated(t) : r.event = e /\ r.user = u) <=> RowStored(e, u)
  <2> DEFINE up(r) == IF /\ r.event = work[t]
                         /\ session[t][r.user] # None
                         /\ session[t][r.user].state \in {"dirty", "flushed"}
                      THEN [r EXCEPT !.emailed = TRUE] ELSE r
  <2>1. \A r \in rows : up(r).event = r.event /\ up(r).user = r.user
    OBVIOUS
  <2>2. Updated(t) = {up(r) : r \in rows}
    BY DEF Updated
  <2>3. ASSUME NEW e \in Events, NEW u \in Users,
               \E r \in Updated(t) : r.event = e /\ r.user = u
        PROVE RowStored(e, u)
    <3> HIDE DEF up
    <3>1. PICK r \in rows : up(r).event = e /\ up(r).user = u
      BY <2>2, <2>3
    <3>2. QED
      BY <2>1, <3>1 DEF RowStored
  <2>4. ASSUME NEW e \in Events, NEW u \in Users, RowStored(e, u)
        PROVE \E r \in Updated(t) : r.event = e /\ r.user = u
    <3> HIDE DEF up
    <3>1. PICK r \in rows : r.event = e /\ r.user = u
      BY <2>4 DEF RowStored
    <3>2. up(r) \in Updated(t)
      BY <2>2
    <3>3. QED
      BY <2>1, <3>1, <3>2
  <2> HIDE DEF TypeOK, Rows, up
  <2>5. QED
    BY <2>3, <2>4
<1>3. \A e \in Events : \A u \in Users :
        (\E r \in Inserted(t) : r.event = e /\ r.user = u)
        <=> e = work[t] /\ session[t][u] # None /\ session[t][u].state = "new"
  <2> DEFINE row(u) == [event |-> work[t], user |-> u, by |-> t,
                        emailed |-> session[t][u].emailed]
             New == {v \in Users : session[t][v] # None /\ session[t][v].state = "new"}
  <2>1. \A u : row(u).event = work[t] /\ row(u).user = u
    OBVIOUS
  <2>2. Inserted(t) = {row(u) : u \in New}
    BY DEF Inserted
  <2> HIDE DEF row
  <2>3. ASSUME NEW e \in Events, NEW u \in Users,
               \E r \in Inserted(t) : r.event = e /\ r.user = u
        PROVE e = work[t] /\ session[t][u] # None /\ session[t][u].state = "new"
    <3>1. PICK v \in New : row(v).event = e /\ row(v).user = u
      BY <2>2, <2>3
    <3>2. QED
      BY <2>1, <3>1
  <2>4. ASSUME NEW u \in Users, session[t][u] # None, session[t][u].state = "new"
        PROVE \E r \in Inserted(t) : r.event = work[t] /\ r.user = u
    <3>1. row(u) \in Inserted(t)
      BY <2>2, <2>4
    <3>2. QED
      BY <2>1, <3>1
  <2> HIDE DEF TypeOK, Rows, New
  <2>5. QED
    BY <2>3, <2>4
<1> HIDE DEF TypeOK, Rows
<1>4. QED
  BY <1>1, <1>2, <1>3 DEF RowStored

\* Entities that were not there or not new do not become new.
LEMMA KeepsSessions ==
    ASSUME TypeOK, HeldIsAddressed, NewIsExclusive, LoadedIsStored,
           NEW t \in Threads, Keeps(t), UNCHANGED <<rows, work>>
    PROVE (HeldIsAddressed /\ NewIsExclusive /\ LoadedIsStored)'
<1> USE DEF TypeOK, Keeps
<1>1. HeldIsAddressed'
  <2>1. \A u \in Users : AtUser(t, u, "loop") => u \in Receivers(work[t])
    <3>1. Blank \notin Users
      BY PipelineAssumption
    <3>2. pc[t] = "loop" => work[t] \in Events
      OBVIOUS
    <3>3. QED
      BY <3>1, <3>2, UserListType DEF AtUser, CurrentUser
  <2>2. QED
    BY <2>1 DEF HeldIsAddressed
<1>2. NewIsExclusive'
  <2>1. \A x \in Threads : \A u \in Users :
          session'[x][u] # None /\ session'[x][u].state = "new" =>
            session[x][u] # None /\ session[x][u].state = "new"
            /\ session'[x][u].by = session[x][u].by
    OBVIOUS
  <2>2. QED
    BY <2>1 DEF NewIsExclusive, RowStored, RowHeldByOther
<1>3. LoadedIsStored'
  <2>1. \A x \in Threads : \A u \in Users :
          session'[x][u] # None /\ session'[x][u].state # "new" =>
            \/ session[x][u] # None /\ session[x][u].state # "new"
            \/ RowStored(work[x], u)
    OBVIOUS
  <2>2. QED
    BY <2>1 DEF LoadedIsStored, RowStored
<1>4. QED
  BY <1>1, <1>2, <1>3

\* Every step leaves sessions and rows in agreement: what is new is nobody else's,
\* what is loaded is stored.
LEMMA SessionStep ==
    ASSUME TypeOK, AtRest, HeldIsAddressed, NewIsExclusive, LoadedIsStored, Next
    PROVE (HeldIsAddressed /\ NewIsExclusive /\ LoadedIsStored)'
<1>0. /\ Body \in [Requests -> Events]
      /\ Consumers \cap Requests = {}
      /\ None \notin Events
      /\ Blank \notin Users
  BY PipelineAssumption
<1> USE <1>0
    DEF TypeOK, AtRest, RestPC, HeldIsAddressed, NewIsExclusive, LoadedIsStored,
        RowStored, RowHeldByOther, Threads, Goto, NextUser, NoEntities,
        dbVars, txVars, outVars
<1>1. ASSUME NEW w \in Consumers, NEW e \in Events, Consume(w, e)
      PROVE (HeldIsAddressed /\ NewIsExclusive /\ LoadedIsStored)'
  BY <1>1 DEF Consume, TakeUp
<1>2. ASSUME NEW w \in Consumers, Ack(w)
      PROVE (HeldIsAddressed /\ NewIsExclusive /\ LoadedIsStored)'
  BY <1>2 DEF Ack
<1>3. ASSUME NEW r \in Requests, Receive(r)
      PROVE (HeldIsAddressed /\ NewIsExclusive /\ LoadedIsStored)'
  BY <1>3 DEF Receive, TakeUp
<1>4. ASSUME NEW r \in Requests, RefuseRequest(r)
      PROVE (HeldIsAddressed /\ NewIsExclusive /\ LoadedIsStored)'
  BY <1>4 DEF RefuseRequest
<1>5. ASSUME NEW t \in Threads, Start(t)
      PROVE (HeldIsAddressed /\ NewIsExclusive /\ LoadedIsStored)'
  BY <1>5 DEF Start
<1>6. ASSUME NEW t \in Threads, StartFails(t)
      PROVE (HeldIsAddressed /\ NewIsExclusive /\ LoadedIsStored)'
  BY <1>6 DEF StartFails
<1>7. ASSUME NEW t \in Threads, SkipBlank(t)
      PROVE (HeldIsAddressed /\ NewIsExclusive /\ LoadedIsStored)'
  BY <1>7 DEF SkipBlank
<1>8. ASSUME NEW t \in Threads, LeaveLoop(t)
      PROVE (HeldIsAddressed /\ NewIsExclusive /\ LoadedIsStored)'
  BY <1>8 DEF LeaveLoop
<1>9. ASSUME NEW t \in Threads, RefuseMissingId(t)
      PROVE (HeldIsAddressed /\ NewIsExclusive /\ LoadedIsStored)'
  BY <1>9 DEF RefuseMissingId, CatchAndContinue
<1>10. ASSUME NEW t \in Threads, FindExisting(t)
      PROVE (HeldIsAddressed /\ NewIsExclusive /\ LoadedIsStored)'
  BY <1>10, QueryKeeps, KeepsSessions DEF FindExisting
<1>11. ASSUME NEW t \in Threads, FindFails(t)
      PROVE (HeldIsAddressed /\ NewIsExclusive /\ LoadedIsStored)'
  BY <1>11 DEF FindFails, CatchAndContinue
<1>12. ASSUME NEW t \in Threads, FindType(t)
      PROVE (HeldIsAddressed /\ NewIsExclusive /\ LoadedIsStored)'
  BY <1>12 DEF FindType
<1>13. ASSUME NEW t \in Threads, InsertType(t)
      PROVE (HeldIsAddressed /\ NewIsExclusive /\ LoadedIsStored)'
  BY <1>13 DEF InsertType
<1>14. ASSUME NEW t \in Threads, InsertTypeFails(t)
      PROVE (HeldIsAddressed /\ NewIsExclusive /\ LoadedIsStored)'
  BY <1>14 DEF InsertTypeFails, CatchAndContinue
<1>15. ASSUME NEW t \in Threads, InsertRow(t)
      PROVE (HeldIsAddressed /\ NewIsExclusive /\ LoadedIsStored)'
  <2>1. PICK u \in Users :
          /\ AtUser(t, u, "insert")
          /\ ~RowStored(work[t], u) /\ ~RowHeldByOther(t, u)
          /\ session' = [session EXCEPT ![t][u] =
                            [by |-> t, emailed |-> FALSE, state |-> "new"]]
    BY <1>15 DEF InsertRow
  <2>2. u \in Receivers(work[t])
    BY <2>1, PipelineAssumption, UserListType DEF AtUser, CurrentUser
  <2>3. UNCHANGED <<rows, work>>
    BY <1>15 DEF InsertRow
  <2>4. HeldIsAddressed'
    BY <2>1, <2>2, <2>3
  <2>5. NewIsExclusive'
    BY <2>1, <2>3
  <2>6. LoadedIsStored'
    BY <2>1, <2>3
  <2>7. QED
    BY <2>4, <2>5, <2>6
<1>16. ASSUME NEW t \in Threads, InsertRowFails(t)
      PROVE (HeldIsAddressed /\ NewIsExclusive /\ LoadedIsStored)'
  BY <1>16 DEF InsertRowFails, CatchAndContinue
<1>17. ASSUME NEW t \in Threads, Push(t)
      PROVE (HeldIsAddressed /\ NewIsExclusive /\ LoadedIsStored)'
  BY <1>17 DEF Push
<1>18. ASSUME NEW t \in Threads, MailAlreadySent(t)
      PROVE (HeldIsAddressed /\ NewIsExclusive /\ LoadedIsStored)'
  BY <1>18 DEF MailAlreadySent
<1>19. ASSUME NEW t \in Threads, MailNotSent(t)
      PROVE (HeldIsAddressed /\ NewIsExclusive /\ LoadedIsStored)'
  BY <1>19, MailKeeps, KeepsSessions DEF MailNotSent
<1>20. ASSUME NEW t \in Threads, MailSent(t)
      PROVE (HeldIsAddressed /\ NewIsExclusive /\ LoadedIsStored)'
  BY <1>20, MailKeeps, KeepsSessions DEF MailSent
<1>21. ASSUME NEW t \in Threads, MailThrows(t)
      PROVE (HeldIsAddressed /\ NewIsExclusive /\ LoadedIsStored)'
  BY <1>21 DEF MailThrows
<1>22. ASSUME NEW t \in Threads, Commit(t)
      PROVE (HeldIsAddressed /\ NewIsExclusive /\ LoadedIsStored)'
  <2>1. work' = work /\ session' = [session EXCEPT ![t] = NoEntities]
    BY <1>22 DEF Commit, EndTx
  <2>2. HeldIsAddressed'
    BY <2>1
  <2>3. \A e \in Events : \A u \in Users :
          RowStored(e, u)' <=>
            \/ RowStored(e, u)
            \/ e = work[t] /\ session[t][u] # None /\ session[t][u].state = "new"
    BY <1>22, CommitStores
  <2>4. \A x \in Threads : \A u \in Users :
          session'[x][u] # None => x # t /\ session'[x] = session[x] /\ work[x] \in Events
    BY <2>1
  <2> HIDE DEF RowStored
  <2>5. NewIsExclusive'
    BY <2>1, <2>3, <2>4
  <2>6. LoadedIsStored'
    BY <2>1, <2>3, <2>4
  <2>7. QED
    BY <2>2, <2>5, <2>6
<1>23. ASSUME NEW t \in Threads, Rollback(t)
      PROVE (HeldIsAddressed /\ NewIsExclusive /\ LoadedIsStored)'
  BY <1>23 DEF Rollback, EndTx
<1>24. CASE Crash
  BY <1>24 DEF Crash
<1>25. QED
  BY <1>1, <1>2, <1>3, <1>4, <1>5, <1>6, <1>7, <1>8, <1>9, <1>10, <1>11,
     <1>12, <1>13, <1>14, <1>15, <1>16, <1>17, <1>18, <1>19, <1>20, <1>21, <1>22, <1>23, <1>24 DEF Next, Step

\* Every step leaves each inserted row pushed, or about to be.
LEMMA PushedStep ==
    ASSUME TypeOK, AtRest, NewIsExclusive, NewIsPushed, Next
    PROVE NewIsPushed'
<1>0. /\ Body \in [Requests -> Events]
      /\ Consumers \cap Requests = {}
      /\ None \notin Events
      /\ Blank \notin Users
  BY PipelineAssumption
<1> USE <1>0
    DEF TypeOK, AtRest, RestPC, NewIsPushed, AtUser, CurrentUser, Threads, Goto, NextUser,
        NoEntities, dbVars, txVars, outVars
<1>1. ASSUME NEW w \in Consumers, NEW e \in Events, Consume(w, e)
      PROVE NewIsPushed'
  BY <1>1 DEF Consume, TakeUp
<1>2. ASSUME NEW w \in Consumers, Ack(w)
      PROVE NewIsPushed'
  BY <1>2 DEF Ack
<1>3. ASSUME NEW r \in Requests, Receive(r)
      PROVE NewIsPushed'
  BY <1>3 DEF Receive, TakeUp
<1>4. ASSUME NEW r \in Requests, RefuseRequest(r)
      PROVE NewIsPushed'
  BY <1>4 DEF RefuseRequest
<1>5. ASSUME NEW t \in Threads, Start(t)
      PROVE NewIsPushed'
  BY <1>5 DEF Start
<1>6. ASSUME NEW t \in Threads, StartFails(t)
      PROVE NewIsPushed'
  BY <1>6 DEF StartFails
<1>7. ASSUME NEW t \in Threads, SkipBlank(t)
      PROVE NewIsPushed'
  BY <1>7 DEF SkipBlank
<1>8. ASSUME NEW t \in Threads, LeaveLoop(t)
      PROVE NewIsPushed'
  BY <1>8 DEF LeaveLoop
<1>9. ASSUME NEW t \in Threads, RefuseMissingId(t)
      PROVE NewIsPushed'
  BY <1>9 DEF RefuseMissingId, CatchAndContinue
<1>10. ASSUME NEW t \in Threads, FindExisting(t)
      PROVE NewIsPushed'
  <2>1. Keeps(t)
    BY <1>10, QueryKeeps
  <2>2. pc[t] = "loop" /\ UNCHANGED <<work, pos, pushed>>
        /\ \A x \in Threads \ {t} : pc'[x] = pc[x]
    BY <1>10 DEF FindExisting
  <2>3. \A x \in Threads : \A u \in Users :
          session'[x][u] # None /\ session'[x][u].state = "new" =>
            session[x][u] # None /\ session[x][u].state = "new"
    BY <2>1 DEF Keeps
  <2>4. \A x \in Threads : \A u \in Users :
          AtUser(x, u, "push") => AtUser(x, u, "push")'
    BY <2>2
  <2> HIDE DEF AtUser, TypeOK, AtRest
  <2>5. QED
    BY <2>2, <2>3, <2>4
<1>11. ASSUME NEW t \in Threads, FindFails(t)
      PROVE NewIsPushed'
  <2>1. CASE CatchAndContinue(t, "loop", "broken")
    BY <2>1 DEF CatchAndContinue
  <2>2. CASE CatchAndContinue(t, "loop", "marked")
    BY <2>2 DEF CatchAndContinue
  <2>3. QED
    BY <1>11, <2>1, <2>2 DEF FindFails
<1>12. ASSUME NEW t \in Threads, FindType(t)
      PROVE NewIsPushed'
  BY <1>12 DEF FindType
<1>13. ASSUME NEW t \in Threads, InsertType(t)
      PROVE NewIsPushed'
  BY <1>13 DEF InsertType
<1>14. ASSUME NEW t \in Threads, InsertTypeFails(t)
      PROVE NewIsPushed'
  BY <1>14 DEF InsertTypeFails, CatchAndContinue
<1>15. ASSUME NEW t \in Threads, InsertRow(t)
      PROVE NewIsPushed'
  BY <1>15 DEF InsertRow
<1>16. ASSUME NEW t \in Threads, InsertRowFails(t)
      PROVE NewIsPushed'
  BY <1>16 DEF InsertRowFails, CatchAndContinue
<1>17. ASSUME NEW t \in Threads, Push(t)
      PROVE NewIsPushed'
  <2>1. PICK u \in Users :
          AtUser(t, u, "push") /\ pushed' = pushed \cup {<<work[t], u, session[t][u].by>>}
    BY <1>17 DEF Push
  <2>2. UNCHANGED <<session, work>> /\ \A x \in Threads \ {t} : UNCHANGED <<pc[x], pos[x]>>
    BY <1>17 DEF Push
  <2>3. session[t][u] # None /\ session[t][u].state = "new" => session[t][u].by = t
    BY DEF NewIsExclusive
  <2>4. \A v \in Users : AtUser(t, v, "push") => v = u
    BY <2>1
  <2>5. QED
    BY <2>1, <2>2, <2>3, <2>4
<1>18. ASSUME NEW t \in Threads, MailAlreadySent(t)
      PROVE NewIsPushed'
  BY <1>18 DEF MailAlreadySent
<1>19. ASSUME NEW t \in Threads, MailNotSent(t)
      PROVE NewIsPushed'
  <2>1. Keeps(t)
    BY <1>19, MailKeeps
  <2>2. QED
    BY <1>19, <2>1 DEF MailNotSent, Keeps
<1>20. ASSUME NEW t \in Threads, MailSent(t)
      PROVE NewIsPushed'
  <2>1. Keeps(t)
    BY <1>20, MailKeeps
  <2>2. QED
    BY <1>20, <2>1 DEF MailSent, Keeps
<1>21. ASSUME NEW t \in Threads, MailThrows(t)
      PROVE NewIsPushed'
  BY <1>21 DEF MailThrows
<1>22. ASSUME NEW t \in Threads, Commit(t)
      PROVE NewIsPushed'
  BY <1>22 DEF Commit, EndTx
<1>23. ASSUME NEW t \in Threads, Rollback(t)
      PROVE NewIsPushed'
  BY <1>23 DEF Rollback, EndTx
<1>24. CASE Crash
  BY <1>24 DEF Crash
<1>25. QED
  BY <1>1, <1>2, <1>3, <1>4, <1>5, <1>6, <1>7, <1>8, <1>9, <1>10, <1>11,
     <1>12, <1>13, <1>14, <1>15, <1>16, <1>17, <1>18, <1>19, <1>20, <1>21, <1>22, <1>23, <1>24 DEF Next, Step

\* The places of the loop's list are 1 to its length.
LEMMA ListPlaces ==
    ASSUME NEW e \in Events
    PROVE /\ DOMAIN UserList(e) \subseteq Nat \ {0}
          /\ \A n \in Nat \ {0} : n \notin DOMAIN UserList(e) =>
                \A i \in DOMAIN UserList(e) : i < n
BY UserListType

\* A thread that goes on to the next user holds an entity for the one it leaves.
LEMMA PassedNext ==
    ASSUME TypeOK, NEW t \in Threads, Passed(t),
           NEW u \in Users \cup {Blank}, NEW at \in LoopPC,
           AtUser(t, u, at), NextUser(t, at),
           work'[t] = work[t], tx'[t] = tx[t],
           u # Blank => session[t][u] # None,
           \A v \in Users : session[t][v] # None => session'[t][v] # None
    PROVE Passed(t)'
<1> USE DEF TypeOK, AtUser, CurrentUser, NextUser, Goto
<1>1. work[t] \in Events /\ pc[t] \in LoopPC
  BY DEF LoopPC
<1>2. pc'[t] = "loop" /\ pos'[t] = pos[t] + 1 /\ pos[t] \in Nat
  OBVIOUS
<1>3. \A i \in DOMAIN UserList(work[t]) :
        UserList(work[t])[i] = Blank \/ UserList(work[t])[i] \in Users
  BY <1>1, UserListType
<1>4. \A i \in DOMAIN UserList(work[t]) : i < pos[t] + 1 => i < pos[t] \/ i = pos[t]
  <2>1. SUFFICES ASSUME NEW i \in DOMAIN UserList(work[t]), i < pos[t] + 1
                 PROVE i < pos[t] \/ i = pos[t]
    OBVIOUS
  <2>2. i \in Nat
    BY <1>1, ListPlaces
  <2>3. \A m, n \in Nat : m < n + 1 => m < n \/ m = n
    OBVIOUS
  <2>4. QED
    BY <1>2, <2>1, <2>2, <2>3
<1>5. ASSUME tx[t] = "active", NEW i \in DOMAIN UserList(work[t]), i < pos[t] + 1
      PROVE UserList(work[t])[i] = Blank \/ session'[t][UserList(work[t])[i]] # None
  <2>1. UserList(work[t])[i] = Blank \/ session[t][UserList(work[t])[i]] # None
    BY <1>1, <1>4, <1>5 DEF Passed
  <2>2. QED
    BY <1>3, <2>1
<1>6. UserList(work[t])' = UserList(work[t])
  BY DEF UserList
<1>7. QED
  BY <1>2, <1>5, <1>6 DEF Passed

\* The others are where they were.
OthersStay(t) ==
    \A x \in Threads \ {t} :
        /\ tx'[x] = tx[x] /\ pc'[x] = pc[x] /\ pos'[x] = pos[x]
        /\ work'[x] = work[x] /\ session'[x] = session[x]

\* Then only the thread that moved has to be looked at.
LEMMA PassedBy ==
    ASSUME PassedIsHeld, NEW t \in Threads, Passed(t)', OthersStay(t)
    PROVE PassedIsHeld'
<1>1. ASSUME NEW x \in Threads, x # t
      PROVE Passed(x)'
  <2>1. Passed(x)
    BY DEF PassedIsHeld
  <2>2. /\ UserList(work[x])' = UserList(work[x])
        /\ Receivers(work[x])' = Receivers(work[x])
    BY <1>1 DEF OthersStay, UserList, Receivers
  <2>3. QED
    BY <1>1, <2>1, <2>2 DEF OthersStay, Passed
<1>2. QED
  BY <1>1 DEF PassedIsHeld

\* Every step leaves a transaction that can commit with all it has passed.
LEMMA PassedStep ==
    ASSUME TypeOK, AtRest, PassedIsHeld, Next
    PROVE PassedIsHeld'
<1>0. /\ Body \in [Requests -> Events]
      /\ Consumers \cap Requests = {}
      /\ None \notin Events
      /\ Blank \notin Users
  BY PipelineAssumption
<1> USE <1>0
    DEF TypeOK, AtRest, RestPC, PassedIsHeld, Passed, LoopPC, Threads, Goto, NextUser,
        NoEntities, dbVars, txVars, outVars
<1>1. ASSUME NEW w \in Consumers, NEW e \in Events, Consume(w, e)
      PROVE PassedIsHeld'
  BY <1>1 DEF Consume, TakeUp
<1>2. ASSUME NEW w \in Consumers, Ack(w)
      PROVE PassedIsHeld'
  BY <1>2 DEF Ack
<1>3. ASSUME NEW r \in Requests, Receive(r)
      PROVE PassedIsHeld'
  BY <1>3 DEF Receive, TakeUp
<1>4. ASSUME NEW r \in Requests, RefuseRequest(r)
      PROVE PassedIsHeld'
  BY <1>4 DEF RefuseRequest
<1>5. ASSUME NEW t \in Threads, Start(t)
      PROVE PassedIsHeld'
  <2>0. OthersStay(t)
    BY <1>5 DEF Start, OthersStay
  <2>1. CASE Targets[work[t]] # <<>>
    <3>1. pc'[t] = "loop" /\ pos'[t] = 1 /\ work'[t] \in Events
      BY <1>5, <2>1 DEF Start
    <3>2. \A i \in DOMAIN UserList(work[t])' : ~(i < 1)
      BY <3>1, ListPlaces
    <3>3. Passed(t)'
      BY <3>1, <3>2
    <3>4. QED
      BY <2>0, <3>3, PassedBy
  <2>2. CASE Targets[work[t]] = <<>>
    <3>1. pc'[t] = "commit" /\ Receivers(work[t])' = {}
      BY <1>5, <2>2 DEF Start, Receivers, UserList
    <3>2. Passed(t)'
      BY <3>1
    <3>3. QED
      BY <2>0, <3>2, PassedBy
  <2>3. QED
    BY <2>1, <2>2
<1>6. ASSUME NEW t \in Threads, StartFails(t)
      PROVE PassedIsHeld'
  BY <1>6 DEF StartFails
<1>7. ASSUME NEW t \in Threads, SkipBlank(t)
      PROVE PassedIsHeld'
  <2>1. /\ AtUser(t, Blank, "loop") /\ NextUser(t, "loop")
        /\ UNCHANGED <<work, tx, session>>
    BY <1>7 DEF SkipBlank
  <2>2. Passed(t)'
    BY <2>1, PassedNext
  <2>3. OthersStay(t)
    BY <2>1 DEF OthersStay
  <2>4. QED
    BY <2>2, <2>3, PassedBy
<1>8. ASSUME NEW t \in Threads, LeaveLoop(t)
      PROVE PassedIsHeld'
  <2>1. \A i \in DOMAIN UserList(work[t]) : i < pos[t]
    BY <1>8, ListPlaces DEF LeaveLoop
  <2>2. tx[t] = "active" => \A u \in Receivers(work[t]) : session[t][u] # None
    BY <1>8, <2>1 DEF LeaveLoop, Receivers
  <2>3. Passed(t)'
    BY <1>8, <2>2 DEF LeaveLoop, Receivers, UserList
  <2>4. OthersStay(t)
    BY <1>8 DEF LeaveLoop, OthersStay
  <2>5. QED
    BY <2>3, <2>4, PassedBy
<1>9. ASSUME NEW t \in Threads, RefuseMissingId(t)
      PROVE PassedIsHeld'
  BY <1>9 DEF RefuseMissingId, CatchAndContinue
<1>10. ASSUME NEW t \in Threads, FindExisting(t)
      PROVE PassedIsHeld'
  <2>1. Keeps(t)
    BY <1>10, QueryKeeps
  <2>2. /\ pc[t] = "loop" /\ pc'[t] \in LoopPC
        /\ UNCHANGED <<work, pos, tx>>
        /\ \A x \in Threads \ {t} : pc'[x] = pc[x]
    BY <1>10 DEF FindExisting
  <2>3. \A i \in DOMAIN UserList(work[t]) :
          UserList(work[t])[i] = Blank \/ UserList(work[t])[i] \in Users
    BY <2>2, UserListType
  <2>4. \A v \in Users : session[t][v] # None => session'[t][v] # None
    BY <2>1 DEF Keeps
  <2>5. Passed(t)'
    BY <2>2, <2>3, <2>4
  <2>6. OthersStay(t)
    BY <1>10, <2>1 DEF FindExisting, Keeps, OthersStay
  <2>7. QED
    BY <2>5, <2>6, PassedBy
<1>11. ASSUME NEW t \in Threads, FindFails(t)
      PROVE PassedIsHeld'
  <2>1. CASE CatchAndContinue(t, "loop", "broken")
    BY <2>1 DEF CatchAndContinue
  <2>2. CASE CatchAndContinue(t, "loop", "marked")
    BY <2>2 DEF CatchAndContinue
  <2>3. QED
    BY <1>11, <2>1, <2>2 DEF FindFails
<1>12. ASSUME NEW t \in Threads, FindType(t)
      PROVE PassedIsHeld'
  BY <1>12 DEF FindType
<1>13. ASSUME NEW t \in Threads, InsertType(t)
      PROVE PassedIsHeld'
  BY <1>13 DEF InsertType
<1>14. ASSUME NEW t \in Threads, InsertTypeFails(t)
      PROVE PassedIsHeld'
  BY <1>14 DEF InsertTypeFails, CatchAndContinue
<1>15. ASSUME NEW t \in Threads, InsertRow(t)
      PROVE PassedIsHeld'
  <2>1. PICK u \in Users :
          session' = [session EXCEPT ![t][u] =
                            [by |-> t, emailed |-> FALSE, state |-> "new"]]
    BY <1>15 DEF InsertRow
  <2>2. [by |-> t, emailed |-> FALSE, state |-> "new"] # None
    <3>1. [by |-> t, emailed |-> FALSE, state |-> "new"] \in Entities
      BY DEF Entities
    <3>2. QED
      BY <3>1, NoneAssumption
  <2>3. \A v \in Users : session[t][v] # None => session'[t][v] # None
    BY <2>1, <2>2
  <2>4. /\ pc[t] = "insert" /\ pc'[t] = "push"
        /\ UNCHANGED <<work, pos, tx>>
        /\ \A x \in Threads \ {t} : pc'[x] = pc[x]
    BY <1>15 DEF InsertRow
  <2>5. \A i \in DOMAIN UserList(work[t]) :
          UserList(work[t])[i] = Blank \/ UserList(work[t])[i] \in Users
    BY <2>4, UserListType
  <2>6. Passed(t)'
    BY <2>3, <2>4, <2>5
  <2>7. OthersStay(t)
    BY <1>15 DEF InsertRow, OthersStay
  <2>8. QED
    BY <2>6, <2>7, PassedBy
<1>16. ASSUME NEW t \in Threads, InsertRowFails(t)
      PROVE PassedIsHeld'
  <2>1. PICK u \in Users : CatchAndContinue(t, "insert", "broken")
    BY <1>16 DEF InsertRowFails
  <2>2. QED
    BY <2>1 DEF CatchAndContinue
<1>17. ASSUME NEW t \in Threads, Push(t)
      PROVE PassedIsHeld'
  <2>1. CASE pc'[t] = "mail"
    <3>1. /\ pc[t] = "push" /\ UNCHANGED <<work, pos, tx, session>>
          /\ \A x \in Threads \ {t} : pc'[x] = pc[x]
      BY <1>17, <2>1 DEF Push
    <3>2. Passed(t)'
      BY <2>1, <3>1
    <3>3. OthersStay(t)
      BY <3>1 DEF OthersStay
    <3>4. QED
      BY <3>2, <3>3, PassedBy
  <2>2. CASE pc'[t] # "mail"
    <3>1. PICK u \in Users : AtUser(t, u, "push") /\ NextUser(t, "push")
      BY <1>17, <2>2 DEF Push
    <3>2. session[t][u] # None
      BY <3>1 DEF AtUser
    <3>3. UNCHANGED <<work, tx, session>>
      BY <1>17 DEF Push
    <3>4. Passed(t)'
      BY <3>1, <3>2, <3>3, PassedNext
    <3>5. OthersStay(t)
      BY <3>1, <3>3 DEF OthersStay
    <3>6. QED
      BY <3>4, <3>5, PassedBy
  <2>3. QED
    BY <2>1, <2>2
<1>18. ASSUME NEW t \in Threads, MailAlreadySent(t)
      PROVE PassedIsHeld'
  <2>1. PICK u \in Users : AtUser(t, u, "mail") /\ NextUser(t, "mail")
    BY <1>18 DEF MailAlreadySent
  <2>2. session[t][u] # None
    BY <2>1 DEF AtUser
  <2>3. UNCHANGED <<work, tx, session>>
    BY <1>18 DEF MailAlreadySent
  <2>4. Passed(t)'
    BY <2>1, <2>2, <2>3, PassedNext
  <2>5. OthersStay(t)
    BY <2>1, <2>3 DEF OthersStay
  <2>6. QED
    BY <2>4, <2>5, PassedBy
<1>19. ASSUME NEW t \in Threads, MailNotSent(t)
      PROVE PassedIsHeld'
  <2>1. PICK u \in Users : AtUser(t, u, "mail") /\ NextUser(t, "mail")
    BY <1>19 DEF MailNotSent
  <2>2. session[t][u] # None
    BY <2>1 DEF AtUser
  <2>3. Keeps(t)
    BY <1>19, MailKeeps
  <2>4. \A v \in Users : session[t][v] # None => session'[t][v] # None
    BY <2>3 DEF Keeps
  <2>5. UNCHANGED <<work, tx>>
    BY <1>19 DEF MailNotSent
  <2>6. Passed(t)'
    BY <2>1, <2>2, <2>4, <2>5, PassedNext
  <2>7. OthersStay(t)
    BY <1>19, <2>3 DEF MailNotSent, Keeps, OthersStay
  <2>8. QED
    BY <2>6, <2>7, PassedBy
<1>20. ASSUME NEW t \in Threads, MailSent(t)
      PROVE PassedIsHeld'
  <2>1. PICK u \in Users : AtUser(t, u, "mail") /\ NextUser(t, "mail")
    BY <1>20 DEF MailSent
  <2>2. session[t][u] # None
    BY <2>1 DEF AtUser
  <2>3. Keeps(t)
    BY <1>20, MailKeeps
  <2>4. \A v \in Users : session[t][v] # None => session'[t][v] # None
    BY <2>3 DEF Keeps
  <2>5. UNCHANGED <<work, tx>>
    BY <1>20 DEF MailSent
  <2>6. Passed(t)'
    BY <2>1, <2>2, <2>4, <2>5, PassedNext
  <2>7. OthersStay(t)
    BY <1>20, <2>3 DEF MailSent, Keeps, OthersStay
  <2>8. QED
    BY <2>6, <2>7, PassedBy
<1>21. ASSUME NEW t \in Threads, MailThrows(t)
      PROVE PassedIsHeld'
  <2>1. PICK u \in Users : AtUser(t, u, "mail") /\ NextUser(t, "mail")
    BY <1>21 DEF MailThrows
  <2>2. session[t][u] # None
    BY <2>1 DEF AtUser
  <2>3. UNCHANGED <<work, tx, session>>
    BY <1>21 DEF MailThrows
  <2>4. Passed(t)'
    BY <2>1, <2>2, <2>3, PassedNext
  <2>5. OthersStay(t)
    BY <2>1, <2>3 DEF OthersStay
  <2>6. QED
    BY <2>4, <2>5, PassedBy
<1>22. ASSUME NEW t \in Threads, Commit(t)
      PROVE PassedIsHeld'
  BY <1>22 DEF Commit, EndTx
<1>23. ASSUME NEW t \in Threads, Rollback(t)
      PROVE PassedIsHeld'
  BY <1>23 DEF Rollback, EndTx
<1>24. CASE Crash
  BY <1>24 DEF Crash
<1>25. QED
  BY <1>1, <1>2, <1>3, <1>4, <1>5, <1>6, <1>7, <1>8, <1>9, <1>10, <1>11,
     <1>12, <1>13, <1>14, <1>15, <1>16, <1>17, <1>18, <1>19, <1>20, <1>21, <1>22, <1>23, <1>24 DEF Next, Step

-----------------------------------------------------------------------------
\* Only a commit or a restart changes the table, and only a commit makes a
\* request "done".
RowsStay ==
    /\ rows' = rows /\ pushed \subseteq pushed' /\ crashes' = crashes
    /\ \A r \in Requests : pc'[r] = "done" => pc[r] = "done"
RowsMayChange == (\E t \in Threads : Commit(t)) \/ Crash

\* There are no other steps.
LEMMA StepKinds ==
    ASSUME TypeOK, Next
    PROVE RowsMayChange \/ RowsStay
<1> USE DEF TypeOK, RowsMayChange, RowsStay, Threads, Goto, NextUser, dbVars, txVars, outVars
<1>0. Consumers \cap Requests = {}
  BY PipelineAssumption
<1> USE <1>0
<1>1. ASSUME NEW w \in Consumers, NEW e \in Events, Consume(w, e)
      PROVE RowsMayChange \/ RowsStay
  BY <1>1 DEF Consume, TakeUp
<1>2. ASSUME NEW w \in Consumers, Ack(w)
      PROVE RowsMayChange \/ RowsStay
  BY <1>2 DEF Ack
<1>3. ASSUME NEW r \in Requests, Receive(r)
      PROVE RowsMayChange \/ RowsStay
  BY <1>3 DEF Receive, TakeUp
<1>4. ASSUME NEW r \in Requests, RefuseRequest(r)
      PROVE RowsMayChange \/ RowsStay
  BY <1>4 DEF RefuseRequest
<1>5. ASSUME NEW t \in Threads, Start(t)
      PROVE RowsMayChange \/ RowsStay
  BY <1>5 DEF Start
<1>6. ASSUME NEW t \in Threads, StartFails(t)
      PROVE RowsMayChange \/ RowsStay
  BY <1>6 DEF StartFails
<1>7. ASSUME NEW t \in Threads, SkipBlank(t)
      PROVE RowsMayChange \/ RowsStay
  BY <1>7 DEF SkipBlank
<1>8. ASSUME NEW t \in Threads, LeaveLoop(t)
      PROVE RowsMayChange \/ RowsStay
  BY <1>8 DEF LeaveLoop
<1>9. ASSUME NEW t \in Threads, RefuseMissingId(t)
      PROVE RowsMayChange \/ RowsStay
  BY <1>9 DEF RefuseMissingId, CatchAndContinue
<1>10. ASSUME NEW t \in Threads, FindExisting(t)
      PROVE RowsMayChange \/ RowsStay
  BY <1>10 DEF FindExisting
<1>11. ASSUME NEW t \in Threads, FindFails(t)
      PROVE RowsMayChange \/ RowsStay
  BY <1>11 DEF FindFails, CatchAndContinue
<1>12. ASSUME NEW t \in Threads, FindType(t)
      PROVE RowsMayChange \/ RowsStay
  BY <1>12 DEF FindType
<1>13. ASSUME NEW t \in Threads, InsertType(t)
      PROVE RowsMayChange \/ RowsStay
  BY <1>13 DEF InsertType
<1>14. ASSUME NEW t \in Threads, InsertTypeFails(t)
      PROVE RowsMayChange \/ RowsStay
  BY <1>14 DEF InsertTypeFails, CatchAndContinue
<1>15. ASSUME NEW t \in Threads, InsertRow(t)
      PROVE RowsMayChange \/ RowsStay
  BY <1>15 DEF InsertRow
<1>16. ASSUME NEW t \in Threads, InsertRowFails(t)
      PROVE RowsMayChange \/ RowsStay
  BY <1>16 DEF InsertRowFails, CatchAndContinue
<1>17. ASSUME NEW t \in Threads, Push(t)
      PROVE RowsMayChange \/ RowsStay
  BY <1>17 DEF Push
<1>18. ASSUME NEW t \in Threads, MailAlreadySent(t)
      PROVE RowsMayChange \/ RowsStay
  BY <1>18 DEF MailAlreadySent
<1>19. ASSUME NEW t \in Threads, MailNotSent(t)
      PROVE RowsMayChange \/ RowsStay
  BY <1>19 DEF MailNotSent
<1>20. ASSUME NEW t \in Threads, MailSent(t)
      PROVE RowsMayChange \/ RowsStay
  BY <1>20 DEF MailSent
<1>21. ASSUME NEW t \in Threads, MailThrows(t)
      PROVE RowsMayChange \/ RowsStay
  BY <1>21 DEF MailThrows
<1>22. ASSUME NEW t \in Threads, Commit(t)
      PROVE RowsMayChange \/ RowsStay
  BY <1>22
<1>23. ASSUME NEW t \in Threads, Rollback(t)
      PROVE RowsMayChange \/ RowsStay
  BY <1>23 DEF Rollback, EndTx
<1>24. CASE Crash
  BY <1>24
<1>25. QED
  BY <1>1, <1>2, <1>3, <1>4, <1>5, <1>6, <1>7, <1>8, <1>9, <1>10, <1>11,
     <1>12, <1>13, <1>14, <1>15, <1>16, <1>17, <1>18, <1>19, <1>20, <1>21, <1>22, <1>23, <1>24 DEF Next, Step

\* A commit leaves its event stored for everybody it is addressed to.
LEMMA CommitStoresAll ==
    ASSUME TypeOK, LoadedIsStored, PassedIsHeld, NEW t \in Threads, Commit(t)
    PROVE /\ work[t] \in Events
          /\ Receivers(work[t]) \subseteq Users
          /\ \A u \in Receivers(work[t]) : RowStored(work[t], u)'
<1>1. pc[t] = "commit" /\ tx[t] = "active" /\ work[t] \in Events /\ work' = work
  BY DEF Commit, Goto, TypeOK
<1>2. Receivers(work[t]) \subseteq Users
  BY <1>1, UserListType
<1>3. \A u \in Receivers(work[t]) : session[t][u] # None
  BY <1>1 DEF PassedIsHeld, Passed
<1>4. \A u \in Receivers(work[t]) : session[t][u].state = "new" \/ RowStored(work[t], u)
  BY <1>2, <1>3 DEF LoadedIsStored
<1>5. QED
  BY <1>1, <1>2, <1>3, <1>4, CommitStores

\* Every step keeps what is claimed of the rows.
LEMMA RowStep ==
    ASSUME IInv, Next
    PROVE RowInv'
<1> USE DEF IInv, TxInv, RowInv
<1>1. CASE RowsStay
  BY <1>1 DEF RowsStay, OneRowPerTarget, StoredForAllOrNone, StoredWasPushed,
              AcceptedIsStored, RowStored
<1>2. CASE Crash
  <2>1. rows' = {} /\ crashes' # 0
    BY <1>2 DEF Crash, TypeOK
  <2>2. QED
    BY <2>1 DEF OneRowPerTarget, StoredForAllOrNone, StoredWasPushed, AcceptedIsStored
<1>3. ASSUME NEW t \in Threads, Commit(t)
      PROVE RowInv'
  <2>1. /\ work[t] \in Events
        /\ pc[t] = "commit" /\ pc' = [pc EXCEPT ![t] = IF t \in Consumers THEN "ack" ELSE "done"]
        /\ rows' = Updated(t) \cup Inserted(t)
        /\ UNCHANGED <<work, pushed, crashes>>
    BY <1>3 DEF Commit, Goto, outVars, TypeOK
  <2>2. \A r \in Updated(t) : \E q \in rows :
          /\ r.event = q.event /\ r.user = q.user /\ r.by = q.by
          /\ r = IF /\ q.event = work[t]
                    /\ session[t][q.user] # None
                    /\ session[t][q.user].state \in {"dirty", "flushed"}
                 THEN [q EXCEPT !.emailed = TRUE] ELSE q
    BY DEF Updated, TypeOK, Rows
  <2>3. \A r \in Inserted(t) :
          /\ r.event = work[t] /\ r.user \in Users /\ r.by = t
          /\ session[t][r.user] # None /\ session[t][r.user].state = "new"
          /\ r = [event |-> work[t], user |-> r.user, by |-> t,
                  emailed |-> session[t][r.user].emailed]
    BY DEF Inserted
  <2>4. rows' \subseteq Rows
    BY <2>1, WrittenRows
  <2>5. \A e \in Events : \A u \in Users :
          RowStored(e, u)' <=>
            \/ RowStored(e, u)
            \/ e = work[t] /\ session[t][u] # None /\ session[t][u].state = "new"
    BY <1>3, CommitStores
  <2>6. /\ Receivers(work[t]) \subseteq Users
        /\ \A u \in Receivers(work[t]) : RowStored(work[t], u)'
    BY <1>3, CommitStoresAll
  <2>7. OneRowPerTarget'
    <3>1. ASSUME NEW r \in Updated(t), NEW q \in Updated(t), r.event = q.event, r.user = q.user
          PROVE r = q
      <4>1. PICK x \in rows :
              /\ r.event = x.event /\ r.user = x.user
              /\ r = IF /\ x.event = work[t]
                        /\ session[t][x.user] # None
                        /\ session[t][x.user].state \in {"dirty", "flushed"}
                     THEN [x EXCEPT !.emailed = TRUE] ELSE x
        BY <2>2
      <4>2. PICK y \in rows :
              /\ q.event = y.event /\ q.user = y.user
              /\ q = IF /\ y.event = work[t]
                        /\ session[t][y.user] # None
                        /\ session[t][y.user].state \in {"dirty", "flushed"}
                     THEN [y EXCEPT !.emailed = TRUE] ELSE y
        BY <2>2
      <4>3. x = y
        BY <3>1, <4>1, <4>2 DEF OneRowPerTarget
      <4>4. QED
        BY <4>1, <4>2, <4>3
    <3>2. ASSUME NEW r \in Inserted(t), NEW q \in Inserted(t), r.event = q.event, r.user = q.user
          PROVE r = q
      BY <2>3, <3>2
    <3>3. ASSUME NEW r \in Inserted(t), NEW q \in Updated(t)
          PROVE ~(r.event = q.event /\ r.user = q.user)
      <4>1. ~RowStored(work[t], r.user)
        BY <2>3 DEF NewIsExclusive
      <4>2. QED
        BY <2>2, <2>3, <4>1 DEF RowStored
    <3>4. QED
      BY <2>1, <3>1, <3>2, <3>3 DEF OneRowPerTarget
  <2>8. StoredForAllOrNone'
    <3>1. SUFFICES ASSUME NEW r \in rows', NEW u \in Receivers(r.event)
                   PROVE RowStored(r.event, u)'
      BY DEF StoredForAllOrNone, Receivers, UserList
    <3>2. r.event \in Events /\ u \in Users
      BY <2>4, UserListType DEF Rows
    <3>3. CASE r \in Updated(t)
      BY <2>2, <2>5, <3>2, <3>3 DEF StoredForAllOrNone
    <3>4. CASE r \in Inserted(t)
      BY <2>1, <2>3, <2>6, <3>4
    <3>5. QED
      BY <2>1, <3>3, <3>4
  <2>9. StoredWasPushed'
    <3>1. \A r \in Updated(t) : <<r.event, r.user, r.by>> \in pushed
      BY <2>2 DEF StoredWasPushed
    <3>2. \A r \in Inserted(t) : <<r.event, r.user, r.by>> \in pushed
      BY <2>1, <2>3 DEF NewIsPushed, AtUser
    <3>3. QED
      BY <2>1, <3>1, <3>2 DEF StoredWasPushed
  <2>10. AcceptedIsStored'
    <3>1. SUFFICES ASSUME NEW r \in Requests, pc'[r] = "done", crashes' = 0,
                          NEW u \in Receivers(Body[r])
                   PROVE RowStored(Body[r], u)'
      BY DEF AcceptedIsStored, Receivers, UserList
    <3>2. Body[r] \in Events /\ u \in Users
      BY PipelineAssumption, UserListType
    <3>3. CASE r = t
      <4>1. Body[r] = work[t]
        BY <2>1, <3>3 DEF OwnBody
      <4>2. QED
        BY <2>1, <2>6, <4>1
    <3>4. CASE r # t
      <4>1. pc[r] = "done" /\ crashes = 0
        BY <2>1, <3>1, <3>4 DEF TypeOK, Threads
      <4>2. QED
        BY <2>5, <3>2, <4>1 DEF AcceptedIsStored
    <3>5. QED
      BY <3>3, <3>4
  <2>11. QED
    BY <2>7, <2>8, <2>9, <2>10
<1>4. QED
  BY <1>1, <1>2, <1>3, StepKinds DEF RowsMayChange

-----------------------------------------------------------------------------
\* The invariant holds at the start ...
LEMMA InitHolds == Init => IInv
<1> SUFFICES ASSUME Init PROVE IInv
  OBVIOUS
<1> USE DEF Init, NoEntities
<1>1. TypeOK
  <2>1. /\ SeedTypes \subseteq Types /\ MaxCrashes \in Nat
    BY PipelineAssumption
  <2>2. crashes \in 0..MaxCrashes
    BY <2>1
  <2>3. /\ session \in [Threads -> [Users -> Entities \cup {None}]]
        /\ mails \in [Events -> [Users -> Nat]]
    OBVIOUS
  <2>4. \A t \in Threads : pc[t] = "idle"
    OBVIOUS
  <2>5. \A w \in Consumers : work[w] = None
    BY DEF Threads
  <2>6. QED
    BY <2>1, <2>2, <2>3, <2>4, <2>5 DEF TypeOK
<1>2. TxInv
  BY DEF TxInv, AtRest, OwnBody, HeldIsAddressed, NewIsExclusive, LoadedIsStored,
         NewIsPushed, PassedIsHeld, Passed, LoopPC, Threads
<1>3. RowInv
  BY DEF RowInv, OneRowPerTarget, StoredForAllOrNone, StoredWasPushed,
         AcceptedIsStored, Threads
<1>4. QED
  BY <1>1, <1>2, <1>3 DEF IInv

\* ... and every step keeps it.
LEMMA StepHolds == IInv /\ [Next]_vars => IInv'
<1> SUFFICES ASSUME IInv, [Next]_vars PROVE IInv'
  OBVIOUS
<1>1. CASE Next
  <2>1. TypeOK'
    BY <1>1, TypeStep DEF IInv
  <2>2. TxInv'
    BY <1>1, RestStep, SessionStep, PushedStep, PassedStep DEF IInv, TxInv
  <2>3. RowInv'
    BY <1>1, RowStep
  <2>4. QED
    BY <2>1, <2>2, <2>3 DEF IInv
<1>2. CASE UNCHANGED vars
  <2> USE <1>2 DEF vars
  <2>1. TypeOK'
    BY DEF IInv, TypeOK, AtUser, CurrentUser, UserList
  <2>2. (AtRest /\ OwnBody /\ HeldIsAddressed /\ NewIsExclusive)'
    BY DEF IInv, TxInv, AtRest, OwnBody, HeldIsAddressed, NewIsExclusive,
           Receivers, UserList, RowStored, RowHeldByOther
  <2>3. (LoadedIsStored /\ NewIsPushed)'
    <3>1. LoadedIsStored'
      BY DEF IInv, TxInv, LoadedIsStored, RowStored
    <3>2. \A t \in Threads : \A u \in Users :
            AtUser(t, u, "push") => AtUser(t, u, "push")'
      BY DEF AtUser, CurrentUser, UserList
    <3>3. NewIsPushed'
      BY <3>2 DEF IInv, TxInv, NewIsPushed
    <3>4. QED
      BY <3>1, <3>3
  <2>4. PassedIsHeld'
    BY DEF IInv, TxInv, PassedIsHeld, Passed, UserList, Receivers
  <2>5. RowInv'
    <3>1. (OneRowPerTarget /\ StoredWasPushed)'
      BY DEF IInv, RowInv, OneRowPerTarget, StoredWasPushed
    <3>2. StoredForAllOrNone'
      BY DEF IInv, RowInv, StoredForAllOrNone, RowStored, Receivers, UserList
    <3>3. AcceptedIsStored'
      BY DEF IInv, RowInv, AcceptedIsStored, RowStored, Receivers, UserList
    <3>4. QED
      BY <3>1, <3>2, <3>3 DEF RowInv
  <2>6. QED
    BY <2>1, <2>2, <2>3, <2>4, <2>5 DEF IInv, TxInv
<1>3. QED
  BY <1>1, <1>2

\* So the invariant always holds.
LEMMA Invariance == Spec => []IInv
BY InitHolds, StepHolds, PTL DEF Spec

\* Every variable keeps its type, and whoever dispatches a notification has the
\* entity it dispatches: `notification` is not null at lines 63-70 of
\* NotificationProcessingOrchestrator.processNotification.
THEOREM TypeCorrect == Spec => []TypeOK
<1>1. IInv => TypeOK
  BY DEF IInv
<1>2. QED
  BY <1>1, Invariance, PTL

\* However many threads, however often an event comes and however they
\* interleave, persistNotification leaves one row for an event and a user.
THEOREM OneRow == Spec => []OneRowPerTarget
<1>1. IInv => OneRowPerTarget
  BY DEF IInv, RowInv
<1>2. QED
  BY <1>1, Invariance, PTL

\* processNotification stores an event for all its targets or for none.
THEOREM AllOrNone == Spec => []StoredForAllOrNone
<1>1. IInv => StoredForAllOrNone
  BY DEF IInv, RowInv
<1>2. QED
  BY <1>1, Invariance, PTL

\* Every stored row was handed to dispatchNotification, by the thread whose row
\* it is.
THEOREM StoredIsPushed == Spec => []StoredWasPushed
<1>1. IInv => StoredWasPushed
  BY DEF IInv, RowInv
<1>2. QED
  BY <1>1, Invariance, PTL

\* The controllers answer 202 only for an event that is stored for all targets.
THEOREM AcceptedStored == Spec => []AcceptedIsStored
<1>1. IInv => AcceptedIsStored
  BY DEF IInv, RowInv
<1>2. QED
  BY <1>1, Invariance, PTL

-----------------------------------------------------------------------------
\* What readers see is which rows are stored.
LEMMA InboxIsStored ==
    ASSUME TypeOK
    PROVE /\ Inbox \subseteq Events \X Users
          /\ \A e \in Events : \A u \in Users : <<e, u>> \in Inbox <=> RowStored(e, u)
BY DEF TypeOK, Rows, Inbox, RowStored

\* A commit is NotificationStore's Store of the thread's event, a restart its
\* Wipe, and nothing else shows: processNotification's transaction is atomic.
THEOREM PipelineImplementsStore == Spec => ImplementsStore
<1>1. Init => Store!Init
  BY DEF Init, Store!Init, Inbox
<1>2. IInv /\ IInv' /\ [Next]_vars => [Store!Next]_Inbox
  <2>1. SUFFICES ASSUME IInv, IInv', [Next]_vars PROVE Store!Next \/ Inbox' = Inbox
    OBVIOUS
  <2>2. CASE UNCHANGED vars
    BY <2>2 DEF vars, Inbox
  <2>3. CASE RowsStay
    BY <2>3 DEF RowsStay, Inbox
  <2>4. CASE Crash
    BY <2>4 DEF Crash, Inbox, Store!Next, Store!Wipe
  <2>5. ASSUME NEW t \in Threads, Commit(t)
        PROVE Store!Next
    <3>1. /\ work[t] \in Events /\ Receivers(work[t]) \subseteq Users
          /\ \A u \in Receivers(work[t]) : RowStored(work[t], u)'
      BY <2>1, <2>5, CommitStoresAll DEF IInv, TxInv
    <3>2. \A e \in Events : \A u \in Users :
            RowStored(e, u)' <=> RowStored(e, u) \/ (e = work[t] /\ u \in Receivers(work[t]))
      <4>1. \A u \in Users : session[t][u] # None => u \in Receivers(work[t])
        BY <2>1 DEF IInv, TxInv, HeldIsAddressed
      <4>2. work' = work
        BY <2>5 DEF Commit
      <4>3. QED
        BY <2>1, <2>5, <3>1, <4>1, <4>2, CommitStores DEF IInv
    <3>3. /\ Inbox \subseteq Events \X Users
          /\ \A e \in Events : \A u \in Users : <<e, u>> \in Inbox <=> RowStored(e, u)
      BY <2>1, InboxIsStored DEF IInv
    <3>4. /\ Inbox' \subseteq Events \X Users
          /\ \A e \in Events : \A u \in Users : <<e, u>> \in Inbox' <=> RowStored(e, u)'
      BY <2>1 DEF IInv, TypeOK, Rows, Inbox, RowStored
    <3>5. Inbox' = Inbox \cup ({work[t]} \X Receivers(work[t]))
      BY <3>1, <3>2, <3>3, <3>4
    <3>6. Store!Store(work[t])
      BY <3>1, <3>5 DEF Store!Store
    <3>7. QED
      BY <3>1, <3>6 DEF Store!Next
  <2>6. QED
    BY <2>1, <2>2, <2>3, <2>4, <2>5, StepKinds DEF IInv, RowsMayChange
<1>3. QED
  BY <1>1, <1>2, Invariance, PTL DEF Spec, ImplementsStore, Store!Spec

=============================================================================
