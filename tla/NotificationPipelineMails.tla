---------------------- MODULE NotificationPipelineMails ----------------------
(* One mail per delivery, for any users, events and threads: an argument     *)
(* that counts.  A delivery that may still mail a user is worth one mail;    *)
(* mails sent and deliveries that may still send one are never more than the *)
(* deliveries that were taken up.                                            *)
EXTENDS NotificationPipelineProofs, FiniteSetTheorems

\* The thread is in a call for event e and its session has nothing that says the
\* user was mailed.
MailingPC == {"begin"} \cup LoopPC
MayMail(t, e, u) ==
    /\ work[t] = e
    /\ pc[t] \in MailingPC
    /\ session[t][u] = None \/ ~session[t][u].emailed

Mailers(e, u) == {t \in Threads : MayMail(t, e, u)}

\* A row is inserted only for a user of whom the session has no entity: the insert
\* hides no mark of an earlier mail.
SearchPC == {"findType", "insertType", "insert"}
SearchedInVain ==
    \A t \in Threads : \A u \in Users :
        pc[t] \in SearchPC /\ AtUser(t, u, pc[t]) => session[t][u] = None

\* The inductive invariant.
MailsCounted ==
    \A e \in Events : \A u \in Users :
        /\ IsFiniteSet(Mailers(e, u))
        /\ mails[e][u] + Cardinality(Mailers(e, u)) <= attempts[e]

MailInv == SearchedInVain /\ MailsCounted

-----------------------------------------------------------------------------
\* What a flush and a mark say of the mail.
LEMMA FlushedKeepsMark ==
    ASSUME NEW s \in [Users -> Entities \cup {None}], NEW u \in Users
    PROVE /\ Flushed(s)[u] = None <=> s[u] = None
          /\ s[u] # None => Flushed(s)[u].emailed = s[u].emailed
BY NoneAssumption DEF Flushed, Entities

LEMMA MarkedIsMailed ==
    ASSUME NEW s \in Entities
    PROVE Marked(s) # None /\ Marked(s).emailed
BY NoneAssumption DEF Marked, Entities

\* A search goes on for one user at a time and ends with the insert.
LEMMA SearchStep ==
    ASSUME TypeOK, SearchedInVain, Next
    PROVE SearchedInVain'
<1>0. /\ Body \in [Requests -> Events]
      /\ Consumers \cap Requests = {}
      /\ None \notin Events
  BY PipelineAssumption
<1> USE <1>0
    DEF TypeOK, SearchedInVain, SearchPC, AtUser, CurrentUser, Threads, Goto, NextUser, NoEntities,
        dbVars, txVars, outVars
<1>1. ASSUME NEW w \in Consumers, NEW e \in Events, Consume(w, e)
      PROVE SearchedInVain'
  BY <1>1 DEF Consume, TakeUp
<1>2. ASSUME NEW w \in Consumers, Ack(w)
      PROVE SearchedInVain'
  BY <1>2 DEF Ack
<1>3. ASSUME NEW r \in Requests, Receive(r)
      PROVE SearchedInVain'
  BY <1>3 DEF Receive, TakeUp
<1>4. ASSUME NEW r \in Requests, RefuseRequest(r)
      PROVE SearchedInVain'
  BY <1>4 DEF RefuseRequest
<1>5. ASSUME NEW t \in Threads, Start(t)
      PROVE SearchedInVain'
  BY <1>5 DEF Start
<1>6. ASSUME NEW t \in Threads, StartFails(t)
      PROVE SearchedInVain'
  BY <1>6 DEF StartFails
<1>7. ASSUME NEW t \in Threads, SkipBlank(t)
      PROVE SearchedInVain'
  BY <1>7 DEF SkipBlank
<1>8. ASSUME NEW t \in Threads, LeaveLoop(t)
      PROVE SearchedInVain'
  BY <1>8 DEF LeaveLoop
<1>9. ASSUME NEW t \in Threads, RefuseMissingId(t)
      PROVE SearchedInVain'
  BY <1>9 DEF RefuseMissingId, CatchAndContinue
<1>10. ASSUME NEW t \in Threads, FindExisting(t)
      PROVE SearchedInVain'
  <2>1. PICK u \in Users :
          /\ AtUser(t, u, "loop")
          /\ \/ pc'[t] = "push"
             \/ session[t][u] = None /\ session'[t] = Flushed(session[t])
    BY <1>10 DEF FindExisting
  <2>2. /\ UNCHANGED <<work, pos>>
        /\ \A x \in Threads \ {t} : pc'[x] = pc[x] /\ session'[x] = session[x]
    BY <1>10 DEF FindExisting
  <2>3. session[t][u] = None => Flushed(session[t])[u] = None
    BY FlushedKeepsMark
  <2>4. \A v \in Users : AtUser(t, v, "loop") => v = u
    BY <2>1
  <2>5. QED
    BY <2>1, <2>2, <2>3, <2>4
<1>11. ASSUME NEW t \in Threads, FindFails(t)
      PROVE SearchedInVain'
  <2>1. /\ UNCHANGED <<work, session>> /\ pc'[t] = "loop"
        /\ \A x \in Threads \ {t} : pc'[x] = pc[x] /\ pos'[x] = pos[x]
    BY <1>11 DEF FindFails, CatchAndContinue
  <2>2. QED
    BY <2>1
<1>12. ASSUME NEW t \in Threads, FindType(t)
      PROVE SearchedInVain'
  BY <1>12 DEF FindType
<1>13. ASSUME NEW t \in Threads, InsertType(t)
      PROVE SearchedInVain'
  BY <1>13 DEF InsertType
<1>14. ASSUME NEW t \in Threads, InsertTypeFails(t)
      PROVE SearchedInVain'
  BY <1>14 DEF InsertTypeFails, CatchAndContinue
<1>15. ASSUME NEW t \in Threads, InsertRow(t)
      PROVE SearchedInVain'
  BY <1>15 DEF InsertRow
<1>16. ASSUME NEW t \in Threads, InsertRowFails(t)
      PROVE SearchedInVain'
  BY <1>16 DEF InsertRowFails, CatchAndContinue
<1>17. ASSUME NEW t \in Threads, Push(t)
      PROVE SearchedInVain'
  <2>1. /\ UNCHANGED <<work, session>> /\ pc'[t] \in {"mail", "loop"}
        /\ \A x \in Threads \ {t} : pc'[x] = pc[x] /\ pos'[x] = pos[x]
    BY <1>17 DEF Push
  <2>2. QED
    BY <2>1
<1>18. ASSUME NEW t \in Threads, MailAlreadySent(t)
      PROVE SearchedInVain'
  BY <1>18 DEF MailAlreadySent
<1>19. ASSUME NEW t \in Threads, MailNotSent(t)
      PROVE SearchedInVain'
  BY <1>19 DEF MailNotSent
<1>20. ASSUME NEW t \in Threads, MailSent(t)
      PROVE SearchedInVain'
  BY <1>20 DEF MailSent
<1>21. ASSUME NEW t \in Threads, MailThrows(t)
      PROVE SearchedInVain'
  BY <1>21 DEF MailThrows
<1>22. ASSUME NEW t \in Threads, Commit(t)
      PROVE SearchedInVain'
  BY <1>22 DEF Commit, EndTx
<1>23. ASSUME NEW t \in Threads, Rollback(t)
      PROVE SearchedInVain'
  BY <1>23 DEF Rollback, EndTx
<1>24. CASE Crash
  BY <1>24 DEF Crash
<1>25. QED
  BY <1>1, <1>2, <1>3, <1>4, <1>5, <1>6, <1>7, <1>8, <1>9, <1>10, <1>11, <1>12,
     <1>13, <1>14, <1>15, <1>16, <1>17, <1>18, <1>19, <1>20, <1>21, <1>22,
     <1>23, <1>24
     DEF Next, Step


\* What most steps do: no mail, no new delivery, no other one that may mail.
NoNewMailer ==
    /\ mails' = mails /\ attempts' = attempts
    /\ \A t \in Threads : \A e \in Events : \A u \in Users :
        MayMail(t, e, u)' => MayMail(t, e, u)

LEMMA MailerStep ==
    ASSUME TypeOK, SearchedInVain, Next
    PROVE \/ NoNewMailer
          \/ \E t \in Threads : MailSent(t)
          \/ \E t \in Threads : \E e \in Events : TakeUp(t, e)
<1> DEFINE Goal == \/ NoNewMailer
                   \/ \E t \in Threads : MailSent(t)
                   \/ \E t \in Threads : \E e \in Events : TakeUp(t, e)
<1>0. /\ Body \in [Requests -> Events]
      /\ Consumers \cap Requests = {}
      /\ None \notin Events
  BY PipelineAssumption
<1> USE <1>0
    DEF TypeOK, NoNewMailer, MayMail, MailingPC, LoopPC, Threads, Goto, NextUser, NoEntities,
        dbVars, txVars, outVars
<1>1. ASSUME NEW w \in Consumers, NEW e \in Events, Consume(w, e)
      PROVE Goal
  BY <1>1 DEF Consume, TakeUp
<1>2. ASSUME NEW w \in Consumers, Ack(w)
      PROVE Goal
  BY <1>2 DEF Ack
<1>3. ASSUME NEW r \in Requests, Receive(r)
      PROVE Goal
  BY <1>3 DEF Receive, TakeUp
<1>4. ASSUME NEW r \in Requests, RefuseRequest(r)
      PROVE Goal
  BY <1>4 DEF RefuseRequest
<1>5. ASSUME NEW t \in Threads, Start(t)
      PROVE Goal
  BY <1>5 DEF Start
<1>6. ASSUME NEW t \in Threads, StartFails(t)
      PROVE Goal
  BY <1>6 DEF StartFails
<1>7. ASSUME NEW t \in Threads, SkipBlank(t)
      PROVE Goal
  BY <1>7 DEF SkipBlank
<1>8. ASSUME NEW t \in Threads, LeaveLoop(t)
      PROVE Goal
  BY <1>8 DEF LeaveLoop
<1>9. ASSUME NEW t \in Threads, RefuseMissingId(t)
      PROVE Goal
  BY <1>9 DEF RefuseMissingId, CatchAndContinue
<1>10. ASSUME NEW t \in Threads, FindExisting(t)
      PROVE Goal
  <2>1. /\ UNCHANGED <<work, mails, attempts>> /\ pc[t] = "loop"
        /\ \A x \in Threads \ {t} : pc'[x] = pc[x] /\ session'[x] = session[x]
    BY <1>10 DEF FindExisting
  <2>2. ASSUME NEW v \in Users, session[t][v] # None
        PROVE session'[t][v] # None /\ session'[t][v].emailed = session[t][v].emailed
    <3>1. /\ Flushed(session[t])[v] # None
          /\ Flushed(session[t])[v].emailed = session[t][v].emailed
      BY <2>2, FlushedKeepsMark
    <3>2. session'[t][v] = Flushed(session[t])[v]
      <4>1. Flushed(session[t]) \in [Users -> Entities \cup {None}]
        BY FlushedKeeps
      <4>2. QED
        BY <1>10, <2>2, <4>1 DEF FindExisting
    <3>3. QED
      BY <3>1, <3>2
  <2>3. QED
    BY <2>1, <2>2
<1>11. ASSUME NEW t \in Threads, FindFails(t)
      PROVE Goal
  BY <1>11 DEF FindFails, CatchAndContinue
<1>12. ASSUME NEW t \in Threads, FindType(t)
      PROVE Goal
  BY <1>12 DEF FindType
<1>13. ASSUME NEW t \in Threads, InsertType(t)
      PROVE Goal
  BY <1>13 DEF InsertType
<1>14. ASSUME NEW t \in Threads, InsertTypeFails(t)
      PROVE Goal
  BY <1>14 DEF InsertTypeFails, CatchAndContinue
<1>15. ASSUME NEW t \in Threads, InsertRow(t)
      PROVE Goal
  <2>1. PICK u \in Users :
          /\ AtUser(t, u, "insert")
          /\ session' = [session EXCEPT ![t][u] =
                            [by |-> t, emailed |-> FALSE, state |-> "new"]]
    BY <1>15 DEF InsertRow
  <2>2. session[t][u] = None
    BY <2>1 DEF SearchedInVain, SearchPC, AtUser
  <2>3. UNCHANGED <<work, mails, attempts>> /\ pc[t] = "insert" /\ pc' = [pc EXCEPT ![t] = "push"]
    BY <1>15 DEF InsertRow
  <2>4. QED
    BY <2>1, <2>2, <2>3
<1>16. ASSUME NEW t \in Threads, InsertRowFails(t)
      PROVE Goal
  BY <1>16 DEF InsertRowFails, CatchAndContinue
<1>17. ASSUME NEW t \in Threads, Push(t)
      PROVE Goal
  BY <1>17 DEF Push
<1>18. ASSUME NEW t \in Threads, MailAlreadySent(t)
      PROVE Goal
  BY <1>18 DEF MailAlreadySent
<1>19. ASSUME NEW t \in Threads, MailNotSent(t)
      PROVE Goal
  BY <1>19 DEF MailNotSent
<1>20. ASSUME NEW t \in Threads, MailSent(t)
      PROVE Goal
  BY <1>20 DEF MailSent
<1>21. ASSUME NEW t \in Threads, MailThrows(t)
      PROVE Goal
  BY <1>21 DEF MailThrows
<1>22. ASSUME NEW t \in Threads, Commit(t)
      PROVE Goal
  BY <1>22 DEF Commit, EndTx
<1>23. ASSUME NEW t \in Threads, Rollback(t)
      PROVE Goal
  BY <1>23 DEF Rollback, EndTx
<1>24. CASE Crash
  BY <1>24 DEF Crash
<1>25. QED
  BY <1>1, <1>2, <1>3, <1>4, <1>5, <1>6, <1>7, <1>8, <1>9, <1>10, <1>11, <1>12,
     <1>13, <1>14, <1>15, <1>16, <1>17, <1>18, <1>19, <1>20, <1>21, <1>22,
     <1>23, <1>24
     DEF Next, Step

-----------------------------------------------------------------------------
\* Fewer deliveries that may mail, no other change: the count holds.
LEMMA CountShrinks ==
    ASSUME TypeOK, MailsCounted, NoNewMailer
    PROVE MailsCounted'
<1> SUFFICES ASSUME NEW e \in Events, NEW u \in Users
             PROVE /\ IsFiniteSet(Mailers(e, u)')
                   /\ mails'[e][u] + Cardinality(Mailers(e, u)') <= attempts'[e]
  BY DEF MailsCounted
<1>1. /\ IsFiniteSet(Mailers(e, u))
      /\ mails[e][u] + Cardinality(Mailers(e, u)) <= attempts[e]
  BY DEF MailsCounted
<1>2. Mailers(e, u)' \subseteq Mailers(e, u)
  BY DEF NoNewMailer, Mailers
<1>3. /\ IsFiniteSet(Mailers(e, u)')
      /\ Cardinality(Mailers(e, u)') <= Cardinality(Mailers(e, u))
  BY <1>1, <1>2, FS_Subset
<1>4. Cardinality(Mailers(e, u)') \in Nat /\ Cardinality(Mailers(e, u)) \in Nat
  BY <1>1, <1>3, FS_CardinalityType
<1>5. mails[e][u] \in Nat /\ attempts[e] \in Nat /\ mails' = mails /\ attempts' = attempts
  BY DEF TypeOK, NoNewMailer
<1>6. QED
  BY <1>1, <1>3, <1>4, <1>5

\* A delivery that is taken up may mail each user, and is counted.
LEMMA CountTakeUp ==
    ASSUME TypeOK, MailsCounted, NEW t \in Threads, NEW e \in Events, TakeUp(t, e)
    PROVE MailsCounted'
<1> SUFFICES ASSUME NEW f \in Events, NEW u \in Users
             PROVE /\ IsFiniteSet(Mailers(f, u)')
                   /\ mails'[f][u] + Cardinality(Mailers(f, u)') <= attempts'[f]
  BY DEF MailsCounted
<1>1. /\ IsFiniteSet(Mailers(f, u))
      /\ mails[f][u] + Cardinality(Mailers(f, u)) <= attempts[f]
      /\ Cardinality(Mailers(f, u)) \in Nat
  BY FS_CardinalityType DEF MailsCounted
<1>2. /\ mails[f][u] \in Nat /\ attempts[f] \in Nat /\ mails' = mails
      /\ attempts'[f] = IF f = e THEN attempts[f] + 1 ELSE attempts[f]
  BY DEF TypeOK, TakeUp, outVars
<1>3. /\ session' = session /\ t \notin Mailers(f, u)
      /\ work'[t] = e
      /\ \A x \in Threads \ {t} : work'[x] = work[x] /\ pc'[x] = pc[x]
  BY DEF TypeOK, TakeUp, txVars, Goto, Mailers, MayMail, MailingPC, LoopPC
<1>4. CASE f = e
  <2>1. Mailers(f, u)' \subseteq Mailers(f, u) \cup {t}
    BY <1>3 DEF Mailers, MayMail
  <2>2. /\ IsFiniteSet(Mailers(f, u) \cup {t})
        /\ Cardinality(Mailers(f, u) \cup {t}) = Cardinality(Mailers(f, u)) + 1
    BY <1>1, <1>3, FS_AddElement
  <2>3. /\ IsFiniteSet(Mailers(f, u)')
        /\ Cardinality(Mailers(f, u)') <= Cardinality(Mailers(f, u) \cup {t})
    BY <2>1, <2>2, FS_Subset
  <2>4. Cardinality(Mailers(f, u)') \in Nat
    BY <2>3, FS_CardinalityType
  <2>5. QED
    BY <1>1, <1>2, <1>4, <2>2, <2>3, <2>4
<1>5. CASE f # e
  <2>1. Mailers(f, u)' \subseteq Mailers(f, u)
    BY <1>3, <1>5 DEF Mailers, MayMail
  <2>2. /\ IsFiniteSet(Mailers(f, u)')
        /\ Cardinality(Mailers(f, u)') <= Cardinality(Mailers(f, u))
    BY <1>1, <2>1, FS_Subset
  <2>3. Cardinality(Mailers(f, u)') \in Nat
    BY <2>2, FS_CardinalityType
  <2>4. QED
    BY <1>1, <1>2, <1>5, <2>2, <2>3
<1>6. QED
  BY <1>4, <1>5

\* A mail is sent by a delivery that may send it, and then no longer may.
LEMMA CountMail ==
    ASSUME TypeOK, MailsCounted, NEW t \in Threads, MailSent(t)
    PROVE MailsCounted'
<1>0. PICK v \in Users :
        /\ AtUser(t, v, "mail") /\ ~session[t][v].emailed
        /\ mails' = [mails EXCEPT ![work[t]][v] = @ + 1]
        /\ session' = [session EXCEPT ![t][v] = Marked(@)]
  BY DEF MailSent
<1>1. /\ work[t] \in Events /\ UNCHANGED <<work, attempts>>
      /\ pc[t] = "mail" /\ pc' = [pc EXCEPT ![t] = "loop"]
      /\ session[t][v] \in Entities
  BY <1>0 DEF TypeOK, MailSent, AtUser, NextUser, Goto
<1>2. session'[t][v] # None /\ session'[t][v].emailed
  BY <1>0, <1>1, MarkedIsMailed DEF TypeOK
<1> SUFFICES ASSUME NEW e \in Events, NEW u \in Users
             PROVE /\ IsFiniteSet(Mailers(e, u)')
                   /\ mails'[e][u] + Cardinality(Mailers(e, u)') <= attempts'[e]
  BY DEF MailsCounted
<1>3. /\ IsFiniteSet(Mailers(e, u))
      /\ mails[e][u] + Cardinality(Mailers(e, u)) <= attempts[e]
      /\ Cardinality(Mailers(e, u)) \in Nat
  BY FS_CardinalityType DEF MailsCounted
<1>4. /\ mails[e][u] \in Nat /\ attempts[e] \in Nat
      /\ mails'[e][u] = IF e = work[t] /\ u = v THEN mails[e][u] + 1 ELSE mails[e][u]
  BY <1>0, <1>1 DEF TypeOK
<1>5. Mailers(e, u)' \subseteq Mailers(e, u)
  BY <1>0, <1>1, <1>2 DEF TypeOK, Mailers, MayMail, MailingPC, LoopPC
<1>6. CASE e = work[t] /\ u = v
  <2>1. t \in Mailers(e, u) /\ t \notin Mailers(e, u)'
    BY <1>0, <1>1, <1>2, <1>6 DEF Mailers, MayMail, MailingPC, LoopPC
  <2>2. /\ IsFiniteSet(Mailers(e, u) \ {t})
        /\ Cardinality(Mailers(e, u) \ {t}) = Cardinality(Mailers(e, u)) - 1
    BY <1>3, <2>1, FS_RemoveElement
  <2>3. Mailers(e, u)' \subseteq Mailers(e, u) \ {t}
    BY <1>5, <2>1
  <2>4. /\ IsFiniteSet(Mailers(e, u)')
        /\ Cardinality(Mailers(e, u)') <= Cardinality(Mailers(e, u) \ {t})
    BY <2>2, <2>3, FS_Subset
  <2>5. Cardinality(Mailers(e, u)') \in Nat
    BY <2>4, FS_CardinalityType
  <2>6. QED
    BY <1>1, <1>3, <1>4, <1>6, <2>2, <2>4, <2>5
<1>7. CASE ~(e = work[t] /\ u = v)
  <2>1. /\ IsFiniteSet(Mailers(e, u)')
        /\ Cardinality(Mailers(e, u)') <= Cardinality(Mailers(e, u))
    BY <1>3, <1>5, FS_Subset
  <2>2. Cardinality(Mailers(e, u)') \in Nat
    BY <2>1, FS_CardinalityType
  <2>3. QED
    BY <1>1, <1>3, <1>4, <1>7, <2>1, <2>2
<1>8. QED
  BY <1>6, <1>7

\* The count always holds.
LEMMA MailInvariance == Spec => []MailInv
<1>1. Init => MailInv
  <2>1. Init => SearchedInVain
    BY DEF Init, SearchedInVain, SearchPC
  <2>2. Init => \A e \in Events : \A u \in Users : Mailers(e, u) = {}
    BY DEF Init, Mailers, MayMail, MailingPC, LoopPC
  <2>3. Init => MailsCounted
    BY <2>2, FS_EmptySet DEF Init, MailsCounted
  <2>4. QED
    BY <2>1, <2>3 DEF MailInv
<1>2. TypeOK /\ MailInv /\ [Next]_vars => MailInv'
  <2>1. TypeOK /\ MailInv /\ Next => MailInv'
    BY SearchStep, MailerStep, CountShrinks, CountTakeUp, CountMail DEF MailInv
  <2>2. UNCHANGED vars => (SearchedInVain => SearchedInVain')
    BY DEF vars, SearchedInVain, AtUser, CurrentUser, UserList
  <2>3. UNCHANGED vars => (MailsCounted => MailsCounted')
    BY DEF vars, MailsCounted, Mailers, MayMail
  <2>4. QED
    BY <2>1, <2>2, <2>3 DEF MailInv
<1>3. QED
  BY <1>1, <1>2, TypeCorrect, PTL DEF Spec

\* One delivery of an event mails a user at most once, whatever the list of users
\* repeats, whatever fails in between and however often the backend restarts.
THEOREM OneMail == Spec => []OneMailPerDelivery
<1>1. TypeOK /\ MailInv => OneMailPerDelivery
  <2> SUFFICES ASSUME TypeOK, MailInv, NEW e \in Events, NEW u \in Users
               PROVE mails[e][u] <= attempts[e]
    BY DEF OneMailPerDelivery
  <2>1. /\ mails[e][u] + Cardinality(Mailers(e, u)) <= attempts[e]
        /\ Cardinality(Mailers(e, u)) \in Nat
    BY FS_CardinalityType DEF MailInv, MailsCounted
  <2>2. mails[e][u] \in Nat /\ attempts[e] \in Nat
    BY DEF TypeOK
  <2>3. QED
    BY <2>1, <2>2
<1>2. QED
  BY <1>1, MailInvariance, TypeCorrect, PTL

=============================================================================
