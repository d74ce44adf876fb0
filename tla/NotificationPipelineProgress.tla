-------------------- MODULE NotificationPipelineProgress --------------------
(* No call of processNotification goes round: the part of its termination   *)
(* that holds for lists of any length, whatever fails in whatever order.    *)
EXTENDS NotificationPipelineProofs

\* A thread inside the body of the loop has a place in the list; one that is
\* about to enter it, or to leave it, is behind the list's end by one at most.
BodyPC == {"findType", "insertType", "insert", "push", "mail"}
PlaceOf(t) ==
    /\ pc[t] \in {"begin", "loop"} => pos[t] <= Len(UserList(work[t])) + 1
    /\ pc[t] \in BodyPC => pos[t] \in DOMAIN UserList(work[t])
PlaceOK == \A t \in Threads : PlaceOf(t)

\* The four things a step of a call can do: go on with this user, turn to the
\* next one, leave the loop (or skip it), end the transaction.
GoesOn(t) ==
    /\ pc[t] \in DOMAIN Stage /\ pc'[t] \in DOMAIN Stage /\ Stage[pc'[t]] < Stage[pc[t]]
    /\ pos'[t] = pos[t]
    /\ pc'[t] \in BodyPC => pos[t] \in DOMAIN UserList(work[t])

TurnsToNext(t) ==
    /\ pc[t] \in BodyPC \cup {"loop"} /\ pc'[t] = "loop"
    /\ pos[t] \in DOMAIN UserList(work[t])
    /\ pos'[t] = pos[t] + 1

Leaves(t) ==
    /\ pc[t] \in {"begin", "loop"} /\ pc'[t] = "commit"
    /\ pos'[t] = pos[t]

Ends(t) == pc[t] = "commit" /\ pc'[t] \in {"ack", "done", "failed"}

Moves(t) ==
    /\ work' = work
    /\ \A x \in Threads \ {t} : pc'[x] = pc[x] /\ pos'[x] = pos[x]
    /\ GoesOn(t) \/ TurnsToNext(t) \/ Leaves(t) \/ Ends(t)

-----------------------------------------------------------------------------
\* Stage is a table of seven numbers.
LEMMA Stages ==
    /\ DOMAIN Stage = {"begin", "loop"} \cup BodyPC
    /\ \A p \in DOMAIN Stage : Stage[p] \in 1..7
    /\ Stage["begin"] = 7 /\ Stage["loop"] = 6
    /\ Stage["findType"] = 5 /\ Stage["insertType"] = 4 /\ Stage["insert"] = 3
    /\ Stage["push"] = 2 /\ Stage["mail"] = 1
BY DEF Stage, BodyPC

\* The catch of the loop, wherever it is reached from, turns to the next user.
LEMMA CatchTurns ==
    ASSUME TypeOK, PlaceOK, NEW t \in Threads, NEW from \in BodyPC \cup {"loop"}, NEW left,
           CatchAndContinue(t, from, left), pos[t] \in DOMAIN UserList(work[t])
    PROVE  Moves(t)
BY DEF CatchAndContinue, NextUser, Goto, Moves, TurnsToNext, TypeOK

\* Each step of a call is one of the four.
LEMMA StepMoves ==
    ASSUME TypeOK, PlaceOK, NEW t \in Threads, Step(t)
    PROVE  Moves(t)
<1>0. Consumers \subseteq Threads
  BY DEF Threads
<1>p. /\ pc \in [Threads -> {"idle", "begin", "loop", "findType", "insertType", "insert",
                             "push", "mail", "commit", "ack", "done", "failed"}]
      /\ pos \in [Threads -> Nat \ {0}]
  BY DEF TypeOK
<1>1. CASE Start(t)
  BY <1>1, <1>p, Stages DEF Start, Goto, NextUser, AtUser, Moves, GoesOn, TurnsToNext, Leaves, Ends, BodyPC, dbVars, txVars, outVars
<1>2. CASE StartFails(t)
  BY <1>2, <1>p, Stages DEF StartFails, Goto, NextUser, AtUser, Moves, GoesOn, TurnsToNext, Leaves, Ends, BodyPC, dbVars, txVars, outVars
<1>3. CASE SkipBlank(t)
  BY <1>3, <1>p, Stages DEF SkipBlank, Goto, NextUser, AtUser, Moves, GoesOn, TurnsToNext, Leaves, Ends, BodyPC, dbVars, txVars, outVars
<1>4. CASE LeaveLoop(t)
  BY <1>4, <1>p, Stages DEF LeaveLoop, Goto, NextUser, AtUser, Moves, GoesOn, TurnsToNext, Leaves, Ends, BodyPC, dbVars, txVars, outVars
<1>5. CASE RefuseMissingId(t)
  <2>1. \E left : CatchAndContinue(t, "loop", left)
    BY <1>5 DEF RefuseMissingId
  <2>2. pos[t] \in DOMAIN UserList(work[t])
    BY <1>5 DEF RefuseMissingId, AtUser
  <2>3. QED
    BY <2>1, <2>2, CatchTurns DEF BodyPC
<1>6. CASE FindExisting(t)
  <2>1. /\ pc[t] = "loop" /\ pc'[t] \in {"push", "findType"}
        /\ pos[t] \in DOMAIN UserList(work[t])
        /\ UNCHANGED <<work, pos>>
        /\ \A x \in Threads \ {t} : pc'[x] = pc[x]
    BY <1>6, <1>p DEF FindExisting, Goto, AtUser
  <2>2. QED
    BY <2>1, Stages DEF Moves, GoesOn, BodyPC
<1>7. CASE FindFails(t)
  <2>1. \E left : CatchAndContinue(t, "loop", left)
    BY <1>7 DEF FindFails
  <2>2. pos[t] \in DOMAIN UserList(work[t])
    BY <1>7 DEF FindFails, AtUser
  <2>3. QED
    BY <2>1, <2>2, CatchTurns DEF BodyPC
<1>8. CASE FindType(t)
  <2>1. /\ pc[t] \in BodyPC /\ pc'[t] \in BodyPC /\ Stage[pc'[t]] < Stage[pc[t]]
        /\ UNCHANGED <<work, pos>>
        /\ \A x \in Threads \ {t} : pc'[x] = pc[x]
    BY <1>8, <1>p, Stages DEF FindType, Goto, BodyPC
  <2>2. QED
    BY <2>1, Stages DEF Moves, GoesOn, PlaceOK, PlaceOf
<1>9. CASE InsertType(t)
  <2>1. /\ pc[t] \in BodyPC /\ pc'[t] \in BodyPC /\ Stage[pc'[t]] < Stage[pc[t]]
        /\ UNCHANGED <<work, pos>>
        /\ \A x \in Threads \ {t} : pc'[x] = pc[x]
    BY <1>9, <1>p, Stages DEF InsertType, Goto, BodyPC
  <2>2. QED
    BY <2>1, Stages DEF Moves, GoesOn, PlaceOK, PlaceOf
<1>10. CASE InsertTypeFails(t)
  <2>1. pc[t] = "insertType" /\ CatchAndContinue(t, "insertType", "broken")
    BY <1>10 DEF InsertTypeFails, CatchAndContinue, NextUser, Goto
  <2>2. pos[t] \in DOMAIN UserList(work[t])
    BY <2>1 DEF PlaceOK, PlaceOf, BodyPC
  <2>3. QED
    BY <2>1, <2>2, CatchTurns DEF BodyPC
<1>11. CASE InsertRow(t)
  BY <1>11, <1>p, Stages DEF InsertRow, Goto, NextUser, AtUser, Moves, GoesOn, TurnsToNext, Leaves, Ends, BodyPC, dbVars, txVars, outVars
<1>12. CASE InsertRowFails(t)
  <2>1. \E left : CatchAndContinue(t, "insert", left)
    BY <1>12 DEF InsertRowFails
  <2>2. pos[t] \in DOMAIN UserList(work[t])
    BY <1>12 DEF InsertRowFails, AtUser
  <2>3. QED
    BY <2>1, <2>2, CatchTurns DEF BodyPC
<1>13. CASE Push(t)
  <2>1. /\ pc[t] = "push" /\ pos[t] \in DOMAIN UserList(work[t]) /\ work' = work
        /\ (Goto(t, "push", "mail") /\ UNCHANGED pos) \/ NextUser(t, "push")
    BY <1>13 DEF Push, AtUser
  <2>2. QED
    BY <2>1, <1>p, Stages DEF Goto, NextUser, AtUser, Moves, GoesOn, TurnsToNext, Leaves, Ends, BodyPC, dbVars, txVars, outVars
<1>14. CASE MailAlreadySent(t)
  BY <1>14, <1>p, Stages DEF MailAlreadySent, Goto, NextUser, AtUser, Moves, GoesOn, TurnsToNext, Leaves, Ends, BodyPC, dbVars, txVars, outVars
<1>15. CASE MailNotSent(t)
  BY <1>15, <1>p, Stages DEF MailNotSent, Goto, NextUser, AtUser, Moves, GoesOn, TurnsToNext, Leaves, Ends, BodyPC, dbVars, txVars, outVars
<1>16. CASE MailSent(t)
  BY <1>16, <1>p, Stages DEF MailSent, Goto, NextUser, AtUser, Moves, GoesOn, TurnsToNext, Leaves, Ends, BodyPC, dbVars, txVars, outVars
<1>17. CASE MailThrows(t)
  BY <1>17, <1>p, Stages DEF MailThrows, Goto, NextUser, AtUser, Moves, GoesOn, TurnsToNext, Leaves, Ends, BodyPC, dbVars, txVars, outVars
<1>18. CASE Commit(t)
  BY <1>18, <1>p DEF Commit, EndTx, Goto, Moves, Ends
<1>19. CASE Rollback(t)
  BY <1>19, <1>p DEF Rollback, EndTx, Goto, Moves, Ends
<1> QED
  BY <1>1, <1>2, <1>3, <1>4, <1>5, <1>6, <1>7, <1>8, <1>9, <1>10, <1>11, <1>12, <1>13, <1>14, <1>15, <1>16, <1>17, <1>18, <1>19 DEF Step

\* The arithmetic of a step: a lower stage, or the next place.
LEMMA Descends ==
    ASSUME NEW n \in Nat, NEW p \in Nat, NEW q \in Nat, NEW s \in 1..7, NEW r \in 1..7,
           p <= n + 1,
           (q = p /\ r < s) \/ (q = p + 1 /\ p <= n /\ r = 6)
    PROVE  /\ 6 * (n + 1 - q) + r \in 0..(6 * (n + 1 - p) + s)
           /\ 6 * (n + 1 - q) + r # 6 * (n + 1 - p) + s
OBVIOUS

\* A measure is a number, and one for each of the four it goes down.
LEMMA MoveAdvances ==
    ASSUME TypeOK, PlaceOK, NEW t \in Threads, work[t] \in Events, Moves(t)
    PROVE  /\ StepsLeft(t)' \in 0..StepsLeft(t)
           /\ StepsLeft(t)' # StepsLeft(t)
           /\ PlaceOf(t)'
<1> DEFINE n == Len(UserList(work[t]))
           s == Stage[pc[t]]
           r == Stage[pc'[t]]
<1>1. n \in Nat /\ DOMAIN UserList(work[t]) = 1..n
  BY UserListType
<1>2. pos[t] \in Nat /\ work'[t] = work[t]
  BY DEF TypeOK, Moves
<1>3. pc[t] \in DOMAIN Stage => StepsLeft(t) = 6 * (n + 1 - pos[t]) + s /\ s \in 1..7
                                 /\ pos[t] <= n + 1
  BY <1>1, <1>2, Stages DEF StepsLeft, PlaceOK, PlaceOf
<1>4. pc'[t] \in DOMAIN Stage => StepsLeft(t)' = 6 * (n + 1 - pos'[t]) + r /\ r \in 1..7
  BY <1>2, Stages DEF StepsLeft
<1>5. "commit" \notin DOMAIN Stage /\ {"ack", "done", "failed"} \cap DOMAIN Stage = {}
  BY Stages DEF BodyPC
<1>6. CASE GoesOn(t)
  <2>1. pc[t] \in DOMAIN Stage /\ pc'[t] \in DOMAIN Stage /\ r < s /\ pos'[t] = pos[t]
    BY <1>6 DEF GoesOn
  <2>2. StepsLeft(t)' \in 0..StepsLeft(t) /\ StepsLeft(t)' # StepsLeft(t)
    <3>1. /\ n \in Nat /\ pos[t] \in Nat /\ pos'[t] \in Nat
          /\ s \in 1..7 /\ r \in 1..7 /\ pos[t] <= n + 1
          /\ StepsLeft(t) = 6 * (n + 1 - pos[t]) + s
          /\ StepsLeft(t)' = 6 * (n + 1 - pos'[t]) + r
      BY <2>1, <1>1, <1>2, <1>3, <1>4
    <3>2. (pos'[t] = pos[t] /\ r < s) \/ (pos'[t] = pos[t] + 1 /\ pos[t] <= n /\ r = 6)
      BY <2>1, <1>1
    <3> HIDE DEF n, s, r
    <3> QED BY <3>1, <3>2, Descends
  <2>3. PlaceOf(t)'
    BY <1>6, <2>1, <1>1, <1>2, <1>3 DEF GoesOn, PlaceOf
  <2> QED BY <2>2, <2>3
<1>7. CASE TurnsToNext(t)
  <2>1. /\ pc[t] \in DOMAIN Stage /\ pc'[t] = "loop" /\ pc'[t] \in DOMAIN Stage /\ r = 6
        /\ pos[t] \in 1..n /\ pos'[t] = pos[t] + 1
    BY <1>7, <1>1, Stages DEF TurnsToNext
  <2>2. StepsLeft(t)' \in 0..StepsLeft(t) /\ StepsLeft(t)' # StepsLeft(t)
    <3>1. /\ n \in Nat /\ pos[t] \in Nat /\ pos'[t] \in Nat
          /\ s \in 1..7 /\ r \in 1..7 /\ pos[t] <= n + 1
          /\ StepsLeft(t) = 6 * (n + 1 - pos[t]) + s
          /\ StepsLeft(t)' = 6 * (n + 1 - pos'[t]) + r
      BY <2>1, <1>1, <1>2, <1>3, <1>4
    <3>2. (pos'[t] = pos[t] /\ r < s) \/ (pos'[t] = pos[t] + 1 /\ pos[t] <= n /\ r = 6)
      BY <2>1, <1>1
    <3> HIDE DEF n, s, r
    <3> QED BY <3>1, <3>2, Descends
  <2>3. PlaceOf(t)'
    BY <2>1, <1>1, <1>2 DEF PlaceOf, BodyPC
  <2> QED BY <2>2, <2>3
<1>8. CASE Leaves(t)
  <2>1. pc[t] \in DOMAIN Stage /\ pc'[t] = "commit" /\ s \in {6, 7}
    BY <1>8, Stages DEF Leaves
  <2>2. StepsLeft(t)' = 1
    BY <2>1, <1>5 DEF StepsLeft
  <2>3. StepsLeft(t)' \in 0..StepsLeft(t) /\ StepsLeft(t)' # StepsLeft(t)
    <3> HIDE DEF n, s, r
    <3> QED BY <2>1, <2>2, <1>1, <1>2, <1>3
  <2> QED BY <2>1, <2>3 DEF PlaceOf, BodyPC
<1>9. CASE Ends(t)
  <2>1. StepsLeft(t) = 1 /\ StepsLeft(t)' = 0
    BY <1>9, <1>5 DEF Ends, StepsLeft
  <2> QED BY <2>1, <1>9 DEF Ends, PlaceOf, BodyPC
<1> QED BY <1>6, <1>7, <1>8, <1>9 DEF Moves

\* The measure of a call is a number at any time.
LEMMA StepsLeftIsNatural ==
    ASSUME TypeOK, PlaceOK, NEW t \in Threads, work[t] \in Events
    PROVE  StepsLeft(t) \in Nat
<1> DEFINE n == Len(UserList(work[t]))
<1>1. n \in Nat /\ DOMAIN UserList(work[t]) = 1..n
  BY UserListType
<1>2. pos[t] \in Nat
  BY DEF TypeOK
<1>3. CASE pc[t] \in DOMAIN Stage
  <2>1. pos[t] <= n + 1 /\ Stage[pc[t]] \in 1..7
    BY <1>1, <1>2, <1>3, Stages DEF PlaceOK, PlaceOf
  <2>2. StepsLeft(t) = 6 * (n + 1 - pos[t]) + Stage[pc[t]]
    BY <1>3 DEF StepsLeft
  <2> HIDE DEF n
  <2> QED BY <1>1, <1>2, <2>1, <2>2
<1>4. CASE pc[t] \notin DOMAIN Stage
  BY <1>4 DEF StepsLeft
<1> QED BY <1>3, <1>4

\* A thread that is not touched has what it had.
LEMMA UntouchedKeeps ==
    ASSUME NEW t \in Threads, pc'[t] = pc[t], pos'[t] = pos[t], work'[t] = work[t]
    PROVE  StepsLeft(t)' = StepsLeft(t) /\ (PlaceOf(t) => PlaceOf(t)')
BY DEF StepsLeft, PlaceOf

\* Every other step takes up a call, ends one for good, or is a restart.
LEMMA OtherSteps ==
    ASSUME TypeOK, AtRest, PlaceOK, Next, NEW t \in Threads,
           pc'[t] # pc[t] \/ pos'[t] # pos[t] \/ work'[t] # work[t]
    PROVE  \/ Step(t)
           \/ pc[t] \in RestPC \ {"begin"} /\ PlaceOf(t)'
           \/ pc'[t] \in {"idle", "failed"}
<1>p. /\ pc \in [Threads -> {"idle", "begin", "loop", "findType", "insertType", "insert",
                             "push", "mail", "commit", "ack", "done", "failed"}]
      /\ pos \in [Threads -> Nat \ {0}]
      /\ work \in [Threads -> Events \cup {None}]
      /\ Consumers \subseteq Threads /\ Requests \subseteq Threads
  BY DEF TypeOK, Threads
<1>1. ASSUME NEW x \in Threads, NEW e \in Events, TakeUp(x, e)
      PROVE  pc[t] = "idle" /\ PlaceOf(t)'
  <2>1. x = t /\ pc[t] = "idle" /\ pc'[t] = "begin" /\ pos'[t] = pos[t] /\ work'[t] = e
    BY <1>1, <1>p DEF TakeUp, Goto
  <2>2. pos[t] = 1
    BY <2>1 DEF AtRest, RestPC
  <2>3. Len(UserList(e)) \in Nat
    BY UserListType
  <2> QED BY <2>1, <2>2, <2>3 DEF PlaceOf, BodyPC
<1>2. CASE \E w \in Consumers : \E e \in Events : Consume(w, e)
  BY <1>2, <1>1, <1>p DEF Consume, RestPC
<1>3. CASE \E r \in Requests : Receive(r)
  BY <1>3, <1>1, <1>p, PipelineAssumption DEF Receive, RestPC
<1>4. CASE \E w \in Consumers : Ack(w)
  BY <1>4, <1>p DEF Ack, Goto
<1>5. CASE \E r \in Requests : RefuseRequest(r)
  BY <1>5, <1>p DEF RefuseRequest, Goto
<1>6. CASE \E x \in Threads : Step(x)
  BY <1>6, StepMoves, <1>p DEF Moves
<1>7. CASE Crash
  <2>1. pos'[t] = 1 /\ (pc[t] \in RestPC => pos[t] = 1)
    BY <1>7 DEF Crash, AtRest
  <2>2. t \in Consumers => pc'[t] = "idle"
    BY <1>7 DEF Crash
  <2>3. t \notin Consumers => work'[t] = work[t]
    BY <1>7 DEF Crash
  <2>4. t \notin Consumers /\ pc[t] \in {"idle", "done", "failed"} => pc'[t] = pc[t]
    BY <1>7 DEF Crash
  <2>5. t \notin Consumers /\ pc[t] \notin {"idle", "done", "failed"} => pc'[t] = "failed"
    BY <1>7 DEF Crash
  <2> QED BY <2>1, <2>2, <2>3, <2>4, <2>5 DEF RestPC
<1> QED BY <1>2, <1>3, <1>4, <1>5, <1>6, <1>7 DEF Next

-----------------------------------------------------------------------------
LEMMA PlaceStep == IInv /\ PlaceOK /\ [Next]_vars => PlaceOK'
<1> SUFFICES ASSUME IInv, PlaceOK, [Next]_vars, NEW t \in Threads PROVE PlaceOf(t)'
  BY DEF PlaceOK
<1>1. TypeOK /\ AtRest
  BY DEF IInv, TxInv
<1>2. CASE pc'[t] = pc[t] /\ pos'[t] = pos[t] /\ work'[t] = work[t]
  BY <1>2, UntouchedKeeps DEF PlaceOK
<1>3. CASE ~(pc'[t] = pc[t] /\ pos'[t] = pos[t] /\ work'[t] = work[t])
  <2>1. Next
    BY <1>3 DEF vars
  <2>2. CASE Step(t)
    <3>1. Moves(t)
      BY <1>1, <2>2, StepMoves
    <3>2. work[t] \in Events
      BY <1>1, <3>1, Stages
         DEF TypeOK, Moves, GoesOn, TurnsToNext, Leaves, Ends, BodyPC
    <3> QED BY <1>1, <3>1, <3>2, MoveAdvances
  <2>3. CASE pc'[t] \in {"idle", "failed"}
    BY <2>3 DEF PlaceOf, BodyPC
  <2> QED BY <1>1, <1>3, <2>1, <2>2, <2>3, OtherSteps
<1> QED BY <1>2, <1>3

LEMMA PlaceInvariance == Spec => [](IInv /\ PlaceOK)
<1>1. Init => PlaceOK
  BY DEF Init, PlaceOK, PlaceOf, BodyPC
<1> QED BY <1>1, InitHolds, StepHolds, PlaceStep, PTL DEF Spec

\* A call never goes round, however long its list: each of its steps brings it
\* nearer to its end, and no other thread and no restart sets it back.
THEOREM CallsGoForward == Spec => CallsAdvance
<1>1. IInv /\ PlaceOK /\ [Next]_vars =>
        [\A t \in Threads : pc[t] \in DOMAIN Stage \cup {"commit"} =>
            /\ StepsLeft(t)' \in 0..StepsLeft(t)
            /\ Step(t) => StepsLeft(t)' # StepsLeft(t)]_vars
  <2> SUFFICES ASSUME IInv, PlaceOK, Next, NEW t \in Threads,
                      pc[t] \in DOMAIN Stage \cup {"commit"}
               PROVE  /\ StepsLeft(t)' \in 0..StepsLeft(t)
                      /\ Step(t) => StepsLeft(t)' # StepsLeft(t)
    OBVIOUS
  <2>1. TypeOK /\ AtRest
    BY DEF IInv, TxInv
  <2>2. work[t] \in Events /\ pc[t] \notin RestPC \ {"begin"}
    BY <2>1, Stages DEF TypeOK, BodyPC, RestPC
  <2>3. StepsLeft(t) \in Nat
    BY <2>1, <2>2, StepsLeftIsNatural
  <2>4. CASE Step(t)
    BY <2>1, <2>2, <2>4, StepMoves, MoveAdvances
  <2>5. CASE ~Step(t) /\ pc'[t] = pc[t] /\ pos'[t] = pos[t] /\ work'[t] = work[t]
    BY <2>3, <2>5, UntouchedKeeps
  <2>6. CASE ~Step(t) /\ pc'[t] \in {"idle", "failed"}
    <3>1. StepsLeft(t)' = 0
      BY <2>6, Stages DEF StepsLeft, BodyPC
    <3> QED BY <2>3, <2>6, <3>1
  <2> QED BY <2>1, <2>2, <2>4, <2>5, <2>6, OtherSteps
<1> QED BY <1>1, PlaceInvariance, PTL DEF Spec, CallsAdvance

=============================================================================
